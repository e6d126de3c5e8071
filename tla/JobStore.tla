------------------------------ MODULE JobStore ------------------------------
(* The SQLite store of internal/store/store.go and the two requests of     *)
(* internal/api/api.go that only read it.  The database is in WAL mode     *)
(* with synchronous=NORMAL and has one connection, so that transactions    *)
(* are serial and a commit reaches the disk for sure only with the next    *)
(* WAL checkpoint.  Goroutines call CreateJob, Transition and              *)
(* RecordCheckpoint; what each does before, in and after its transaction   *)
(* are separate steps.  The process can be killed and the machine can lose *)
(* power between any two of them.  The clock does not go back, and the     *)
(* reads of it within one transaction see one time.                        *)
EXTENDS Integers, Sequences, FiniteSetsExt, JobStates

CONSTANTS
  Jobs,       \* job ids
  Callers,    \* goroutines that write to the store
  Targets,    \* the states that callers ask for
  Epochs,     \* the epochs of checkpoint lines
  Limit,      \* the page size of ListJobs
  None,       \* no job
  MaxClock,   \* bound: the last time
  MaxEvents   \* bound: events in the database

ASSUME PageAssumption == Limit \in Nat \ {0}

ASSUME NoneAssumption == None \notin Jobs

VARIABLES
  hist,    \* the database: hist[1] is on the disk, the last one is current
  call,    \* call[g]: the store call that g is in
  client,  \* a client in GET /v1/jobs/{id} or in GET /v1/jobs, page by page
  clock,
  acked    \* history: acked[j], how many events of j have been acknowledged

vars == <<hist, call, client, clock, acked>>

Absent == [state |-> "absent", created |-> 0, started |-> 0, finished |-> 0,
           ckpt |-> 0]

db == hist[Len(hist)]

Present == {j \in Jobs : db.row[j] # Absent}

NoCall == [op |-> "none"]

Init ==
  /\ hist = << [row |-> [j \in Jobs |-> Absent],
                log |-> [j \in Jobs |-> <<>>],
                marker |-> 0] >>
  /\ call = [g \in Callers |-> NoCall]
  /\ client = NoCall
  /\ clock = 1
  /\ acked = [j \in Jobs |-> 0]

-----------------------------------------------------------------------------
(* Writing.                                                                *)

Busy == {g \in Callers : call[g] # NoCall}

Events == {e \in Jobs \X (1..MaxEvents) : e[2] <= Len(db.log[e[1]])}

\* g calls the store for job j.  The id of a new job is fresh.
Call(g, op, j, arg) ==
  /\ g \notin Busy
  /\ Cardinality(Events) + Cardinality(Busy) < MaxEvents
  /\ (op = "create") <=> (j \notin Present)
  /\ op = "create" => \A h \in Busy : call[h].job # j
  /\ call' = [call EXCEPT ![g] = [op |-> op, pc |-> "begin", job |-> j,
                                  arg |-> arg, at |-> clock, seq |-> 0]]
  /\ UNCHANGED <<hist, client, clock, acked>>

At(g, pc) == g \in Busy /\ call[g].pc = pc

\* The database with a new row for j and the event that explains it.
WithEvent(j, row, kind, value) ==
  LET event == [kind |-> kind, value |-> value, at |-> clock] IN
  [db EXCEPT !.row = [db.row EXCEPT ![j] = row],
             !.log = [db.log EXCEPT ![j] = Append(db.log[j], event)]]

\* g commits its transaction and goes on to the WAL checkpoint.
Commit(g, new) ==
  /\ hist' = Append(hist, new)
  /\ call' = [call EXCEPT ![g] = [@ EXCEPT !.pc = "sync",
                                          !.seq = Len(new.log[call[g].job])]]
  /\ UNCHANGED <<client, clock, acked>>

\* created_at is read before the transaction begins.
CreateJob(g) ==
  LET c == call[g] IN
  /\ At(g, "begin") /\ c.op = "create"
  /\ Commit(g, WithEvent(c.job, [Absent EXCEPT !.state = "pending",
                                               !.created = c.at],
                         "created", "pending"))

\* The columns that Transition writes.
Moved(row, next, now) ==
  [row EXCEPT !.state = next,
              !.started = IF next = "running" THEN now ELSE @,
              !.finished = IF IsTerminal(next) THEN now ELSE @]

\* Slip: a row that is in the state already gets no event.
TransitionQuiet(g) ==
  LET c == call[g] row == db.row[c.job] new == Moved(row, c.arg, clock) IN
  /\ At(g, "begin") /\ c.op = "transition"
  /\ IsValidTransition(row.state, c.arg)
  /\ Commit(g, IF row.state = c.arg THEN [db EXCEPT !.row[c.job] = new]
               ELSE WithEvent(c.job, new, "transition", c.arg))

\* Slip: the clock is read before BeginTx.
TransitionEarly(g) ==
  LET c == call[g] row == db.row[c.job] IN
  /\ At(g, "begin") /\ c.op = "transition"
  /\ IsValidTransition(row.state, c.arg)
  /\ Commit(g, WithEvent(c.job, Moved(row, c.arg, c.at), "transition", c.arg))

Transition(g) ==
  LET c == call[g] row == db.row[c.job] IN
  /\ At(g, "begin") /\ c.op = "transition"
  /\ IsValidTransition(row.state, c.arg)
  /\ Commit(g, WithEvent(c.job, Moved(row, c.arg, clock), "transition", c.arg))

Return(g) == call' = [call EXCEPT ![g] = NoCall]

\* RecordCheckpoint returns from its commit: no WAL checkpoint follows.
RecordCheckpoint(g) ==
  LET c == call[g] IN
  /\ At(g, "begin") /\ c.op = "checkpoint"
  /\ hist' = Append(hist, WithEvent(c.job, [db.row[c.job] EXCEPT !.ckpt = c.arg],
                                    "checkpoint", c.arg))
  /\ Return(g)
  /\ UNCHANGED <<client, clock, acked>>

\* The call returns an error and its transaction is rolled back: the
\* transition is not valid, or the context of the request is cancelled.
Rollback(g) ==
  /\ At(g, "begin")
  /\ Return(g)
  /\ UNCHANGED <<hist, client, clock, acked>>

\* The call returns without an error, its commit checkpointed.
Acknowledge(g) ==
  /\ acked' = [acked EXCEPT ![call[g].job] = Max({@, call[g].seq})]
  /\ Return(g)

\* Slip: the checkpoint runs inside the transaction and does nothing.
WALCheckpointEarly(g) ==
  /\ At(g, "sync")
  /\ Acknowledge(g)
  /\ UNCHANGED <<hist, client, clock>>

\* PRAGMA wal_checkpoint after the commit.  With one connection there is
\* no reader or writer to hold it up, so PASSIVE and FULL both copy every
\* frame.  A failing PRAGMA is not an error of the call.
WALCheckpoint(g) ==
  /\ At(g, "sync")
  /\ \/ hist' = <<db>> /\ call[g].op = "create" /\ Acknowledge(g)
     \/ /\ hist' = <<db>> /\ call[g].op = "transition"
        /\ call' = [call EXCEPT ![g].pc = "mark"]
        /\ UNCHANGED acked
     \/ Return(g) /\ UNCHANGED <<hist, acked>>
  /\ UNCHANGED <<client, clock>>

\* Transition stamps wal_marker, in a transaction of its own.
Mark(g) ==
  /\ At(g, "mark")
  /\ hist' = Append(hist, [db EXCEPT !.marker = clock])
  /\ Acknowledge(g)
  /\ UNCHANGED <<client, clock>>

-----------------------------------------------------------------------------
(* Reading.                                                                *)

\* Slip: the events are read before the row.
GetJobSwapped(j) ==
  /\ \/ /\ client = NoCall
        /\ client' = [op |-> "get", job |-> j, row |-> Absent,
                      newest |-> Len(db.log[j])]
     \/ /\ client.op = "get" /\ client.job = j
        /\ client' = [client EXCEPT !.op = "got", !.row = db.row[j]]
  /\ UNCHANGED <<hist, call, clock, acked>>

\* GET /v1/jobs/{id}: the row, then the newest events.
GetJob(j) ==
  /\ \/ /\ client = NoCall
        /\ client' = [op |-> "get", job |-> j, row |-> db.row[j], newest |-> 0]
     \/ /\ client.op = "get" /\ client.job = j
        /\ client' = [client EXCEPT !.op = "got", !.newest = Len(db.log[j])]
  /\ UNCHANGED <<hist, call, clock, acked>>

\* The rows of a page and those after it, newest first.  A row that is
\* not there has no created_at, and nothing compares with NULL.  SQLite
\* returns rows of equal created_at in any order.
PagesFrom(state, after) ==
  LET rows == {j \in Present :
                 /\ state \in {"", db.row[j].state}
                 /\ after # None =>
                      /\ after \in Present
                      /\ db.row[j].created < db.row[after].created}
  IN  {q \in Injection(1 .. Cardinality(rows), rows) : \A i, k \in DOMAIN q :
         i < k => db.row[q[i]].created >= db.row[q[k]].created}

\* Slip: the cursor is the row that proves there is a next page.
CursorSkips(q) == IF Len(q) > Limit THEN q[Limit + 1] ELSE None

Cursor(q) == IF Len(q) > Limit THEN q[Limit] ELSE None

\* ListJobs gives a client one page, and the cursor for the next.
ListJobs(state, after, seen, due) ==
  /\ \E q \in PagesFrom(state, after) :
       client' = [op |-> IF Cursor(q) = None THEN "listed" ELSE "list",
                  state |-> state, cursor |-> Cursor(q), due |-> due,
                  seen |-> seen \o SubSeq(q, 1, IF Len(q) > Limit THEN Limit
                                                 ELSE Len(q))]
  /\ UNCHANGED <<hist, call, clock, acked>>

\* A client asks for the first page; "due" is what it is to see.
ListFirst(state) ==
  client = NoCall /\ ListJobs(state, None, <<>>, IF state = "" THEN Present ELSE {})

ListNext ==
  client.op = "list" /\ ListJobs(client.state, client.cursor, client.seen, client.due)

\* The client has its answer.
Answered ==
  /\ client.op \in {"got", "listed"}
  /\ client' = NoCall
  /\ UNCHANGED <<hist, call, clock, acked>>

-----------------------------------------------------------------------------
(* The process and the machine.                                            *)

Restart ==
  /\ call' = [g \in Callers |-> NoCall]
  /\ client' = NoCall
  /\ UNCHANGED <<clock, acked>>

\* SIGKILL: Open finds every commit in the WAL.
Crash == Restart /\ UNCHANGED hist

\* Power loss: Open finds the WAL up to some commit after the last sync.
PowerLoss == Restart /\ \E i \in DOMAIN hist : hist' = <<hist[i]>>

\* Close, and the next Open.
Close == Restart /\ hist' = <<db>>

Tick ==
  /\ clock < MaxClock
  /\ clock' = clock + 1
  /\ UNCHANGED <<hist, call, client, acked>>

Next ==
  \/ \E g \in Callers, j \in Jobs :
       \/ Call(g, "create", j, "pending")
       \/ \E s \in Targets : Call(g, "transition", j, s)
       \/ \E e \in Epochs : Call(g, "checkpoint", j, e)
  \/ \E g \in Callers :
       \/ CreateJob(g) \/ Transition(g) \/ RecordCheckpoint(g) \/ Rollback(g)
       \/ WALCheckpoint(g) \/ Mark(g)
  \/ \E j \in Jobs : j \in Present /\ GetJob(j)
  \/ \E s \in {"", "running"} : ListFirst(s)
  \/ ListNext
  \/ Answered
  \/ Crash \/ PowerLoss \/ Close
  \/ Tick

Spec == Init /\ [][Next]_vars

-----------------------------------------------------------------------------
(* What the store promises.                                                *)

\* The events of a log that set jobs.state, started_at and finished_at, and
\* those that set last_ckpt_epoch.
Moves(log) == {n \in DOMAIN log : log[n].kind # "checkpoint"}
Starts(log) == {n \in Moves(log) : log[n].value = "running"}
Ends(log) == {n \in Moves(log) : IsTerminal(log[n].value)}
Marks(log) == {n \in DOMAIN log : log[n].kind = "checkpoint"}

\* The row that a log of events leads to, but for created_at: the newest
\* event that sets a column says what is in it.
Replay(log) ==
  [state |-> IF Moves(log) = {} THEN "absent" ELSE log[Max(Moves(log))].value,
   created |-> 0,
   started |-> IF Starts(log) = {} THEN 0 ELSE log[Max(Starts(log))].at,
   finished |-> IF Ends(log) = {} THEN 0 ELSE log[Max(Ends(log))].at,
   ckpt |-> IF Marks(log) = {} THEN 0 ELSE log[Max(Marks(log))].value]

Explains(log, row) == row = [Replay(log) EXCEPT !.created = row.created]

\* Every row is the one its events lead to, in every database that a power
\* loss can bring back: the row and the event are one transaction
\* (store.go:322-332), for self-transitions as well, which rewrite
\* finished_at (store.go:277-278).
RowIsReplayed ==
  \A i \in DOMAIN hist, j \in Jobs : Explains(hist[i].log[j], hist[i].row[j])

\* A create or a transition that returned, and whose WAL checkpoint did not
\* fail, is on the disk: no power loss undoes it, whatever other calls were
\* in flight (store.go:202-206, 330-340).
AcknowledgedIsDurable ==
  \A j \in Jobs : Len(hist[1].log[j]) >= acked[j]

\* The times of a row are in the order of the events they belong to, though
\* created_at is read before the transaction of CreateJob and other calls
\* come between (store.go:180-187, 304-313).
TimesAreOrdered ==
  \A i \in DOMAIN hist, j \in Jobs :
    LET row == hist[i].row[j] log == hist[i].log[j] IN
    /\ row.started # 0 => row.created <= row.started
    /\ row.finished # 0 => row.finished >= Max({row.created, row.started})
    /\ \A k \in 1..(Len(log) - 1) : log[k].at <= log[k + 1].at

\* The row that GET /v1/jobs/{id} shows is explained by the events it shows
\* with it: some event among them, or one they pushed out, led to it
\* (api.go:278-287 reads the row first).
ViewIsExplained ==
  client.op = "got" =>
    \E n \in 0..client.newest :
      Explains(SubSeq(db.log[client.job], 1, n), client.row)

\* A client that follows the cursors to the end sees no job twice, and sees
\* every job that was there when it began and shares its created_at with no
\* other, whatever is created and changed meanwhile (store.go:221-273).
ListingIsComplete ==
  client.op = "listed" =>
    /\ IsInjective(client.seen)
    /\ \A j \in client.due :
         (\A k \in Present \ {j} : db.row[k].created # db.row[j].created)
           => j \in Range(client.seen)
=============================================================================
