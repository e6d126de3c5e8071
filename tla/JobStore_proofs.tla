--------------------------- MODULE JobStore_proofs ---------------------------
(* Proofs about JobStore: the five invariants of the run job_store, for    *)
(* any number of jobs, goroutines, events and times.                       *)
EXTENDS JobStore, SequenceTheorems, FiniteSetTheorems, WellFoundedInduction,
        TLAPS

\* Leaves that name no prover are for SMT or Zenon.
USE SMTT(15), Z3T(15), Zenon

Value == {"pending"} \cup Targets \cup Epochs

Event == [kind : {"created", "transition", "checkpoint"}, value : Value, at : Nat]

Row == [state : RowState, created : Nat, started : Nat, finished : Nat,
        ckpt : Epochs \cup {0}]

Database == [row : [Jobs -> Row], log : [Jobs -> Seq(Event)], marker : Nat]

CallRecord == [op : {"create", "transition", "checkpoint"},
               pc : {"begin", "sync", "mark"},
               job : Jobs, arg : Value, at : Nat, seq : Nat]

GetRecord == [op : {"get", "got"}, job : Jobs, row : Row, newest : Nat]

ListRecord == [op : {"list", "listed"}, state : {"", "running"},
               cursor : Jobs \cup {None}, due : SUBSET Jobs, seen : Seq(Jobs)]

StoreTypeOK ==
  /\ hist \in Seq(Database) /\ hist # <<>>
  /\ call \in [Callers -> CallRecord \cup {NoCall}]
  /\ client \in GetRecord \cup ListRecord \cup {NoCall}
  /\ clock \in Nat \ {0}
  /\ acked \in [Jobs -> Nat]

\* What a row and its log have to do with each other and with the clock.
Sound(row, log, now) ==
  /\ Explains(log, row)
  /\ (row = Absent) <=> (log = <<>>)
  /\ (row.state = "absent") <=> (row = Absent)
  /\ row.finished # 0 => IsTerminal(row.state)
  /\ row.created <= now /\ row.started <= now /\ row.finished <= now
  /\ row.started # 0 => row.created <= row.started
  /\ row.finished # 0 => row.created <= row.finished /\ row.started <= row.finished
  /\ \A k \in 1..Len(log) : log[k].at <= now
  /\ \A k \in 1..(Len(log) - 1) : log[k].at <= log[k + 1].at

\* The jobs of a database that are not absent.
Inserted(d) == {j \in Jobs : d.row[j] # Absent}

\* e is d or what later transactions made of d.
Grows(d, e) ==
  \A j \in Jobs :
    /\ Len(d.log[j]) <= Len(e.log[j])
    /\ \A k \in 1..Len(d.log[j]) : e.log[j][k] = d.log[j][k]
    /\ d.row[j] # Absent => /\ e.row[j] # Absent
                            /\ e.row[j].created = d.row[j].created

HistInv ==
  /\ \A i \in DOMAIN hist :
       /\ \A j \in Jobs : Sound(hist[i].row[j], hist[i].log[j], clock)
       /\ IsFiniteSet(Inserted(hist[i]))
  /\ \A i, k \in DOMAIN hist : i <= k => Grows(hist[i], hist[k])

CallOK(g) ==
  LET c == call[g] IN
  /\ c.at <= clock
  /\ c.op = "checkpoint" => c.arg \in Epochs
  /\ c.pc = "begin" /\ c.op = "create" =>
       c.job \notin Present /\ \A h \in Busy \ {g} : call[h].job # c.job
  /\ c.pc = "begin" /\ c.op # "create" => c.job \in Present
  /\ c.pc = "sync" => c.seq <= Len(db.log[c.job])
  /\ c.pc = "mark" => c.seq <= Len(hist[1].log[c.job])

CallInv == \A g \in Busy : CallOK(g)

GetInv ==
  client.op \in {"get", "got"} =>
    \E n \in 0..Len(db.log[client.job]) :
      /\ Explains(SubSeq(db.log[client.job], 1, n), client.row)
      /\ client.op = "got" => n <= client.newest

\* j is the only job with its created_at.
Alone(j) == \A k \in Present \ {j} : db.row[k].created # db.row[j].created

ListInv ==
  client.op \in {"list", "listed"} =>
    /\ IsInjective(client.seen)
    /\ \A k \in 1..Len(client.seen) : client.seen[k] \in Present
    /\ client.due \subseteq Present
    /\ client.state # "" => client.due = {}
    /\ client.op = "list" =>
         /\ client.cursor \in Present
         /\ \A k \in 1..Len(client.seen) :
              db.row[client.seen[k]].created >= db.row[client.cursor].created
    /\ \A j \in client.due : Alone(j) =>
         \/ \E k \in 1..Len(client.seen) : client.seen[k] = j
         \/ /\ client.op = "list"
            /\ db.row[j].created < db.row[client.cursor].created

\* The inductive invariant.
StoreInv ==
  /\ StoreTypeOK
  /\ HistInv
  /\ CallInv
  /\ AcknowledgedIsDurable
  /\ GetInv
  /\ ListInv

-----------------------------------------------------------------------------
(* The newest event of a kind, and what an event does to a row.            *)

\* The greatest of a bounded set of numbers is the one above the others.
LEMMA MaxIs ==
  ASSUME NEW S \in SUBSET Nat, NEW n \in S, \A m \in S : m <= n
  PROVE  Max(S) = n
PROOF
  <1>1. \A m \in S : n >= m
    OBVIOUS
  <1>2. \A x \in S : (\A y \in S : x >= y) => x = n
    OBVIOUS
  <1> QED BY <1>1, <1>2, Zenon DEF Max

\* A non-empty set of indices has a greatest one: the one that is the least
\* number of places from the end.
LEMMA MaxExists ==
  ASSUME NEW l \in Nat, NEW S \in SUBSET (1..l), S # {}
  PROVE  Max(S) \in S
PROOF
  <1> DEFINE T == {n \in Nat : \E x \in S : n = l - x}
             R == OpToRel(<, Nat)
  <1>1. \A x \in S : x \in 1..l
    OBVIOUS
  <1>2. T \subseteq Nat /\ T # {}
    <2>1. PICK x \in S : TRUE
      BY Zenon
    <2>2. l - x \in T
      BY <2>1, <1>1
    <2> QED BY <2>2, Zenon
  <1>3. \A x, y \in Nat : x < y => <<x, y>> \in R
    BY DEF OpToRel
  <1>4. IsWellFoundedOn(R, Nat)
    BY NatLessThanWellFounded, Zenon
  <1> HIDE DEF R
  <1>5. PICK n \in T : \A y \in T : ~ (<<y, n>> \in R)
    <2> HIDE DEF T
    <2> QED BY <1>2, <1>4, WFMin, Zenon
  <1>6. PICK x \in S : n = l - x
    BY <1>5
  <1>7. \A y \in S : y <= x
    <2>1. SUFFICES ASSUME NEW y \in S PROVE y <= x
      OBVIOUS
    <2>2. l - y \in T
      BY <1>1
    <2>3. ~ (l - y < n)
      BY <2>2, <1>3, <1>5, Zenon
    <2> QED BY <2>3, <1>6, <1>1
  <1>8. S \in SUBSET Nat
    BY <1>1
  <1>9. Max(S) = x
    BY <1>7, <1>8, MaxIs
  <1> QED BY <1>9

\* The store appends an event: the newest event that sets a column is the
\* new one, or the one that it was.
LEMMA NewestOfAppend ==
  ASSUME NEW log \in Seq(Event), NEW e \in Event,
         NEW S \in SUBSET (1..Len(log))
  PROVE  /\ Append(log, e)[Max(S \cup {Len(log) + 1})] = e
         /\ S # {} => Append(log, e)[Max(S)] = log[Max(S)]
PROOF
  <1>1. Len(log) \in Nat /\ \A x \in S : x \in 1..Len(log)
    OBVIOUS
  <1>2. S \cup {Len(log) + 1} \in SUBSET Nat
    <2>1. \A x \in S \cup {Len(log) + 1} : x \in Nat
      BY <1>1
    <2> QED BY <2>1, Zenon
  <1>3. Max(S \cup {Len(log) + 1}) = Len(log) + 1
    <2>1. Len(log) + 1 \in S \cup {Len(log) + 1}
      OBVIOUS
    <2>2. \A m \in S \cup {Len(log) + 1} : m <= Len(log) + 1
      BY <1>1
    <2> QED BY <1>2, <2>1, <2>2, MaxIs
  <1>4. S # {} => Max(S) \in 1..Len(log)
    BY <1>1, MaxExists, Zenon
  <1> QED BY <1>3, <1>4, AppendProperties

\* The index sets of a log with one more event.
LEMMA ColumnsOfAppend ==
  ASSUME NEW log \in Seq(Event), NEW e \in Event
  PROVE  LET n == Len(log) + 1
             new == Append(log, e) IN
         /\ Moves(new) = IF e.kind # "checkpoint" THEN Moves(log) \cup {n}
                         ELSE Moves(log)
         /\ Starts(new) = IF e.kind # "checkpoint" /\ e.value = "running"
                          THEN Starts(log) \cup {n} ELSE Starts(log)
         /\ Ends(new) = IF e.kind # "checkpoint" /\ IsTerminal(e.value)
                        THEN Ends(log) \cup {n} ELSE Ends(log)
         /\ Marks(new) = IF e.kind = "checkpoint" THEN Marks(log) \cup {n}
                         ELSE Marks(log)
PROOF
  <1> DEFINE n == Len(log) + 1
             new == Append(log, e)
  <1>1. /\ DOMAIN log = 1..Len(log) /\ DOMAIN new = DOMAIN log \cup {n}
        /\ n \notin DOMAIN log
        /\ new[n] = e /\ \A k \in DOMAIN log : new[k] = log[k]
    BY AppendProperties
  <1> HIDE DEF n, new
  <1>2. Moves(new) = IF e.kind # "checkpoint" THEN Moves(log) \cup {n}
                     ELSE Moves(log)
    BY <1>1 DEF Moves
  <1>3. Starts(new) = IF e.kind # "checkpoint" /\ e.value = "running"
                      THEN Starts(log) \cup {n} ELSE Starts(log)
    BY <1>1 DEF Moves, Starts
  <1>4. Ends(new) = IF e.kind # "checkpoint" /\ IsTerminal(e.value)
                    THEN Ends(log) \cup {n} ELSE Ends(log)
    BY <1>1 DEF Moves, Ends
  <1>5. Marks(new) = IF e.kind = "checkpoint" THEN Marks(log) \cup {n}
                     ELSE Marks(log)
    BY <1>1 DEF Marks
  <1> QED BY <1>2, <1>3, <1>4, <1>5 DEF n, new

\* What the event that a transaction appends does to the row that the log
\* leads to: what Transition and RecordCheckpoint do to the row of the table.
LEMMA ReplayAppend ==
  ASSUME NEW log \in Seq(Event), NEW e \in Event
  PROVE  Replay(Append(log, e)) =
           IF e.kind = "checkpoint" THEN [Replay(log) EXCEPT !.ckpt = e.value]
           ELSE Moved(Replay(log), e.value, e.at)
PROOF
  <1> DEFINE n == Len(log) + 1
             new == Append(log, e)
  <1>1. /\ Moves(log) \in SUBSET (1..Len(log)) /\ Starts(log) \in SUBSET (1..Len(log))
        /\ Ends(log) \in SUBSET (1..Len(log)) /\ Marks(log) \in SUBSET (1..Len(log))
    BY DEF Moves, Starts, Ends, Marks
  <1>2. ASSUME NEW S \in SUBSET (1..Len(log))
        PROVE  /\ new[Max(S \cup {n})] = e
               /\ S # {} => new[Max(S)] = log[Max(S)]
    BY NewestOfAppend, Zenon
  <1> HIDE DEF n, new
  <1>3. Replay(new).state = IF e.kind # "checkpoint" THEN e.value
                            ELSE Replay(log).state
    BY <1>1, <1>2, ColumnsOfAppend, Zenon DEF Replay, n, new
  <1>4. Replay(new).started = IF e.kind # "checkpoint" /\ e.value = "running"
                              THEN e.at ELSE Replay(log).started
    BY <1>1, <1>2, ColumnsOfAppend, Zenon DEF Replay, n, new
  <1>5. Replay(new).finished = IF e.kind # "checkpoint" /\ IsTerminal(e.value)
                               THEN e.at ELSE Replay(log).finished
    BY <1>1, <1>2, ColumnsOfAppend, Zenon DEF Replay, n, new
  <1>6. Replay(new).ckpt = IF e.kind = "checkpoint" THEN e.value
                           ELSE Replay(log).ckpt
    BY <1>1, <1>2, ColumnsOfAppend, Zenon DEF Replay, n, new
  <1>7. Replay(new).created = 0 /\ Replay(log).created = 0
    BY DEF Replay
  <1> QED BY <1>3, <1>4, <1>5, <1>6, <1>7, Zenon DEF Replay, Moved, new

\* Replay gives the columns of a row.
LEMMA ReplayColumns ==
  ASSUME NEW log
  PROVE  \E a, b, c, d : Replay(log) = [state |-> a, created |-> 0, started |-> b,
                                      finished |-> c, ckpt |-> d]
  BY Zenon DEF Replay

-----------------------------------------------------------------------------
(* A row and its log stay sound.                                           *)

\* No event, no row.
LEMMA SoundEmpty == ASSUME NEW now \in Nat PROVE Sound(Absent, <<>>, now)
PROOF
  <1>1. /\ Moves(<<>>) = {} /\ Starts(<<>>) = {} /\ Ends(<<>>) = {} /\ Marks(<<>>) = {}
        /\ Len(<<>>) = 0
    BY DEF Moves, Starts, Ends, Marks
  <1>2. Explains(<<>>, Absent)
    BY <1>1 DEF Explains, Replay, Absent
  <1> QED BY <1>1, <1>2 DEF Sound, Absent

\* Time passes.
LEMMA SoundLater ==
  ASSUME NEW row \in Row, NEW log \in Seq(Event), NEW now \in Nat, NEW later \in Nat,
         Sound(row, log, now), now <= later
  PROVE  Sound(row, log, later)
PROOF
  <1>1. \A k \in 1..Len(log) : log[k].at \in Nat /\ log[k].at <= now
    <2>1. \A k \in 1..Len(log) : log[k] \in Event
      BY ElementOfSeq
    <2>2. \A k \in 1..Len(log) : log[k].at <= now
      BY DEF Sound
    <2> QED BY <2>1, <2>2 DEF Event
  <1>2. \A k \in 1..Len(log) : log[k].at <= later
    BY <1>1
  <1>3. row.created <= later /\ row.started <= later /\ row.finished <= later
    BY DEF Sound, Row
  <1> QED BY <1>2, <1>3 DEF Sound

\* The log of a transaction that commits now.
LEMMA LogLater ==
  ASSUME NEW row \in Row, NEW log \in Seq(Event), NEW now \in Nat, Sound(row, log, now),
         NEW e \in Event, e.at = now
  PROVE  LET new == Append(log, e) IN
         /\ new \in Seq(Event) /\ new # <<>> /\ Len(new) = Len(log) + 1
         /\ \A k \in 1..Len(new) : new[k].at <= now
         /\ \A k \in 1..(Len(new) - 1) : new[k].at <= new[k + 1].at
PROOF
  <1> DEFINE new == Append(log, e)
  <1>1. /\ new \in Seq(Event) /\ Len(new) = Len(log) + 1
        /\ new[Len(log) + 1] = e /\ \A k \in 1..Len(log) : new[k] = log[k]
    BY AppendProperties
  <1>2. Len(log) \in Nat
    OBVIOUS
  <1> HIDE DEF new
  <1>3. ASSUME NEW k \in 1..Len(new) PROVE new[k].at <= now
    <2>1. CASE k = Len(log) + 1
      BY <1>1, <2>1
    <2>2. CASE k \in 1..Len(log)
      BY <1>1, <2>2 DEF Sound
    <2> QED BY <1>1, <1>2, <2>1, <2>2
  <1>4. ASSUME NEW k \in 1..(Len(new) - 1) PROVE new[k].at <= new[k + 1].at
    <2>1. k \in 1..Len(log) /\ k \in 1..Len(new)
      BY <1>1, <1>2
    <2>2. CASE k = Len(log)
      BY <1>1, <1>3, <2>1, <2>2
    <2>3. CASE k # Len(log)
      <3>1. k \in 1..(Len(log) - 1) /\ k + 1 \in 1..Len(log)
        BY <1>2, <2>1, <2>3
      <3> QED BY <1>1, <2>1, <3>1 DEF Sound
    <2> QED BY <2>2, <2>3
  <1>5. new # <<>>
    BY <1>1, <1>2
  <1> QED BY <1>1, <1>3, <1>4, <1>5 DEF new

\* CreateJob: the row of a new job and its first event.
LEMMA SoundCreated ==
  ASSUME NEW now \in Nat, NEW at \in Nat, at <= now
  PROVE  LET row == [Absent EXCEPT !.state = "pending", !.created = at]
             e == [kind |-> "created", value |-> "pending", at |-> now] IN
         /\ row \in Row /\ e \in Event
         /\ Sound(row, Append(<<>>, e), now)
PROOF
  <1> DEFINE row == [Absent EXCEPT !.state = "pending", !.created = at]
             e == [kind |-> "created", value |-> "pending", at |-> now]
             new == Append(<<>>, e)
  <1>1. row \in Row /\ e \in Event
    BY Zenon DEF Row, Event, Value, Absent, RowState, JobState
  <1>2. <<>> \in Seq(Event) /\ Absent \in Row
    BY DEF Row, Absent, RowState
  <1>3. /\ new # <<>>
        /\ \A k \in 1..Len(new) : new[k].at <= now
        /\ \A k \in 1..(Len(new) - 1) : new[k].at <= new[k + 1].at
    BY <1>1, <1>2, SoundEmpty, LogLater
  <1>4. Explains(new, row)
    <2>1. Replay(<<>>) = Absent
      BY SoundEmpty DEF Sound, Explains, Absent, Replay
    <2>2. Replay(new) = Moved(Replay(<<>>), "pending", now)
      BY <1>1, <1>2, ReplayAppend, Zenon
    <2>3. Replay(new) = [Absent EXCEPT !.state = "pending"]
      BY <2>1, <2>2, Zenon DEF Moved, IsTerminal, Terminal, Absent
    <2> QED BY <2>3, Zenon DEF Explains, Absent
  <1>5. /\ row.state = "pending" /\ row.created = at /\ row.started = 0
        /\ row.finished = 0 /\ row # Absent
    BY Zenon DEF Absent
  <1> HIDE DEF row, new
  <1> QED BY <1>1, <1>3, <1>4, <1>5 DEF Sound, row, new

\* A Transition that is valid, a self-transition included.
LEMMA SoundMoved ==
  ASSUME NEW row \in Row, NEW log \in Seq(Event), NEW now \in Nat, Sound(row, log, now),
         NEW next \in Value, IsValidTransition(row.state, next)
  PROVE  LET e == [kind |-> "transition", value |-> next, at |-> now] IN
         /\ Moved(row, next, now) \in Row /\ e \in Event
         /\ Moved(row, next, now).created = row.created
         /\ Sound(Moved(row, next, now), Append(log, e), now)
PROOF
  <1> DEFINE e == [kind |-> "transition", value |-> next, at |-> now]
             new == Append(log, e)
             to == Moved(row, next, now)
  <1>1. next \in JobState /\ row.state # "absent"
    BY DEF IsValidTransition, validTransitions, Endings, Row, RowState, JobState,
           Terminal
  <1>2. to \in Row /\ e \in Event
    BY <1>1, Zenon DEF Row, Moved, Event, RowState
  <1>3. /\ to.state = next /\ to.created = row.created /\ to.ckpt = row.ckpt
        /\ to.started = IF next = "running" THEN now ELSE row.started
        /\ to.finished = IF IsTerminal(next) THEN now ELSE row.finished
    BY DEF Row, Moved
  <1>4. /\ new # <<>>
        /\ \A k \in 1..Len(new) : new[k].at <= now
        /\ \A k \in 1..(Len(new) - 1) : new[k].at <= new[k + 1].at
    BY <1>2, LogLater, Zenon
  <1>5. Explains(new, to)
    <2>1. Replay(new) = Moved(Replay(log), next, now)
      BY <1>2, ReplayAppend
    <2>2. row = [Replay(log) EXCEPT !.created = row.created]
      BY DEF Sound, Explains
    <2>3. PICK a, b, c, d : Replay(log) = [state |-> a, created |-> 0,
                                           started |-> b, finished |-> c, ckpt |-> d]
      BY ReplayColumns
    <2> QED BY <2>1, <2>2, <2>3, Zenon DEF Explains, Moved
  <1>6. IsTerminal(row.state) => next = row.state
    BY DEF IsValidTransition, validTransitions, IsTerminal, Terminal
  <1>7. /\ row.created <= now /\ row.started <= now /\ row.finished <= now
        /\ row.started # 0 => row.created <= row.started
        /\ row.finished # 0 => /\ row.created <= row.finished
                              /\ row.started <= row.finished
        /\ row.finished # 0 => IsTerminal(row.state)
        /\ row.created \in Nat /\ row.started \in Nat /\ row.finished \in Nat
    BY DEF Sound, Row
  <1>8. to # Absent /\ to.state # "absent"
    BY <1>1, <1>3 DEF Absent, JobState, Terminal
  <1>9. "running" \notin Terminal
    BY DEF Terminal
  <1> HIDE DEF to, new
  <1>10. /\ to.finished # 0 => IsTerminal(to.state)
         /\ to.created <= now /\ to.started <= now /\ to.finished <= now
         /\ to.started # 0 => to.created <= to.started
         /\ to.finished # 0 => to.created <= to.finished /\ to.started <= to.finished
    BY <1>3, <1>6, <1>7, <1>9 DEF IsTerminal
  <1>11. Sound(to, new, now)
    BY <1>4, <1>5, <1>8, <1>10, Zenon DEF Sound
  <1> QED BY <1>2, <1>3, <1>11 DEF to, new

\* RecordCheckpoint of a job that is there.
LEMMA SoundMarked ==
  ASSUME NEW row \in Row, NEW log \in Seq(Event), NEW now \in Nat, Sound(row, log, now),
         row # Absent, NEW epoch \in Epochs
  PROVE  LET e == [kind |-> "checkpoint", value |-> epoch, at |-> now]
             to == [row EXCEPT !.ckpt = epoch] IN
         /\ to \in Row /\ e \in Event /\ to.created = row.created
         /\ Sound(to, Append(log, e), now)
PROOF
  <1> DEFINE e == [kind |-> "checkpoint", value |-> epoch, at |-> now]
             new == Append(log, e)
             to == [row EXCEPT !.ckpt = epoch]
  <1>1. to \in Row /\ e \in Event
    BY DEF Row, Event, Value
  <1>2. /\ to.state = row.state /\ to.created = row.created
        /\ to.started = row.started /\ to.finished = row.finished
    BY DEF Row
  <1>3. /\ new # <<>>
        /\ \A k \in 1..Len(new) : new[k].at <= now
        /\ \A k \in 1..(Len(new) - 1) : new[k].at <= new[k + 1].at
    BY <1>1, LogLater
  <1>4. Explains(new, to)
    <2>1. Replay(new) = [Replay(log) EXCEPT !.ckpt = epoch]
      BY <1>1, ReplayAppend
    <2>2. row = [Replay(log) EXCEPT !.created = row.created]
      BY DEF Sound, Explains
    <2>3. PICK a, b, c, d : Replay(log) = [state |-> a, created |-> 0,
                                           started |-> b, finished |-> c, ckpt |-> d]
      BY ReplayColumns
    <2> QED BY <2>1, <2>2, <2>3 DEF Explains
  <1>5. to # Absent /\ to.state # "absent"
    BY <1>2 DEF Absent, Sound
  <1> HIDE DEF to, new
  <1>6. Sound(to, new, now)
    BY <1>2, <1>3, <1>4, <1>5 DEF Sound
  <1> QED BY <1>1, <1>2, <1>6 DEF to, new

-----------------------------------------------------------------------------
(* The databases of the log.                                               *)

\* The current database is the last one.
LEMMA Current ==
  ASSUME StoreTypeOK
  PROVE  /\ Len(hist) \in Nat \ {0} /\ db = hist[Len(hist)] /\ db \in Database
         /\ DOMAIN hist = 1..Len(hist)
         /\ \A i \in DOMAIN hist : hist[i] \in Database
  BY DEF StoreTypeOK, db

\* The tables of a database.
LEMMA Tables ==
  ASSUME NEW d \in Database, NEW j \in Jobs
  PROVE  /\ d.row[j] \in Row /\ d.log[j] \in Seq(Event) /\ Len(d.log[j]) \in Nat
         /\ d.row[j].created \in Nat
PROOF
  <1>1. d.row[j] \in Row /\ d.log[j] \in Seq(Event)
    BY DEF Database
  <1> QED BY <1>1 DEF Row

\* No transaction is a database's own past.
LEMMA GrowsRefl == ASSUME NEW d \in Database PROVE Grows(d, d)
  BY Tables DEF Grows

\* Transactions add up.
LEMMA GrowsTrans ==
  ASSUME NEW d \in Database, NEW e \in Database, NEW f \in Database,
         Grows(d, e), Grows(e, f)
  PROVE  Grows(d, f)
PROOF
  <1>1. SUFFICES ASSUME NEW j \in Jobs
                 PROVE  /\ Len(d.log[j]) <= Len(f.log[j])
                        /\ \A k \in 1..Len(d.log[j]) : f.log[j][k] = d.log[j][k]
                        /\ d.row[j] # Absent => /\ f.row[j] # Absent
                                                /\ f.row[j].created = d.row[j].created
    BY DEF Grows
  <1>2. /\ Len(d.log[j]) \in Nat /\ Len(e.log[j]) \in Nat /\ Len(f.log[j]) \in Nat
    BY Tables
  <1>3. Len(d.log[j]) <= Len(e.log[j]) /\ Len(e.log[j]) <= Len(f.log[j])
    BY DEF Grows
  <1>4. ASSUME NEW k \in 1..Len(d.log[j]) PROVE f.log[j][k] = d.log[j][k]
    <2>1. k \in 1..Len(e.log[j])
      BY <1>2, <1>3
    <2> QED BY <2>1 DEF Grows
  <1>5. d.row[j] # Absent => /\ f.row[j] # Absent
                             /\ f.row[j].created = d.row[j].created
    BY DEF Grows
  <1> QED BY <1>2, <1>3, <1>4, <1>5

\* A transaction commits: what was on the disk is on the disk, the new
\* database is current, and every database is still what its successors
\* grew from.
LEMMA HistAppend ==
  ASSUME StoreTypeOK, HistInv, NEW new \in Database,
         \A j \in Jobs : Sound(new.row[j], new.log[j], clock),
         IsFiniteSet(Inserted(new)), Grows(db, new),
         hist' = Append(hist, new), clock' = clock
  PROVE  /\ hist' \in Seq(Database) /\ hist' # <<>>
         /\ db' = new /\ hist'[1] = hist[1] /\ HistInv'
PROOF
  <1> DEFINE n == Len(hist)
  <1>1. /\ n \in Nat \ {0} /\ db = hist[n] /\ db \in Database
        /\ DOMAIN hist = 1..n
        /\ \A i \in DOMAIN hist : hist[i] \in Database
    BY Current
  <1>2. /\ hist' \in Seq(Database) /\ Len(hist') = n + 1 /\ DOMAIN hist' = 1..(n + 1)
        /\ hist'[n + 1] = new /\ \A i \in 1..n : hist'[i] = hist[i]
    BY AppendProperties DEF StoreTypeOK
  <1> HIDE DEF n
  <1>3. db' = new /\ hist' # <<>> /\ hist'[1] = hist[1]
    BY <1>1, <1>2 DEF db
  <1>4. ASSUME NEW i \in DOMAIN hist'
        PROVE  /\ \A j \in Jobs : Sound(hist'[i].row[j], hist'[i].log[j], clock')
               /\ IsFiniteSet(Inserted(hist'[i]))
    <2>1. CASE i = n + 1
      BY <1>2, <2>1
    <2>2. CASE i \in 1..n
      BY <1>1, <1>2, <2>2 DEF HistInv
    <2> QED BY <1>1, <1>2, <2>1, <2>2
  <1>5. ASSUME NEW i \in DOMAIN hist', NEW k \in DOMAIN hist', i <= k
        PROVE  Grows(hist'[i], hist'[k])
    <2>1. CASE k \in 1..n
      <3>1. i \in 1..n
        BY <1>1, <1>2, <1>5, <2>1
      <3> QED BY <1>1, <1>2, <1>5, <2>1, <3>1 DEF HistInv
    <2>2. CASE k = n + 1 /\ i = n + 1
      BY <1>2, <2>2, GrowsRefl
    <2>3. CASE k = n + 1 /\ i \in 1..n
      <3>1. Grows(hist[i], hist[n])
        BY <1>1, <2>3 DEF HistInv
      <3> QED BY <1>1, <1>2, <2>3, <3>1, GrowsTrans
    <2> QED BY <1>1, <1>2, <2>1, <2>2, <2>3
  <1>6. HistInv'
    BY <1>4, <1>5 DEF HistInv, Inserted
  <1> QED BY <1>2, <1>3, <1>6

\* A WAL checkpoint, a Close or a power loss leaves one of the databases.
LEMMA HistCut ==
  ASSUME StoreTypeOK, HistInv, NEW i \in DOMAIN hist,
         hist' = <<hist[i]>>, clock' = clock
  PROVE  /\ hist' \in Seq(Database) /\ hist' # <<>>
         /\ db' = hist[i] /\ hist'[1] = hist[i] /\ HistInv'
         /\ Grows(hist[1], hist[i])
PROOF
  <1>1. /\ hist[i] \in Database /\ 1 \in DOMAIN hist /\ 1 <= i
    BY Current
  <1>2. /\ hist' \in Seq(Database) /\ Len(hist') = 1 /\ DOMAIN hist' = {1}
        /\ hist'[1] = hist[i] /\ hist' # <<>>
    BY <1>1
  <1>3. db' = hist[i]
    BY <1>2 DEF db
  <1>4. HistInv'
    BY <1>1, <1>2, GrowsRefl DEF HistInv, Inserted
  <1> QED BY <1>1, <1>2, <1>3, <1>4 DEF HistInv

\* The database that a transaction on job j commits.
LEMMA WithEventIs ==
  ASSUME StoreTypeOK, NEW j \in Jobs, NEW row \in Row, NEW kind, NEW value,
         [kind |-> kind, value |-> value, at |-> clock] \in Event
  PROVE  LET e == [kind |-> kind, value |-> value, at |-> clock]
             new == WithEvent(j, row, kind, value) IN
         /\ new \in Database
         /\ new.row = [db.row EXCEPT ![j] = row]
         /\ new.log = [db.log EXCEPT ![j] = Append(db.log[j], e)]
         /\ Len(new.log[j]) = Len(db.log[j]) + 1
PROOF
  <1> DEFINE e == [kind |-> kind, value |-> value, at |-> clock]
             new == WithEvent(j, row, kind, value)
             rows == [db.row EXCEPT ![j] = row]
             logs == [db.log EXCEPT ![j] = Append(db.log[j], e)]
  <1>1. db \in Database
    BY Current
  <1>2. /\ db.row \in [Jobs -> Row] /\ db.log \in [Jobs -> Seq(Event)]
        /\ db.marker \in Nat
    BY <1>1 DEF Database
  <1>3. /\ Append(db.log[j], e) \in Seq(Event)
        /\ Len(Append(db.log[j], e)) = Len(db.log[j]) + 1
    BY <1>2, AppendProperties
  <1>4. rows \in [Jobs -> Row] /\ logs \in [Jobs -> Seq(Event)]
    BY <1>2, <1>3
  <1>5. new = [row |-> rows, log |-> logs, marker |-> db.marker]
    <2>1. new = [db EXCEPT !.row = rows, !.log = logs]
      BY DEF WithEvent
    <2> HIDE DEF new, rows, logs
    <2> QED BY <1>1, <2>1, Zenon DEF Database
  <1>6. new \in Database
    BY <1>2, <1>4, <1>5 DEF Database
  <1> QED BY <1>2, <1>3, <1>5, <1>6

\* It is sound when the new row is, and grows from the one before when the
\* transaction leaves created_at alone.
LEMMA Committed ==
  ASSUME StoreTypeOK, HistInv, NEW j \in Jobs, NEW row \in Row, NEW kind, NEW value,
         [kind |-> kind, value |-> value, at |-> clock] \in Event,
         Sound(row, Append(db.log[j], [kind |-> kind, value |-> value, at |-> clock]),
               clock),
         db.row[j] # Absent => row.created = db.row[j].created
  PROVE  LET new == WithEvent(j, row, kind, value) IN
         /\ new \in Database
         /\ \A i \in Jobs : Sound(new.row[i], new.log[i], clock)
         /\ Inserted(new) = Inserted(db) \cup {j}
         /\ IsFiniteSet(Inserted(new))
         /\ Grows(db, new)
         /\ Len(new.log[j]) = Len(db.log[j]) + 1
PROOF
  <1> DEFINE e == [kind |-> kind, value |-> value, at |-> clock]
             new == WithEvent(j, row, kind, value)
  <1>1. /\ new \in Database
        /\ new.row = [db.row EXCEPT ![j] = row]
        /\ new.log = [db.log EXCEPT ![j] = Append(db.log[j], e)]
        /\ Len(new.log[j]) = Len(db.log[j]) + 1
    BY WithEventIs
  <1>2. /\ db \in Database
        /\ \A i \in Jobs : Sound(db.row[i], db.log[i], clock)
        /\ IsFiniteSet(Inserted(db))
    BY Current DEF HistInv
  <1>3. /\ db.row \in [Jobs -> Row] /\ db.log \in [Jobs -> Seq(Event)]
    BY <1>2 DEF Database
  <1>4. /\ new.row[j] = row /\ new.log[j] = Append(db.log[j], e)
        /\ \A i \in Jobs : i # j => new.row[i] = db.row[i] /\ new.log[i] = db.log[i]
    BY <1>1, <1>3
  <1>5. row # Absent
    <2>1. Append(db.log[j], e) # <<>>
      <3>1. Len(Append(db.log[j], e)) = Len(db.log[j]) + 1 /\ Len(db.log[j]) \in Nat
        BY <1>3, AppendProperties
      <3> QED BY <3>1
    <2> QED BY <2>1 DEF Sound
  <1> HIDE DEF new
  <1>6. \A i \in Jobs : Sound(new.row[i], new.log[i], clock)
    BY <1>2, <1>4, Zenon
  <1>7. Inserted(new) = Inserted(db) \cup {j}
    BY <1>4, <1>5 DEF Inserted
  <1>8. IsFiniteSet(Inserted(new))
    BY <1>2, <1>7, FS_AddElement
  <1>9. Grows(db, new)
    <2>1. SUFFICES ASSUME NEW i \in Jobs
                   PROVE  /\ Len(db.log[i]) <= Len(new.log[i])
                          /\ \A k \in 1..Len(db.log[i]) : new.log[i][k] = db.log[i][k]
                          /\ db.row[i] # Absent =>
                               /\ new.row[i] # Absent
                               /\ new.row[i].created = db.row[i].created
      BY DEF Grows
    <2>2. CASE i # j
      <3>1. Len(db.log[i]) \in Nat
        BY <1>3
      <3> QED BY <1>4, <2>2, <3>1
    <2>3. CASE i = j
      <3>1. Len(db.log[j]) \in Nat
        BY <1>3
      <3>2. \A k \in 1..Len(db.log[j]) : new.log[j][k] = db.log[j][k]
        BY <1>3, <1>4, AppendProperties
      <3>3. Len(db.log[j]) <= Len(new.log[j])
        BY <1>1, <3>1
      <3>4. db.row[j] # Absent =>
              new.row[j] # Absent /\ new.row[j].created = db.row[j].created
        BY <1>4, <1>5, Zenon
      <3> QED BY <2>3, <3>2, <3>3, <3>4, Zenon
    <2> QED BY <2>2, <2>3
  <1> QED BY <1>1, <1>6, <1>7, <1>8, <1>9 DEF new

-----------------------------------------------------------------------------
(* Calls and clients that a step leaves alone.                             *)

\* Which request a client is in.
LEMMA ClientShape ==
  ASSUME StoreTypeOK
  PROVE  /\ client.op \in {"get", "got"} => client \in GetRecord
         /\ client.op \in {"list", "listed"} => client \in ListRecord
PROOF
  <1>1. client \in GetRecord \cup ListRecord \cup {NoCall}
    BY DEF StoreTypeOK
  <1>2. client \in GetRecord => client.op \in {"get", "got"}
    BY DEF GetRecord
  <1>3. client \in ListRecord => client.op \in {"list", "listed"}
    BY Zenon DEF ListRecord
  <1>4. client = NoCall => client.op = "none"
    BY DEF NoCall
  <1> QED BY <1>1, <1>2, <1>3, <1>4

\* A goroutine that is in a call.
LEMMA CallShape ==
  ASSUME StoreTypeOK, NEW g \in Callers
  PROVE  /\ g \in Busy => call[g] \in CallRecord /\ call[g].job \in Jobs
         /\ g \in Busy <=> call[g].op # "none"
PROOF
  <1>1. call[g] \in CallRecord \cup {NoCall}
    BY DEF StoreTypeOK
  <1>2. CASE call[g] = NoCall
    BY <1>2 DEF Busy, NoCall
  <1>3. CASE call[g] \in CallRecord
    <2>1. call[g].op # "none" /\ call[g].job \in Jobs
      BY <1>3 DEF CallRecord
    <2>2. call[g] # NoCall
      BY <2>1 DEF NoCall
    <2> QED BY <1>3, <2>1, <2>2 DEF Busy
  <1> QED BY <1>1, <1>2, <1>3

\* A client between the row and the events of GET /v1/jobs/{id}, or between
\* two pages, when another database is current.
LEMMA ClientKept ==
  ASSUME StoreTypeOK, GetInv, ListInv, db' \in Database, Grows(db, db'),
         client' = client
  PROVE  GetInv' /\ ListInv'
PROOF
  <1>1. db \in Database
    BY Current
  <1>2. GetInv'
    <2>1. SUFFICES ASSUME client.op \in {"get", "got"}
                   PROVE  \E n \in 0..Len(db'.log[client.job]) :
                            /\ Explains(SubSeq(db'.log[client.job], 1, n), client.row)
                            /\ client.op = "got" => n <= client.newest
      BY DEF GetInv
    <2> DEFINE old == db.log[client.job]
               new == db'.log[client.job]
    <2>2. client.job \in Jobs
      BY <2>1, ClientShape DEF GetRecord
    <2>3. /\ old \in Seq(Event) /\ new \in Seq(Event)
          /\ Len(old) \in Nat /\ Len(new) \in Nat /\ Len(old) <= Len(new)
          /\ \A k \in 1..Len(old) : new[k] = old[k]
      BY <1>1, <2>2, Tables DEF Grows
    <2>4. PICK n \in 0..Len(old) :
            /\ Explains(SubSeq(old, 1, n), client.row)
            /\ client.op = "got" => n <= client.newest
      BY <2>1 DEF GetInv
    <2> HIDE DEF old, new
    <2>5. n \in 0..Len(new)
      BY <2>3, <2>4
    <2>6. SubSeq(new, 1, n) = SubSeq(old, 1, n)
      BY <2>3, <2>4
    <2> QED BY <2>4, <2>5, <2>6, Zenon DEF old, new
  <1>3. ListInv'
    <2>1. SUFFICES ASSUME client.op \in {"list", "listed"} PROVE ListInv'
      BY Zenon DEF ListInv
    <2>2. /\ client \in ListRecord /\ client.seen \in Seq(Jobs)
          /\ client.due \subseteq Jobs
      BY <2>1, ClientShape, Zenon DEF ListRecord
    <2>3. \A k \in 1..Len(client.seen) : client.seen[k] \in Jobs
      BY <2>2
    <2>4. \A j \in Jobs : j \in Present =>
            j \in Present' /\ db'.row[j].created = db.row[j].created
      BY DEF Grows, Present
    <2>5. \A j \in Jobs : j \in Present /\ Alone(j)' => Alone(j)
      BY <2>4 DEF Alone, Present
    <2>6. /\ IsInjective(client.seen)
          /\ \A k \in 1..Len(client.seen) : client.seen[k] \in Present
          /\ client.due \subseteq Present
          /\ client.state # "" => client.due = {}
          /\ client.op = "list" =>
               /\ client.cursor \in Present
               /\ \A k \in 1..Len(client.seen) :
                    db.row[client.seen[k]].created >= db.row[client.cursor].created
          /\ \A j \in client.due : Alone(j) =>
               \/ \E k \in 1..Len(client.seen) : client.seen[k] = j
               \/ /\ client.op = "list"
                  /\ db.row[j].created < db.row[client.cursor].created
      BY <2>1, Zenon DEF ListInv
    <2>7. client.op = "list" => client.cursor \in Jobs
      BY <2>6, Zenon DEF Present
    <2>8. /\ \A k \in 1..Len(client.seen) : client.seen[k] \in Present'
          /\ client.due \subseteq Present'
          /\ client.op = "list" =>
               /\ client.cursor \in Present'
               /\ \A k \in 1..Len(client.seen) :
                    db'.row[client.seen[k]].created >= db'.row[client.cursor].created
      BY <2>2, <2>3, <2>4, <2>6, <2>7, Zenon
    <2>9. \A j \in client.due : Alone(j)' =>
               \/ \E k \in 1..Len(client.seen) : client.seen[k] = j
               \/ /\ client.op = "list"
                  /\ db'.row[j].created < db'.row[client.cursor].created
      BY <2>2, <2>4, <2>5, <2>6, <2>7, Zenon
    <2> QED BY <2>6, <2>8, <2>9, Zenon DEF ListInv
  <1> QED BY <1>2, <1>3

\* The order of lengths.
LEMMA LeqTrans ==
  /\ \A a, b, c \in Nat : a <= b /\ b <= c => a <= c
  /\ \A a, b, c \in Nat : a <= b /\ a >= c => b >= c
  OBVIOUS

\* What a step of goroutine g leaves of the calls of the others.
LEMMA OthersKept ==
  ASSUME StoreTypeOK, CallInv, NEW g \in Callers, clock' = clock,
         \A h \in Callers \ {g} : call'[h] = call[h],
         db' \in Database, Grows(db, db'),
         hist'[1] \in Database, Grows(hist[1], hist'[1]),
         \A h \in Busy \ {g} : call[h].pc = "begin" /\ call[h].op = "create" =>
           /\ call[h].job \notin Present'
           /\ g \in Busy' => call'[g].job # call[h].job
  PROVE  \A h \in Busy' : h # g => CallOK(h)'
PROOF
  <1>1. SUFFICES ASSUME NEW h \in Callers, h # g, h \in Busy' PROVE CallOK(h)'
    BY DEF Busy
  <1>2. /\ h \in Busy /\ call'[h] = call[h] /\ CallOK(h)
        /\ \A i \in Callers \ {g} : i \in Busy' <=> i \in Busy
    BY <1>1 DEF Busy, CallInv
  <1>3. /\ call[h] \in CallRecord /\ call[h].job \in Jobs /\ call[h].seq \in Nat
    BY <1>2, CallShape DEF CallRecord
  <1>4. /\ db \in Database /\ hist[1] \in Database
    BY Current
  <1> DEFINE j == call[h].job
  <1>5. /\ Len(db.log[j]) \in Nat /\ Len(db'.log[j]) \in Nat
        /\ Len(db.log[j]) <= Len(db'.log[j])
        /\ Len(hist[1].log[j]) \in Nat /\ Len(hist'[1].log[j]) \in Nat
        /\ Len(hist[1].log[j]) <= Len(hist'[1].log[j])
    BY <1>3, <1>4, Tables, Zenon DEF Grows
  <1>6. j \in Present => j \in Present'
    BY <1>3 DEF Grows, Present
  <1>7. ASSUME call[h].pc = "begin", call[h].op = "create"
        PROVE  j \notin Present' /\ \A i \in Busy' \ {h} : call'[i].job # j
    <2>1. j \notin Present' /\ (g \in Busy' => call'[g].job # j)
      BY <1>1, <1>2, <1>7
    <2>2. ASSUME NEW i \in Busy', i # h, i # g PROVE call'[i].job # j
      <3>1. i \in Callers /\ i \in Busy /\ call'[i] = call[i]
        BY <1>2, <2>2 DEF Busy
      <3> QED BY <1>2, <1>7, <2>2, <3>1 DEF CallOK
    <2> QED BY <2>1, <2>2
  <1> HIDE DEF j
  <1>8. /\ call[h].pc = "begin" /\ call[h].op # "create" => j \in Present'
        /\ call[h].pc = "sync" => call[h].seq <= Len(db'.log[j])
        /\ call[h].pc = "mark" => call[h].seq <= Len(hist'[1].log[j])
    <2>1. /\ call[h].pc = "begin" /\ call[h].op # "create" => j \in Present
          /\ call[h].pc = "sync" => call[h].seq <= Len(db.log[j])
          /\ call[h].pc = "mark" => call[h].seq <= Len(hist[1].log[j])
      BY <1>2 DEF CallOK, j
    <2> DEFINE n == call[h].seq
               a == Len(db.log[j])
               b == Len(db'.log[j])
               c == Len(hist[1].log[j])
               d == Len(hist'[1].log[j])
    <2>2. /\ a \in Nat /\ b \in Nat /\ a <= b /\ c \in Nat /\ d \in Nat /\ c <= d
          /\ n \in Nat /\ (call[h].pc = "sync" => n <= a) /\ (call[h].pc = "mark" => n <= c)
      BY <1>3, <1>5, <2>1
    <2> HIDE DEF n, a, b, c, d
    <2>3. (call[h].pc = "sync" => n <= b) /\ (call[h].pc = "mark" => n <= d)
      BY <2>2
    <2> QED BY <1>6, <2>1, <2>3 DEF n, b, d
  <1>9. call[h].at <= clock' /\ (call[h].op = "checkpoint" => call[h].arg \in Epochs)
    BY <1>2 DEF CallOK
  <1>10. /\ call'[h].at <= clock'
         /\ call'[h].op = "checkpoint" => call'[h].arg \in Epochs
         /\ call'[h].pc = "begin" /\ call'[h].op = "create" =>
              /\ call'[h].job \notin Present'
              /\ \A i \in Busy' \ {h} : call'[i].job # call'[h].job
         /\ call'[h].pc = "begin" /\ call'[h].op # "create" =>
              call'[h].job \in Present'
    BY <1>2, <1>7, <1>8, <1>9 DEF j
  <1>11. /\ call'[h].pc = "sync" => call'[h].seq <= Len(db'.log[call'[h].job])
         /\ call'[h].pc = "mark" => call'[h].seq <= Len(hist'[1].log[call'[h].job])
    BY <1>2, <1>8, Zenon DEF j
  <1> QED BY <1>10, <1>11, Zenon DEF CallOK

\* The jobs that are there, in the terms of a database.
LEMMA PresentIs == Present = Inserted(db)
  BY DEF Present, Inserted

\* What was acknowledged stays on a disk that grows.
LEMMA AckedKept ==
  ASSUME StoreTypeOK, AcknowledgedIsDurable, hist'[1] \in Database,
         Grows(hist[1], hist'[1]), acked' = acked
  PROVE  AcknowledgedIsDurable'
PROOF
  <1>1. hist[1] \in Database
    BY Current
  <1>2. SUFFICES ASSUME NEW j \in Jobs PROVE Len(hist'[1].log[j]) >= acked[j]
    BY DEF AcknowledgedIsDurable
  <1>3. /\ Len(hist[1].log[j]) \in Nat /\ Len(hist'[1].log[j]) \in Nat
        /\ acked[j] \in Nat
    BY <1>1, Tables DEF StoreTypeOK
  <1>4. Len(hist[1].log[j]) <= Len(hist'[1].log[j]) /\ Len(hist[1].log[j]) >= acked[j]
    BY DEF Grows, AcknowledgedIsDurable
  <1> QED BY <1>3, <1>4, LeqTrans, Zenon

-----------------------------------------------------------------------------
(* Pages.                                                                  *)

\* A list of all the rows of a result, each once.
Enumerates(q, S) ==
  /\ q \in Seq(S) /\ Len(q) \in Nat
  /\ \A i \in 1..Len(q) : q[i] \in S
  /\ \A i, k \in 1..Len(q) : q[i] = q[k] => i = k
  /\ \A x \in S : \E i \in 1..Len(q) : q[i] = x

\* The rows of a result in some order are all of them, each once.
LEMMA Enumerated ==
  ASSUME NEW S, IsFiniteSet(S), NEW q \in Injection(1..Cardinality(S), S)
  PROVE  Enumerates(q, S)
PROOF
  <1> DEFINE n == Cardinality(S)
  <1>1. n \in Nat
    BY FS_CardinalityType
  <1>2. /\ q \in [1..n -> S] /\ \A i, k \in 1..n : i # k => q[i] # q[k]
    BY DEF Injection, IsInjective
  <1> HIDE DEF n
  <1>3. q \in Seq(S)
    BY <1>1, <1>2
  <1>4. Len(q) = n
    BY <1>1, <1>2, <1>3, LenProperties
  <1>5. ASSUME NEW x \in S PROVE \E i \in 1..n : q[i] = x
    <2>1. SUFFICES ASSUME \A i \in 1..n : q[i] # x PROVE FALSE
      OBVIOUS
    <2>2. IsFiniteSet(S \ {x}) /\ Cardinality(S \ {x}) = n - 1
      BY FS_RemoveElement DEF n
    <2>3. IsFiniteSet(1..n) /\ Cardinality(1..n) = n
      BY <1>1, FS_Interval
    <2>4. q \in [1..n -> S \ {x}]
      BY <1>2, <2>1
    <2>5. Cardinality(S \ {x}) < Cardinality(1..n)
      BY <1>1, <2>2, <2>3
    <2>6. \E i, k \in 1..n : i # k /\ q[i] = q[k]
      BY <2>2, <2>3, <2>4, <2>5, FS_PigeonHole, Zenon
    <2> QED BY <1>2, <2>6
  <1> QED BY <1>1, <1>2, <1>3, <1>4, <1>5 DEF Enumerates

\* What a client has seen, new, when the first m rows of q follow the s rows
\* it had.
PageAdded(new, seen, s, q, m) ==
  /\ new \in Seq(Jobs) /\ Len(new) = s + m /\ DOMAIN new = 1..(s + m)
  /\ s \in Nat /\ m \in Nat
  /\ \A k \in 1..s : new[k] = seen[k]
  /\ \A k \in 1..m : new[s + k] = q[k]
  /\ \A k \in 1..(s + m) : k \in 1..s \/ \E i \in 1..m : k = s + i

\* What a client has seen when ListJobs gives it one more page.
LEMMA Paged ==
  ASSUME NEW seen \in Seq(Jobs), NEW q \in Seq(Jobs), NEW m \in 0..Len(q)
  PROVE  PageAdded(seen \o SubSeq(q, 1, m), seen, Len(seen), q, m)
PROOF
  <1> DEFINE page == SubSeq(q, 1, m)
             new == seen \o page
  <1>1. m \in Nat /\ Len(q) \in Nat /\ m <= Len(q) /\ Len(seen) \in Nat
    OBVIOUS
  <1>2. /\ page \in Seq(Jobs) /\ Len(page) = m
        /\ \A k \in 1..m : page[k] = q[k]
    BY <1>1
  <1> HIDE DEF page
  <1>3. new \in Seq(Jobs) /\ Len(new) = Len(seen) + m
    BY <1>2, ConcatProperties, Zenon
  <1>4. \A k \in 1..Len(seen) : new[k] = seen[k]
    BY <1>1, <1>2
  <1>5. \A k \in 1..m : new[Len(seen) + k] = q[k]
    BY <1>1, <1>2
  <1>6. ASSUME NEW k \in 1..(Len(seen) + m)
        PROVE  k \in 1..Len(seen) \/ \E i \in 1..m : k = Len(seen) + i
    <2>1. CASE k <= Len(seen)
      BY <1>1, <2>1
    <2>2. CASE ~(k <= Len(seen))
      <3>1. k - Len(seen) \in 1..m /\ k = Len(seen) + (k - Len(seen))
        BY <1>1, <2>2
      <3> QED BY <3>1
    <2> QED BY <2>1, <2>2
  <1>7. DOMAIN new = 1..(Len(seen) + m)
    BY <1>3, LenProperties
  <1> QED BY <1>1, <1>3, <1>4, <1>5, <1>6, <1>7 DEF page, PageAdded

\* What the rows of a request are: those there are behind the cursor, newest
\* first, each once.
Result(state, after, q) ==
  /\ q \in Seq(Jobs) /\ Len(q) \in Nat
  /\ \A i \in 1..Len(q) :
       q[i] \in Present /\ (after # None => /\ after \in Present
                                           /\ db.row[q[i]].created
                                                < db.row[after].created)
  /\ \A i, k \in 1..Len(q) : q[i] = q[k] => i = k
  /\ \A i, k \in 1..Len(q) :
       i < k => db.row[q[i]].created >= db.row[q[k]].created
  /\ \A j \in Present :
       /\ state = ""
       /\ after # None => after \in Present
                          /\ db.row[j].created < db.row[after].created
       => \E i \in 1..Len(q) : q[i] = j

\* The rows that ListJobs selects for a page and the ones after it.
LEMMA PageRows ==
  ASSUME StoreTypeOK, HistInv, NEW state, NEW after, NEW q \in PagesFrom(state, after)
  PROVE  Result(state, after, q)
PROOF
  <1> DEFINE rows == {j \in Present :
                       /\ state \in {"", db.row[j].state}
                       /\ after # None =>
                            /\ after \in Present
                            /\ db.row[j].created < db.row[after].created}
  <1>1. IsFiniteSet(Present)
    BY Current, PresentIs DEF HistInv
  <1>2. IsFiniteSet(rows)
    BY <1>1, FS_Subset, Zenon
  <1>3. /\ q \in Injection(1..Cardinality(rows), rows)
        /\ \A i, k \in DOMAIN q :
             i < k => db.row[q[i]].created >= db.row[q[k]].created
    BY Zenon DEF PagesFrom
  <1>4. rows \subseteq Jobs
    BY Zenon DEF Present
  <1>5. \A j \in rows : j \in Present /\ (after # None => /\ after \in Present
                                                         /\ db.row[j].created
                                                              < db.row[after].created)
    BY Zenon
  <1>6. \A j \in Present :
              /\ state = ""
              /\ after # None => after \in Present
                                 /\ db.row[j].created < db.row[after].created
              => j \in rows
    BY Zenon
  <1> HIDE DEF rows
  <1>0. Enumerates(q, rows)
    BY <1>2, <1>3, Enumerated, Zenon
  <1>7. /\ q \in Seq(rows) /\ Len(q) \in Nat
        /\ \A i \in 1..Len(q) : q[i] \in rows
        /\ \A i, k \in 1..Len(q) : q[i] = q[k] => i = k
        /\ \A x \in rows : \E i \in 1..Len(q) : q[i] = x
    BY <1>0 DEF Enumerates
  <1>8. q \in Seq(Jobs) /\ DOMAIN q = 1..Len(q)
    BY <1>4, <1>7, SeqMonotonic, LenProperties
  <1>9. \A i, k \in 1..Len(q) :
              i < k => db.row[q[i]].created >= db.row[q[k]].created
    BY <1>3, <1>8
  <1> QED BY <1>5, <1>6, <1>7, <1>8, <1>9, Zenon DEF Result

\* The pages so far, newest first, down to the cursor.
PagesTo(C, after, seen) ==
  /\ IsInjective(seen)
  /\ after = None => seen = <<>>
  /\ after # None => \A k \in 1..Len(seen) : C[seen[k]] >= C[after]

\* The rows behind the cursor, newest first.
RowsFrom(C, after, q) ==
  /\ \A i, k \in 1..Len(q) : q[i] = q[k] => i = k
  /\ \A i, k \in 1..Len(q) : i < k => C[q[i]] >= C[q[k]]
  /\ after # None => \A i \in 1..Len(q) : C[q[i]] < C[after]

\* The pages so far are newer than the rows behind the cursor.
LEMMA PagesAreNewer ==
  ASSUME NEW C \in [Jobs -> Nat], NEW after \in Jobs \cup {None},
         NEW seen \in Seq(Jobs), NEW q \in Seq(Jobs),
         PagesTo(C, after, seen), RowsFrom(C, after, q),
         NEW k \in 1..Len(seen), NEW i \in 1..Len(q)
  PROVE  C[seen[k]] > C[q[i]] /\ seen[k] # q[i]
PROOF
  <1>1. after # None
    BY EmptySeq DEF PagesTo
  <1>2. C[seen[k]] >= C[after] /\ C[q[i]] < C[after]
    BY <1>1 DEF PagesTo, RowsFrom
  <1>3. seen[k] \in Jobs /\ q[i] \in Jobs /\ after \in Jobs
    BY <1>1, ElementOfSeq
  <1> DEFINE a == C[seen[k]]
             b == C[q[i]]
             c == C[after]
  <1>4. a \in Nat /\ b \in Nat /\ c \in Nat /\ a >= c /\ b < c
    BY <1>2, <1>3
  <1> HIDE DEF a, b, c
  <1>5. a > b /\ a # b
    BY <1>4
  <1> QED BY <1>5 DEF a, b

\* No job is on two pages.
LEMMA PagesStayInjective ==
  ASSUME NEW C \in [Jobs -> Nat], NEW after \in Jobs \cup {None},
         NEW seen \in Seq(Jobs), NEW q \in Seq(Jobs), NEW m \in 0..Len(q),
         PagesTo(C, after, seen), RowsFrom(C, after, q)
  PROVE  IsInjective(seen \o SubSeq(q, 1, m))
PROOF
  <1> DEFINE s == Len(seen)
             new == seen \o SubSeq(q, 1, m)
  <1>0. PageAdded(new, seen, s, q, m)
    BY Paged, Zenon
  <1>1. /\ s \in Nat /\ m \in Nat /\ DOMAIN new = 1..(s + m)
        /\ \A k \in 1..s : new[k] = seen[k]
        /\ \A k \in 1..m : new[s + k] = q[k]
        /\ \A k \in 1..(s + m) : k \in 1..s \/ \E i \in 1..m : k = s + i
    BY <1>0, Zenon DEF PageAdded
  <1>2. \A i \in 1..m : i \in 1..Len(q)
    <2>1. Len(q) \in Nat /\ m <= Len(q)
      OBVIOUS
    <2> QED BY <1>1, <2>1
  <1>3. DOMAIN seen = 1..s
    BY LenProperties
  <1> HIDE DEF new, s
  <1>4. SUFFICES ASSUME NEW a \in 1..(s + m), NEW b \in 1..(s + m), new[a] = new[b]
                 PROVE  a = b
    BY <1>1, Zenon DEF IsInjective, new
  <1>5. CASE a \in 1..s /\ b \in 1..s
    BY <1>1, <1>3, <1>4, <1>5, Zenon DEF PagesTo, IsInjective
  <1>6. ASSUME NEW i \in 1..m, NEW k \in 1..m, a = s + i, b = s + k PROVE a = b
    <2>1. q[i] = q[k] /\ i \in 1..Len(q) /\ k \in 1..Len(q)
      BY <1>1, <1>2, <1>4, <1>6
    <2>2. i = k
      BY <2>1 DEF RowsFrom
    <2> QED BY <1>6, <2>2
  <1>7. ASSUME NEW k \in 1..s, NEW i \in 1..m PROVE new[k] # new[s + i]
    <2>1. new[k] = seen[k] /\ new[s + i] = q[i] /\ i \in 1..Len(q) /\ k \in 1..Len(seen)
      BY <1>1, <1>2 DEF s
    <2>2. seen[k] # q[i]
      BY <2>1, PagesAreNewer, Zenon
    <2> QED BY <2>1, <2>2
  <1>8. (a \in 1..s \/ \E i \in 1..m : a = s + i) /\ (b \in 1..s \/ \E i \in 1..m : b = s + i)
    BY <1>1
  <1>9. CASE a \in 1..s /\ \E i \in 1..m : b = s + i
    BY <1>4, <1>7, <1>9
  <1>10. CASE b \in 1..s /\ \E i \in 1..m : a = s + i
    BY <1>4, <1>7, <1>10
  <1>11. CASE (\E i \in 1..m : a = s + i) /\ (\E i \in 1..m : b = s + i)
    BY <1>6, <1>11
  <1> QED BY <1>5, <1>8, <1>9, <1>10, <1>11

\* The pages with the new one go down to the last row of the new one.
LEMMA PagesEndAtCursor ==
  ASSUME NEW C \in [Jobs -> Nat], NEW after \in Jobs \cup {None},
         NEW seen \in Seq(Jobs), NEW q \in Seq(Jobs), NEW m \in 1..Len(q),
         PagesTo(C, after, seen), RowsFrom(C, after, q)
  PROVE  LET new == seen \o SubSeq(q, 1, m) IN
         \A k \in 1..Len(new) : C[new[k]] >= C[q[m]]
PROOF
  <1> DEFINE s == Len(seen)
             new == seen \o SubSeq(q, 1, m)
  <1>0. m \in 0..Len(q) /\ Len(q) \in Nat /\ m \in Nat /\ m <= Len(q)
    OBVIOUS
  <1>p. PageAdded(new, seen, s, q, m)
    BY <1>0, Paged, Zenon
  <1>1. /\ s \in Nat /\ Len(new) = s + m
        /\ \A k \in 1..s : new[k] = seen[k]
        /\ \A k \in 1..m : new[s + k] = q[k]
        /\ \A k \in 1..(s + m) : k \in 1..s \/ \E i \in 1..m : k = s + i
    BY <1>p, Zenon DEF PageAdded
  <1> HIDE DEF new, s
  <1>2. q[m] \in Jobs /\ C[q[m]] \in Nat
    BY ElementOfSeq
  <1>3. ASSUME NEW k \in 1..s PROVE C[new[k]] >= C[q[m]]
    <2>1. C[seen[k]] > C[q[m]] /\ seen[k] \in Jobs /\ new[k] = seen[k]
      BY <1>1, PagesAreNewer, ElementOfSeq, Zenon DEF s
    <2> DEFINE a == C[seen[k]]
               b == C[q[m]]
    <2>2. a \in Nat /\ b \in Nat /\ a > b
      BY <1>2, <2>1
    <2> HIDE DEF a, b
    <2>3. a >= b
      BY <2>2
    <2> QED BY <2>1, <2>3 DEF a, b
  <1>4. ASSUME NEW i \in 1..m PROVE C[new[s + i]] >= C[q[m]]
    <2>1. new[s + i] = q[i] /\ i \in 1..Len(q)
      BY <1>0, <1>1
    <2>2. CASE i = m
      <3> DEFINE b == C[q[m]]
      <3>1. b \in Nat
        BY <1>2
      <3> HIDE DEF b
      <3>2. b >= b
        BY <3>1
      <3> QED BY <2>1, <2>2, <3>2 DEF b
    <2>3. CASE i # m
      <3>1. i < m
        BY <1>0, <2>3
      <3> QED BY <2>1, <3>1 DEF RowsFrom
    <2> QED BY <2>2, <2>3
  <1>5. \A k \in 1..(s + m) : C[new[k]] >= C[q[m]]
    BY <1>1, <1>3, <1>4, Zenon
  <1> QED BY <1>1, <1>5 DEF new

\* The i-th row of the result is on a page, or after the m-th.
OnPageOrAfter(C, new, q, m, i) ==
  \/ \E k \in 1..Len(new) : new[k] = q[i]
  \/ m < i /\ (m # 0 => C[q[m]] >= C[q[i]] /\ q[m] # q[i])

\* A row of the result is on a page, or no newer than the new cursor.
LEMMA PagesMissNone ==
  ASSUME NEW C \in [Jobs -> Nat], NEW after \in Jobs \cup {None},
         NEW seen \in Seq(Jobs), NEW q \in Seq(Jobs), NEW m \in 0..Len(q),
         RowsFrom(C, after, q), NEW i \in 1..Len(q)
  PROVE  OnPageOrAfter(C, seen \o SubSeq(q, 1, m), q, m, i)
PROOF
  <1> DEFINE s == Len(seen)
             new == seen \o SubSeq(q, 1, m)
  <1>p. PageAdded(new, seen, s, q, m)
    BY Paged, Zenon
  <1>1. /\ s \in Nat /\ m \in Nat /\ Len(new) = s + m
        /\ \A k \in 1..m : new[s + k] = q[k]
    BY <1>p, Zenon DEF PageAdded
  <1>2. Len(q) \in Nat /\ m <= Len(q)
    OBVIOUS
  <1> HIDE DEF new, s
  <1>3. CASE i <= m
    <2>1. i \in 1..m /\ s + i \in 1..(s + m)
      BY <1>1, <1>2, <1>3
    <2>2. new[s + i] = q[i] /\ s + i \in 1..Len(new)
      BY <1>1, <2>1
    <2> QED BY <2>2 DEF new, OnPageOrAfter
  <1>4. CASE ~(i <= m)
    <2>1. m < i /\ (m # 0 => m \in 1..Len(q))
      BY <1>1, <1>2, <1>4
    <2>2. m # 0 => C[q[m]] >= C[q[i]] /\ q[m] # q[i]
      BY <2>1 DEF RowsFrom
    <2> QED BY <2>1, <2>2 DEF OnPageOrAfter
  <1> QED BY <1>3, <1>4

\* created_at of every job.
Created == [j \in Jobs |-> db.row[j].created]

\* Where a client is that has seen the pages down to a cursor, or none.
Walk(state, after, seen, due) ==
  /\ state \in {"", "running"} /\ after \in Present \cup {None}
  /\ seen \in Seq(Jobs) /\ due \subseteq Present
  /\ state # "" => due = {}
  /\ PagesTo(Created, after, seen)
  /\ \A k \in 1..Len(seen) : seen[k] \in Present
  /\ \A j \in due : Alone(j) => \/ \E k \in 1..Len(seen) : seen[k] = j
                                \/ after = None
                                \/ Created[j] < Created[after]

\* ListJobs keeps what a client that follows the cursors relies on: the
\* pages so far end at the cursor, and what is still due is behind it.
LEMMA PageKeepsListInv ==
  ASSUME StoreTypeOK, HistInv, NEW state, NEW after, NEW seen, NEW due,
         Walk(state, after, seen, due), ListJobs(state, after, seen, due)
  PROVE  client' \in ListRecord /\ ListInv'
PROOF
  <1>1. PICK q \in PagesFrom(state, after) :
          client' = [op |-> IF Cursor(q) = None THEN "listed" ELSE "list",
                     state |-> state, cursor |-> Cursor(q), due |-> due,
                     seen |-> seen \o SubSeq(q, 1, IF Len(q) > Limit THEN Limit
                                                    ELSE Len(q))]
    BY Zenon DEF ListJobs
  <1>2. hist' = hist /\ db' = db /\ Present' = Present
    BY DEF ListJobs, db, Present
  <1>3. Created \in [Jobs -> Nat] /\ \A j \in Jobs : Created[j] = db.row[j].created
    BY Current, Tables DEF Created
  <1>4. \A j \in Present : j \in Jobs /\ j # None
    BY NoneAssumption DEF Present
  <1>r. Result(state, after, q)
    BY <1>1, PageRows
  <1>5. /\ q \in Seq(Jobs) /\ Len(q) \in Nat
        /\ \A i \in 1..Len(q) : q[i] \in Present
        /\ RowsFrom(Created, after, q)
    <2>1. /\ q \in Seq(Jobs) /\ Len(q) \in Nat
          /\ \A i \in 1..Len(q) : q[i] \in Present
          /\ \A i, k \in 1..Len(q) : q[i] = q[k] => i = k
      BY <1>r, Zenon DEF Result
    <2>2. \A i, k \in 1..Len(q) : i < k => Created[q[i]] >= Created[q[k]]
      <3>1. SUFFICES ASSUME NEW i \in 1..Len(q), NEW k \in 1..Len(q), i < k
                     PROVE  Created[q[i]] >= Created[q[k]]
        OBVIOUS
      <3>2. db.row[q[i]].created >= db.row[q[k]].created
        BY <1>r, <3>1, Zenon DEF Result
      <3>3. q[i] \in Jobs /\ q[k] \in Jobs
        BY <1>4, <2>1
      <3>4. Created[q[i]] = db.row[q[i]].created /\ Created[q[k]] = db.row[q[k]].created
        BY <1>3, <3>3
      <3> QED BY <3>2, <3>4, Zenon
    <2>3. after # None => \A i \in 1..Len(q) : Created[q[i]] < Created[after]
      BY <1>3, <1>4, <1>r, Zenon DEF Result
    <2> QED BY <2>1, <2>2, <2>3 DEF RowsFrom
  <1>6. \A j \in Present : state = "" /\ (after # None => Created[j] < Created[after])
                             => \E i \in 1..Len(q) : q[i] = j
    BY <1>3, <1>4, <1>r, Zenon DEF Result, Walk
  <1> DEFINE m == IF Len(q) > Limit THEN Limit ELSE Len(q)
             new == seen \o SubSeq(q, 1, m)
             last == Cursor(q)
  <1>7. m \in 0..Len(q) /\ m \in Nat
    BY <1>5, PageAssumption
  <1>8. /\ last = None => m = Len(q)
        /\ last # None => m \in 1..Len(q) /\ last = q[m]
    <2>1. CASE Len(q) > Limit
      <3>1. m = Limit /\ m \in 1..Len(q) /\ last = q[m]
        BY <1>5, <2>1, PageAssumption DEF Cursor
      <3>2. last # None
        BY <1>4, <1>5, <3>1
      <3> QED BY <3>1, <3>2
    <2>2. CASE ~(Len(q) > Limit)
      BY <2>2 DEF Cursor
    <2> QED BY <2>1, <2>2
  <1>9. client' = [op |-> IF last = None THEN "listed" ELSE "list", state |-> state,
                   cursor |-> last, due |-> due, seen |-> new]
    BY <1>1
  <1> HIDE DEF m, last
  <1>10. /\ seen \in Seq(Jobs) /\ after \in Jobs \cup {None}
         /\ PagesTo(Created, after, seen)
         /\ state \in {"", "running"} /\ due \subseteq Present
         /\ \A k \in 1..Len(seen) : seen[k] \in Present
         /\ state # "" => due = {}
    BY <1>4, Zenon DEF Walk
  <1>p. PageAdded(new, seen, Len(seen), q, m)
    BY <1>5, <1>7, <1>10, Paged, Zenon
  <1>11. /\ new \in Seq(Jobs) /\ Len(seen) \in Nat /\ Len(new) = Len(seen) + m
         /\ \A k \in 1..Len(seen) : new[k] = seen[k]
         /\ \A k \in 1..m : new[Len(seen) + k] = q[k]
         /\ \A k \in 1..(Len(seen) + m) : k \in 1..Len(seen)
                                          \/ \E i \in 1..m : k = Len(seen) + i
    BY <1>p, Zenon DEF PageAdded
  <1>12. IsInjective(new)
    BY <1>3, <1>5, <1>7, <1>10, PagesStayInjective, Zenon
  <1>13. last # None => \A k \in 1..Len(new) : Created[new[k]] >= Created[last]
    BY <1>3, <1>5, <1>8, <1>10, PagesEndAtCursor, Zenon
  <1>14. ASSUME NEW i \in 1..Len(q)
         PROVE  OnPageOrAfter(Created, new, q, m, i)
    BY <1>3, <1>5, <1>7, <1>10, PagesMissNone, Zenon
  <1> HIDE DEF new
  <1>15. \A k \in 1..Len(new) : new[k] \in Present
    <2>1. \A i \in 1..m : i \in 1..Len(q)
      BY <1>5, <1>7
    <2>2. \A k \in 1..Len(seen) : new[k] \in Present
      BY <1>10, <1>11, Zenon
    <2>3. \A i \in 1..m : new[Len(seen) + i] \in Present
      BY <1>5, <1>11, <2>1
    <2> QED BY <1>11, <2>2, <2>3, Zenon
  <1>16. last # None => last \in Present
    BY <1>5, <1>8
  <1>17. ASSUME NEW j \in due, Alone(j)
         PROVE  \/ \E k \in 1..Len(new) : new[k] = j
                \/ last # None /\ Created[j] < Created[last]
    <2>1. j \in Present /\ state = ""
      BY <1>10, Zenon
    <2>2. CASE \E k \in 1..Len(seen) : seen[k] = j
      <3>1. PICK k \in 1..Len(seen) : seen[k] = j
        BY <2>2
      <3>2. k \in 1..Len(new) /\ new[k] = j
        BY <1>7, <1>11, <3>1
      <3> QED BY <3>2
    <2>3. CASE after = None \/ Created[j] < Created[after]
      <3>1. PICK i \in 1..Len(q) : q[i] = j
        BY <1>6, <2>1, <2>3, Zenon
      <3>2. CASE \E k \in 1..Len(new) : new[k] = q[i]
        BY <3>1, <3>2
      <3>3. CASE m < i /\ (m # 0 => Created[q[m]] >= Created[q[i]] /\ q[m] # q[i])
        <4>1. m # Len(q)
          BY <1>5, <1>7, <3>3
        <4>2. last # None /\ m \in 1..Len(q) /\ last = q[m] /\ m # 0
          BY <1>8, <4>1
        <4>3. last \in Present \ {j} /\ Created[last] >= Created[j]
          BY <1>16, <3>1, <3>3, <4>2
        <4>4. Created[last] # Created[j] /\ Created[last] \in Nat /\ Created[j] \in Nat
          BY <1>3, <1>4, <1>17, <2>1, <4>3, Zenon DEF Alone
        <4> QED BY <4>2, <4>3, <4>4
      <3> QED BY <1>14, <3>2, <3>3 DEF OnPageOrAfter
    <2> QED BY <1>17, <2>2, <2>3, Zenon DEF Walk
  <1>18. client' \in ListRecord
    BY <1>4, <1>9, <1>10, <1>11, <1>16, Zenon DEF ListRecord
  <1>19. /\ client'.op = (IF last = None THEN "listed" ELSE "list")
         /\ client'.state = state /\ client'.cursor = last
         /\ client'.due = due /\ client'.seen = new
    BY <1>9
  <1>20. \A j : Alone(j)' <=> Alone(j)
    BY <1>2 DEF Alone
  <1>21. \A j \in Jobs : db'.row[j].created = Created[j]
    BY <1>2, <1>3
  <1>22. client'.op = "list" <=> last # None
    BY <1>19
  <1>23. ListInv'
    <2>1. /\ IsInjective(new)
          /\ \A k \in 1..Len(new) : new[k] \in Present'
          /\ due \subseteq Present'
          /\ state # "" => due = {}
      BY <1>2, <1>10, <1>12, <1>15, Zenon
    <2>2. last # None => /\ last \in Present'
                         /\ \A k \in 1..Len(new) :
                              db'.row[new[k]].created >= db'.row[last].created
      BY <1>2, <1>4, <1>13, <1>15, <1>16, <1>21
    <2>3. \A j \in due : Alone(j)' => \/ \E k \in 1..Len(new) : new[k] = j
                                     \/ /\ last # None
                                        /\ db'.row[j].created < db'.row[last].created
      BY <1>4, <1>10, <1>16, <1>17, <1>20, <1>21, Zenon
    <2> QED BY <1>19, <1>22, <2>1, <2>2, <2>3, Zenon DEF ListInv
  <1> QED BY <1>18, <1>23

-----------------------------------------------------------------------------
(* What a step has to show for itself.                                     *)

\* What a step of goroutine g, which leaves the client and the clock alone,
\* has to show for itself.
LEMMA Written ==
  ASSUME StoreInv, NEW g \in Callers, client' = client, clock' = clock,
         hist' \in Seq(Database), hist' # <<>>, HistInv',
         db' \in Database, Grows(db, db'),
         hist'[1] \in Database, Grows(hist[1], hist'[1]),
         call' \in [Callers -> CallRecord \cup {NoCall}],
         \A h \in Callers \ {g} : call'[h] = call[h],
         \A h \in Busy \ {g} : call[h].pc = "begin" /\ call[h].op = "create" =>
           /\ call[h].job \notin Present'
           /\ g \in Busy' => call'[g].job # call[h].job,
         g \in Busy' => CallOK(g)',
         acked' \in [Jobs -> Nat], AcknowledgedIsDurable'
  PROVE  StoreInv'
PROOF
  <1>1. StoreTypeOK'
    BY DEF StoreInv, StoreTypeOK
  <1>2. CallInv'
    <2>1. \A h \in Busy' : h # g => CallOK(h)'
      BY OthersKept DEF StoreInv
    <2> QED BY <2>1 DEF CallInv
  <1>3. GetInv' /\ ListInv'
    BY ClientKept DEF StoreInv
  <1> QED BY <1>1, <1>2, <1>3 DEF StoreInv

\* What a step that only reads has to show for itself.
LEMMA OnlyRead ==
  ASSUME StoreInv, hist' = hist, call' = call, clock' = clock, acked' = acked,
         client' \in GetRecord \cup ListRecord \cup {NoCall}, GetInv', ListInv'
  PROVE  StoreInv'
PROOF
  <1>1. StoreTypeOK'
    BY DEF StoreInv, StoreTypeOK
  <1>2. HistInv' /\ AcknowledgedIsDurable'
    BY DEF StoreInv, HistInv, AcknowledgedIsDurable
  <1>3. CallInv'
    BY DEF StoreInv, CallInv, CallOK, Busy, Present, db
  <1> QED BY <1>1, <1>2, <1>3 DEF StoreInv

\* What a step that writes nothing to the database does not have to show.
LEMMA NotWritten ==
  ASSUME StoreInv, hist' = hist, clock' = clock
  PROVE  /\ hist' \in Seq(Database) /\ hist' # <<>> /\ HistInv'
         /\ db' = db /\ db' \in Database /\ Grows(db, db')
         /\ hist'[1] \in Database /\ Grows(hist[1], hist'[1])
         /\ Present' = Present
         /\ acked' = acked => AcknowledgedIsDurable'
PROOF
  <1>1. /\ hist \in Seq(Database) /\ hist # <<>>
        /\ db \in Database /\ hist[1] \in Database /\ Present' = Present /\ db' = db
    BY Current DEF StoreInv, StoreTypeOK, db, Present
  <1>2. HistInv'
    BY DEF StoreInv, HistInv
  <1>3. acked' = acked => AcknowledgedIsDurable'
    BY DEF StoreInv, AcknowledgedIsDurable
  <1> QED BY <1>1, <1>2, <1>3, GrowsRefl

\* A goroutine in a call, and the state of the call.
LEMMA InCall ==
  ASSUME StoreInv, NEW g \in Callers, NEW pc, At(g, pc)
  PROVE  /\ g \in Busy /\ CallOK(g) /\ call[g].pc = pc
         /\ call \in [Callers -> CallRecord \cup {NoCall}]
         /\ call[g] \in CallRecord
         /\ call[g].op \in {"create", "transition", "checkpoint"}
         /\ call[g].job \in Jobs /\ call[g].arg \in Value
         /\ call[g].at \in Nat /\ call[g].seq \in Nat
PROOF
  <1>1. StoreTypeOK /\ g \in Busy /\ call[g].pc = pc /\ CallOK(g)
    BY DEF StoreInv, At, CallInv
  <1>2. call[g] \in CallRecord
    BY <1>1, CallShape
  <1>3. call \in [Callers -> CallRecord \cup {NoCall}]
    BY <1>1 DEF StoreTypeOK
  <1> QED BY <1>1, <1>2, <1>3 DEF CallRecord

\* A goroutine returns from its call.
LEMMA Returned ==
  ASSUME StoreInv, NEW g \in Callers, Return(g)
  PROVE  /\ call' \in [Callers -> CallRecord \cup {NoCall}]
         /\ \A h \in Callers \ {g} : call'[h] = call[h]
         /\ g \notin Busy'
  BY DEF StoreInv, StoreTypeOK, Return, Busy

-----------------------------------------------------------------------------
(* Calls.                                                                  *)

\* A goroutine calls the store.
LEMMA InvCall ==
  ASSUME StoreInv, NEW g \in Callers, NEW j \in Jobs,
         NEW op \in {"create", "transition", "checkpoint"}, NEW arg \in Value,
         op = "checkpoint" => arg \in Epochs, Call(g, op, j, arg)
  PROVE  StoreInv'
PROOF
  <1> DEFINE c == [op |-> op, pc |-> "begin", job |-> j, arg |-> arg,
                   at |-> clock, seq |-> 0]
  <1>1. /\ g \notin Busy
        /\ (op = "create") <=> (j \notin Present)
        /\ op = "create" => \A h \in Busy : call[h].job # j
        /\ call' = [call EXCEPT ![g] = c]
        /\ hist' = hist /\ client' = client /\ clock' = clock /\ acked' = acked
    BY DEF Call
  <1>2. clock \in Nat /\ call \in [Callers -> CallRecord \cup {NoCall}]
        /\ acked \in [Jobs -> Nat]
    BY DEF StoreInv, StoreTypeOK
  <1>3. c \in CallRecord
    BY <1>2 DEF CallRecord
  <1>4. /\ c.op = op /\ c.pc = "begin" /\ c.job = j /\ c.arg = arg /\ c.at = clock
    OBVIOUS
  <1> HIDE DEF c
  <1>5. /\ call' \in [Callers -> CallRecord \cup {NoCall}] /\ call'[g] = c
        /\ \A h \in Callers \ {g} : call'[h] = call[h]
    BY <1>1, <1>2, <1>3
  <1>6. \A h \in Busy' \ {g} : h \in Busy /\ call'[h] = call[h]
    BY <1>5 DEF Busy
  <1>7. CallOK(g)'
    BY <1>1, <1>2, <1>4, <1>5, <1>6, NotWritten DEF CallOK
  <1>8. \A h \in Busy \ {g} : call[h].pc = "begin" /\ call[h].op = "create" =>
          call[h].job \notin Present /\ call[h].job # j
    BY <1>1 DEF StoreInv, CallInv, CallOK
  <1>9. Present' = Present
    BY <1>1, NotWritten
  <1> QED BY <1>1, <1>2, <1>4, <1>5, <1>7, <1>8, <1>9, NotWritten, Written

\* A goroutine commits its transaction, and goes on to the WAL checkpoint or
\* returns.  The others in a call are on other jobs when they create one.
LEMMA InvCommit ==
  ASSUME StoreInv, NEW g \in Callers, At(g, "begin"), NEW row \in Row, NEW kind, NEW value,
         [kind |-> kind, value |-> value, at |-> clock] \in Event,
         Sound(row, Append(db.log[call[g].job],
                           [kind |-> kind, value |-> value, at |-> clock]), clock),
         db.row[call[g].job] # Absent => row.created = db.row[call[g].job].created,
         hist' = Append(hist, WithEvent(call[g].job, row, kind, value)),
         client' = client, clock' = clock, acked' = acked,
         \/ Return(g)
         \/ Commit(g, WithEvent(call[g].job, row, kind, value))
  PROVE  StoreInv'
PROOF
  <1> DEFINE j == call[g].job
             new == WithEvent(j, row, kind, value)
             n == Len(new.log[j])
  <1>1. /\ g \in Busy /\ CallOK(g) /\ call[g] \in CallRecord /\ j \in Jobs
        /\ call \in [Callers -> CallRecord \cup {NoCall}]
    BY InCall, Zenon
  <1>2. StoreTypeOK /\ HistInv /\ CallInv /\ acked \in [Jobs -> Nat]
    BY Zenon DEF StoreInv, StoreTypeOK
  <1>3. /\ new \in Database
        /\ \A i \in Jobs : Sound(new.row[i], new.log[i], clock)
        /\ Inserted(new) = Inserted(db) \cup {j}
        /\ IsFiniteSet(Inserted(new))
        /\ Grows(db, new)
    BY <1>1, <1>2, Committed, Zenon
  <1>4. /\ hist' \in Seq(Database) /\ hist' # <<>>
        /\ db' = new /\ hist'[1] = hist[1] /\ HistInv'
    BY <1>2, <1>3, HistAppend, Zenon
  <1>5. hist[1] \in Database /\ Grows(hist[1], hist[1])
    <2>1. 1 \in DOMAIN hist
      BY <1>2, Current
    <2>2. hist[1] \in Database
      BY <1>2, <2>1, Current, Zenon
    <2> QED BY <2>2, GrowsRefl, Zenon
  <1>6. Present' = Present \cup {j}
    BY <1>3, <1>4, PresentIs, Zenon DEF Present, Inserted
  <1>7. n \in Nat
    BY <1>1, <1>3, Tables, Zenon
  <1>8. Return(g) \/ call' = [call EXCEPT ![g] = [call[g] EXCEPT !.pc = "sync", !.seq = n]]
    BY <1>1 DEF Commit
  <1>9. AcknowledgedIsDurable'
    BY <1>4, Zenon DEF StoreInv, AcknowledgedIsDurable
  <1>10. \A h \in Busy \ {g} : call[h].pc = "begin" /\ call[h].op = "create" =>
           call[h].job \notin Present' /\ call[h].job # j
    BY <1>1, <1>2, <1>6, Zenon DEF CallInv, CallOK
  <1>11. /\ call' \in [Callers -> CallRecord \cup {NoCall}]
         /\ \A h \in Callers \ {g} : call'[h] = call[h]
         /\ g \in Busy' => call'[g].job = j /\ CallOK(g)'
    <2>1. CASE Return(g)
      BY <2>1, Returned, Zenon
    <2>2. CASE call' = [call EXCEPT ![g] = [call[g] EXCEPT !.pc = "sync", !.seq = n]]
      <3> DEFINE c == [call[g] EXCEPT !.pc = "sync", !.seq = n]
      <3> HIDE DEF n
      <3>1. /\ c \in CallRecord /\ c.job = j /\ c.pc = "sync" /\ c.seq = n
            /\ c.at = call[g].at /\ c.op = call[g].op /\ c.arg = call[g].arg
        BY <1>1, <1>7, Zenon DEF CallRecord
      <3> HIDE DEF c
      <3>2. /\ call' \in [Callers -> CallRecord \cup {NoCall}] /\ call'[g] = c
            /\ \A h \in Callers \ {g} : call'[h] = call[h]
        BY <1>1, <2>2, <3>1 DEF c
      <3>3. c.seq <= Len(db'.log[c.job])
        <4>1. n <= n
          BY <1>7
        <4>2. n = Len(db'.log[j])
          BY <1>4, Zenon DEF n
        <4> QED BY <3>1, <4>1, <4>2, Zenon
      <3>4. c.at <= clock' /\ (c.op = "checkpoint" => c.arg \in Epochs)
        BY <1>1, <3>1, Zenon DEF CallOK
      <3>5. CallOK(g)'
        BY <3>1, <3>2, <3>3, <3>4, Zenon DEF CallOK
      <3> QED BY <3>1, <3>2, <3>5, Zenon
    <2> QED BY <1>8, <2>1, <2>2
  <1> HIDE DEF new, n
  <1> QED BY <1>2, <1>3, <1>4, <1>5, <1>9, <1>10, <1>11, Written, Zenon

\* CreateJob commits the row and its first event.
LEMMA InvCreateJob ==
  ASSUME StoreInv, NEW g \in Callers, CreateJob(g)
  PROVE  StoreInv'
PROOF
  <1> DEFINE j == call[g].job
             row == [Absent EXCEPT !.state = "pending", !.created = call[g].at]
             e == [kind |-> "created", value |-> "pending", at |-> clock]
  <1>1. /\ At(g, "begin") /\ call[g].op = "create"
        /\ Commit(g, WithEvent(j, row, "created", "pending"))
    BY DEF CreateJob
  <1>2. /\ CallOK(g) /\ call[g].pc = "begin" /\ j \in Jobs /\ call[g].at \in Nat
    BY <1>1, InCall
  <1>3. clock \in Nat /\ StoreTypeOK /\ HistInv
    BY DEF StoreInv, StoreTypeOK
  <1>4. call[g].at <= clock /\ db.row[j] = Absent
    BY <1>1, <1>2 DEF CallOK, Present
  <1>5. db.log[j] = <<>>
    BY <1>2, <1>3, <1>4, Current DEF HistInv, Sound
  <1>6. row \in Row /\ e \in Event /\ Sound(row, Append(db.log[j], e), clock)
    BY <1>2, <1>3, <1>4, <1>5, SoundCreated, Zenon
  <1>7. /\ hist' = Append(hist, WithEvent(j, row, "created", "pending"))
        /\ client' = client /\ clock' = clock /\ acked' = acked
    BY <1>1 DEF Commit
  <1> HIDE DEF row
  <1> QED BY <1>1, <1>4, <1>6, <1>7, InvCommit, Zenon

\* Transition commits the new columns and the event, for a self-transition
\* as well.
LEMMA InvTransition ==
  ASSUME StoreInv, NEW g \in Callers, Transition(g)
  PROVE  StoreInv'
PROOF
  <1> DEFINE j == call[g].job
             next == call[g].arg
             row == Moved(db.row[j], next, clock)
             e == [kind |-> "transition", value |-> next, at |-> clock]
  <1>1. /\ At(g, "begin") /\ IsValidTransition(db.row[j].state, next)
        /\ Commit(g, WithEvent(j, row, "transition", next))
    BY Zenon DEF Transition
  <1>2. j \in Jobs /\ next \in Value
    BY <1>1, InCall, Zenon
  <1>3. clock \in Nat /\ StoreTypeOK /\ HistInv
    BY DEF StoreInv, StoreTypeOK
  <1>4. /\ db.row[j] \in Row /\ db.log[j] \in Seq(Event)
        /\ Sound(db.row[j], db.log[j], clock)
    BY <1>2, <1>3, Current, Tables DEF HistInv
  <1>5. /\ row \in Row /\ e \in Event /\ row.created = db.row[j].created
        /\ Sound(row, Append(db.log[j], e), clock)
    BY <1>1, <1>2, <1>3, <1>4, SoundMoved, Zenon
  <1>6. /\ hist' = Append(hist, WithEvent(j, row, "transition", next))
        /\ client' = client /\ clock' = clock /\ acked' = acked
    BY <1>1 DEF Commit
  <1> HIDE DEF row
  <1> QED BY <1>1, <1>5, <1>6, InvCommit, Zenon

\* RecordCheckpoint commits last_ckpt_epoch and the event, and returns.
LEMMA InvRecordCheckpoint ==
  ASSUME StoreInv, NEW g \in Callers, RecordCheckpoint(g)
  PROVE  StoreInv'
PROOF
  <1> DEFINE j == call[g].job
             epoch == call[g].arg
             row == [db.row[j] EXCEPT !.ckpt = epoch]
             e == [kind |-> "checkpoint", value |-> epoch, at |-> clock]
  <1>1. /\ At(g, "begin") /\ call[g].op = "checkpoint" /\ Return(g)
        /\ hist' = Append(hist, WithEvent(j, row, "checkpoint", epoch))
        /\ client' = client /\ clock' = clock /\ acked' = acked
    BY DEF RecordCheckpoint
  <1>2. CallOK(g) /\ call[g].pc = "begin" /\ j \in Jobs
    BY <1>1, InCall
  <1>3. clock \in Nat /\ StoreTypeOK /\ HistInv
    BY DEF StoreInv, StoreTypeOK
  <1>4. /\ db.row[j] \in Row /\ db.log[j] \in Seq(Event)
        /\ Sound(db.row[j], db.log[j], clock)
    BY <1>2, <1>3, Current, Tables DEF HistInv
  <1>5. epoch \in Epochs /\ db.row[j] # Absent
    BY <1>1, <1>2 DEF CallOK, Present
  <1>6. /\ row \in Row /\ e \in Event /\ row.created = db.row[j].created
        /\ Sound(row, Append(db.log[j], e), clock)
    BY <1>3, <1>4, <1>5, SoundMarked
  <1> HIDE DEF row
  <1> QED BY <1>1, <1>6, InvCommit, Zenon

\* A call that fails changes nothing.
LEMMA InvRollback ==
  ASSUME StoreInv, NEW g \in Callers, Rollback(g)
  PROVE  StoreInv'
PROOF
  <1>1. /\ Return(g) /\ hist' = hist /\ client' = client /\ clock' = clock
        /\ acked' = acked
    BY DEF Rollback
  <1>2. acked \in [Jobs -> Nat]
    BY DEF StoreInv, StoreTypeOK
  <1>3. \A h \in Busy : call[h].pc = "begin" /\ call[h].op = "create" =>
          call[h].job \notin Present
    BY DEF StoreInv, CallInv, CallOK
  <1>4. Present' = Present
    BY <1>1, NotWritten
  <1> QED BY <1>1, <1>2, <1>3, <1>4, Returned, NotWritten, Written

\* The greater of two numbers.
LEMMA MaxOfTwo ==
  ASSUME NEW a \in Nat, NEW b \in Nat
  PROVE  Max({a, b}) \in Nat /\ Max({a, b}) \in {a, b}
                             /\ Max({a, b}) >= a /\ Max({a, b}) >= b
PROOF
  <1>1. CASE a <= b
    <2>1. Max({a, b}) = b
      BY <1>1, MaxIs
    <2> QED BY <1>1, <2>1
  <1>2. CASE b <= a
    <2>1. Max({a, b}) = a
      BY <1>2, MaxIs
    <2> QED BY <1>2, <2>1
  <1> QED BY <1>1, <1>2

\* The call returns; its events are on the disk.
LEMMA Acknowledged ==
  ASSUME StoreInv, NEW g \in Callers, NEW pc, At(g, pc), Acknowledge(g),
         hist'[1] \in Database, Grows(hist[1], hist'[1]),
         call[g].seq <= Len(hist'[1].log[call[g].job])
  PROVE  Return(g) /\ acked' \in [Jobs -> Nat] /\ AcknowledgedIsDurable'
PROOF
  <1> DEFINE j == call[g].job
             n == call[g].seq
             m == Max({acked[j], n})
  <1>1. /\ StoreTypeOK /\ acked \in [Jobs -> Nat] /\ hist[1] \in Database
        /\ AcknowledgedIsDurable
    BY Current DEF StoreInv, StoreTypeOK
  <1>2. j \in Jobs /\ n \in Nat
    BY InCall
  <1>3. m \in Nat /\ m \in {acked[j], n}
    BY <1>1, <1>2, MaxOfTwo
  <1>4. acked' = [acked EXCEPT ![j] = m] /\ Return(g)
    BY DEF Acknowledge
  <1> HIDE DEF m
  <1>5. acked' \in [Jobs -> Nat] /\ acked'[j] = m
        /\ \A i \in Jobs \ {j} : acked'[i] = acked[i]
    BY <1>1, <1>2, <1>3, <1>4
  <1>6. \A i \in Jobs : Len(hist'[1].log[i]) >= acked[i]
    <2>1. SUFFICES ASSUME NEW i \in Jobs PROVE Len(hist'[1].log[i]) >= acked[i]
      OBVIOUS
    <2>2. /\ Len(hist[1].log[i]) \in Nat /\ Len(hist'[1].log[i]) \in Nat
          /\ acked[i] \in Nat
      BY <1>1, Tables
    <2>3. Len(hist[1].log[i]) <= Len(hist'[1].log[i]) /\ Len(hist[1].log[i]) >= acked[i]
      BY <1>1 DEF Grows, AcknowledgedIsDurable
    <2> QED BY <2>2, <2>3, LeqTrans, Zenon
  <1>7. Len(hist'[1].log[j]) >= n
    <2> DEFINE l == Len(hist'[1].log[j])
    <2>1. l \in Nat /\ n <= l
      BY <1>2, Tables
    <2> HIDE DEF l, n
    <2>2. l >= n
      BY <1>2, <2>1
    <2> QED BY <2>2 DEF l
  <1>8. Len(hist'[1].log[j]) >= m
    BY <1>2, <1>3, <1>6, <1>7
  <1>9. \A i \in Jobs : Len(hist'[1].log[i]) >= acked'[i]
    BY <1>5, <1>6, <1>8
  <1> QED BY <1>4, <1>5, <1>9 DEF AcknowledgedIsDurable

\* The WAL checkpoint puts every commit on the disk, or fails.
LEMMA InvWALCheckpoint ==
  ASSUME StoreInv, NEW g \in Callers, WALCheckpoint(g)
  PROVE  StoreInv'
PROOF
  <1> DEFINE j == call[g].job
  <1>1. At(g, "sync") /\ client' = client /\ clock' = clock
    BY DEF WALCheckpoint
  <1>2. /\ CallOK(g) /\ call[g] \in CallRecord /\ call[g].pc = "sync" /\ j \in Jobs
        /\ call[g].seq \in Nat /\ call \in [Callers -> CallRecord \cup {NoCall}]
    BY <1>1, InCall
  <1>3. /\ StoreTypeOK /\ HistInv /\ acked \in [Jobs -> Nat] /\ AcknowledgedIsDurable
        /\ db \in Database /\ Len(hist) \in DOMAIN hist /\ db = hist[Len(hist)]
    BY Current DEF StoreInv, StoreTypeOK
  <1>4. \A h \in Busy : call[h].pc = "begin" /\ call[h].op = "create" =>
          call[h].job \notin Present
    BY DEF StoreInv, CallInv, CallOK
  <1>5. call[g].seq <= Len(db.log[j])
    BY <1>2 DEF CallOK
  <1>6. ASSUME hist' = <<db>>
        PROVE  /\ hist' \in Seq(Database) /\ hist' # <<>> /\ HistInv'
               /\ db' = db /\ db' \in Database /\ Grows(db, db')
               /\ hist'[1] = db /\ hist'[1] \in Database /\ Grows(hist[1], hist'[1])
               /\ Present' = Present
    <2>1. /\ hist' \in Seq(Database) /\ hist' # <<>>
          /\ db' = db /\ hist'[1] = db /\ HistInv' /\ Grows(hist[1], db)
      BY <1>1, <1>3, <1>6, HistCut
    <2> QED BY <1>3, <2>1, GrowsRefl DEF Present
  <1>7. CASE hist' = <<db>> /\ Acknowledge(g)
    <2>1. Return(g) /\ acked' \in [Jobs -> Nat] /\ AcknowledgedIsDurable'
      BY <1>1, <1>5, <1>6, <1>7, Acknowledged
    <2> QED BY <1>1, <1>4, <1>6, <1>7, <2>1, Returned, Written
  <1>8. CASE /\ hist' = <<db>> /\ call[g].op = "transition"
             /\ call' = [call EXCEPT ![g].pc = "mark"] /\ acked' = acked
    <2> DEFINE c == [call[g] EXCEPT !.pc = "mark"]
    <2>1. /\ c \in CallRecord /\ c.job = j /\ c.pc = "mark" /\ c.seq = call[g].seq
          /\ c.at = call[g].at /\ c.op = "transition"
      BY <1>2, <1>8 DEF CallRecord
    <2>2. call' = [call EXCEPT ![g] = c]
      BY <1>8
    <2> HIDE DEF c
    <2>3. /\ call' \in [Callers -> CallRecord \cup {NoCall}] /\ call'[g] = c
          /\ \A h \in Callers \ {g} : call'[h] = call[h]
      BY <1>2, <2>1, <2>2
    <2>4. c.seq <= Len(hist'[1].log[c.job]) /\ c.at <= clock'
      BY <1>1, <1>2, <1>5, <1>6, <1>8, <2>1 DEF CallOK
    <2>5. CallOK(g)'
      BY <2>1, <2>3, <2>4 DEF CallOK
    <2>6. AcknowledgedIsDurable'
      BY <1>3, <1>6, <1>8, AckedKept
    <2>7. \A h \in Busy \ {g} : call[h].pc = "begin" /\ call[h].op = "create" =>
            call'[g].job # call[h].job
      BY <1>1, <2>1, <2>3 DEF StoreInv, CallInv, CallOK, At
    <2> QED BY <1>1, <1>3, <1>4, <1>6, <1>8, <2>3, <2>5, <2>6, <2>7, Written
  <1>9. CASE Return(g) /\ hist' = hist /\ acked' = acked
    <2>1. Present' = Present
      BY <1>1, <1>9, NotWritten
    <2> QED BY <1>1, <1>3, <1>4, <1>9, <2>1, Returned, NotWritten, Written, Zenon
  <1> QED BY <1>7, <1>8, <1>9 DEF WALCheckpoint

\* Transition stamps wal_marker and returns.
LEMMA InvMark ==
  ASSUME StoreInv, NEW g \in Callers, Mark(g)
  PROVE  StoreInv'
PROOF
  <1> DEFINE new == [db EXCEPT !.marker = clock]
  <1>1. /\ At(g, "mark") /\ hist' = Append(hist, new) /\ Acknowledge(g)
        /\ client' = client /\ clock' = clock
    BY DEF Mark
  <1>2. CallOK(g) /\ call[g].pc = "mark"
    BY <1>1, InCall
  <1>3. /\ StoreTypeOK /\ HistInv /\ clock \in Nat /\ db \in Database
        /\ hist[1] \in Database /\ DOMAIN hist = 1..Len(hist)
        /\ Len(hist) \in DOMAIN hist /\ db = hist[Len(hist)]
    BY Current DEF StoreInv, StoreTypeOK
  <1>4. new \in Database /\ new.row = db.row /\ new.log = db.log
    BY <1>3, Zenon DEF Database
  <1> HIDE DEF new
  <1>5. Grows(db, db)
    BY <1>3, GrowsRefl
  <1>6. /\ Grows(db, new) /\ Inserted(new) = Inserted(db)
        /\ \A j \in Jobs : Sound(new.row[j], new.log[j], clock)
        /\ IsFiniteSet(Inserted(new))
    <2>1. Inserted(new) = Inserted(db)
      BY <1>4 DEF Inserted
    <2>2. Grows(db, new)
      BY <1>4, <1>5 DEF Grows
    <2>3. /\ \A j \in Jobs : Sound(db.row[j], db.log[j], clock)
          /\ IsFiniteSet(Inserted(db))
      BY <1>3 DEF HistInv
    <2> QED BY <1>4, <2>1, <2>2, <2>3
  <1>7. /\ hist' \in Seq(Database) /\ hist' # <<>>
        /\ db' = new /\ hist'[1] = hist[1] /\ HistInv'
    BY <1>1, <1>3, <1>4, <1>6, HistAppend
  <1>8. Present' = Present
    BY <1>4, <1>7 DEF Present
  <1>9. Grows(hist[1], hist'[1]) /\ hist'[1] \in Database
    BY <1>3, <1>7, GrowsRefl
  <1>10. Return(g) /\ acked' \in [Jobs -> Nat] /\ AcknowledgedIsDurable'
    BY <1>1, <1>2, <1>7, <1>9, Acknowledged DEF CallOK
  <1>11. \A h \in Busy : call[h].pc = "begin" /\ call[h].op = "create" =>
           call[h].job \notin Present
    BY DEF StoreInv, CallInv, CallOK
  <1> QED BY <1>1, <1>4, <1>6, <1>7, <1>8, <1>9, <1>10, <1>11, Returned, Written, Zenon

-----------------------------------------------------------------------------
(* Requests that read.                                                     *)

\* GET /v1/jobs/{id} reads the row, then the events.
LEMMA InvGetJob ==
  ASSUME StoreInv, NEW j \in Jobs, GetJob(j)
  PROVE  StoreInv'
PROOF
  <1>1. hist' = hist /\ call' = call /\ clock' = clock /\ acked' = acked /\ db' = db
    BY DEF GetJob, db
  <1>2. StoreTypeOK /\ HistInv /\ GetInv /\ db \in Database
    BY Current DEF StoreInv
  <1>3. /\ db.row[j] \in Row /\ db.log[j] \in Seq(Event) /\ Len(db.log[j]) \in Nat
        /\ Explains(db.log[j], db.row[j])
    <2>1. db.row[j] \in Row /\ db.log[j] \in Seq(Event) /\ Len(db.log[j]) \in Nat
      BY <1>2, Tables
    <2>2. Len(hist) \in DOMAIN hist /\ db = hist[Len(hist)]
      BY <1>2, Current
    <2>3. Sound(db.row[j], db.log[j], clock)
      BY <1>2, <2>2, Zenon DEF HistInv
    <2> QED BY <2>1, <2>3 DEF Sound
  <1>4. SubSeq(db.log[j], 1, Len(db.log[j])) = db.log[j]
    BY <1>3
  <1>5. CASE client' = [op |-> "get", job |-> j, row |-> db.row[j], newest |-> 0]
    <2>1. client' \in GetRecord
      BY <1>3, <1>5 DEF GetRecord
    <2>2. /\ client'.op = "get" /\ client'.job = j /\ client'.row = db.row[j]
      BY <1>5
    <2>3. Len(db.log[j]) \in 0..Len(db.log[j])
      BY <1>3
    <2>4. GetInv'
      BY <1>1, <1>3, <1>4, <2>2, <2>3, Zenon DEF GetInv
    <2>5. ListInv'
      BY <2>2, Zenon DEF ListInv
    <2> QED BY <1>1, <2>1, <2>4, <2>5, OnlyRead
  <1>6. CASE /\ client.op = "get" /\ client.job = j
             /\ client' = [client EXCEPT !.op = "got", !.newest = Len(db.log[j])]
    <2>1. client \in GetRecord
      BY <1>2, <1>6, ClientShape
    <2> DEFINE l == Len(db.log[j])
    <2> HIDE DEF l
    <2>2. /\ client' \in GetRecord /\ client'.op = "got" /\ client'.job = j
          /\ client'.row = client.row /\ client'.newest = l
      <3>1. l \in Nat
        BY <1>3 DEF l
      <3> QED BY <1>6, <2>1, <3>1, Zenon DEF GetRecord, l
    <2>3. PICK n \in 0..l : Explains(SubSeq(db.log[j], 1, n), client.row)
      BY <1>2, <1>6 DEF GetInv, l
    <2>4. n <= l /\ n \in 0..Len(db.log[j])
      BY <1>3, <2>3 DEF l
    <2>5. GetInv'
      BY <1>1, <2>2, <2>3, <2>4 DEF GetInv
    <2>6. ListInv'
      BY <2>2, Zenon DEF ListInv
    <2> QED BY <1>1, <2>2, <2>5, <2>6, OnlyRead
  <1> QED BY <1>5, <1>6 DEF GetJob

\* A page of GET /v1/jobs.
LEMMA InvListJobs ==
  ASSUME StoreInv, NEW state, NEW after, NEW seen, NEW due,
         Walk(state, after, seen, due), ListJobs(state, after, seen, due)
  PROVE  StoreInv'
PROOF
  <1>1. hist' = hist /\ call' = call /\ clock' = clock /\ acked' = acked
    BY DEF ListJobs
  <1>2. client' \in ListRecord /\ ListInv'
    BY PageKeepsListInv DEF StoreInv
  <1>3. GetInv'
    BY <1>2, Zenon DEF GetInv, ListRecord
  <1> QED BY <1>1, <1>2, <1>3, OnlyRead

\* A client that has seen nothing yet.
LEMMA NoPages ==
  ASSUME NEW seen \in Seq(Jobs), seen = <<>>
  PROVE  (\A k \in 1..Len(seen) : FALSE) /\ PagesTo(Created, None, seen)
PROOF
  <1>1. Len(seen) = 0 /\ DOMAIN seen = 1..Len(seen)
    BY EmptySeq, LenProperties
  <1>2. \A k \in 1..Len(seen) : FALSE
    BY <1>1
  <1>3. IsInjective(seen)
    BY <1>1, <1>2 DEF IsInjective
  <1> QED BY <1>2, <1>3 DEF PagesTo

\* The first page: nothing is seen, and everything that is there is due.
LEMMA InvListFirst ==
  ASSUME StoreInv, NEW state \in {"", "running"}, ListFirst(state)
  PROVE  StoreInv'
PROOF
  <1> DEFINE due == IF state = "" THEN Present ELSE {}
             seen == <<>>
  <1>1. ListJobs(state, None, seen, due)
    BY Zenon DEF ListFirst
  <1>2. seen \in Seq(Jobs)
    BY EmptySeq, Zenon
  <1>3. due \subseteq Present /\ (state # "" => due = {})
    BY Zenon
  <1>4. (\A k \in 1..Len(seen) : FALSE) /\ PagesTo(Created, None, seen)
    BY <1>2, NoPages, Zenon
  <1> HIDE DEF due, seen
  <1>5. Walk(state, None, seen, due)
    BY <1>2, <1>3, <1>4, Zenon DEF Walk
  <1> QED BY <1>1, <1>5, InvListJobs, Zenon

\* The next page begins behind the cursor of the last one.
LEMMA InvListNext ==
  ASSUME StoreInv, ListNext
  PROVE  StoreInv'
PROOF
  <1> DEFINE state == client.state
             after == client.cursor
             seen == client.seen
             due == client.due
  <1>1. client.op = "list" /\ ListJobs(state, after, seen, due)
    BY DEF ListNext
  <1>2. StoreTypeOK /\ ListInv
    BY DEF StoreInv
  <1>3. /\ state \in {"", "running"} /\ seen \in Seq(Jobs) /\ due \subseteq Jobs
    BY <1>1, <1>2, ClientShape, Zenon DEF ListRecord
  <1>4. /\ IsInjective(seen) /\ after \in Present
        /\ \A k \in 1..Len(seen) : seen[k] \in Present
        /\ due \subseteq Present
        /\ state # "" => due = {}
        /\ \A k \in 1..Len(seen) : db.row[seen[k]].created >= db.row[after].created
        /\ \A j \in due : Alone(j) => \/ \E k \in 1..Len(seen) : seen[k] = j
                                      \/ db.row[j].created < db.row[after].created
    BY <1>1, <1>2, Zenon DEF ListInv
  <1> HIDE DEF state, after, seen, due
  <1>5. \A j \in Present : j \in Jobs /\ j # None /\ Created[j] = db.row[j].created
    BY NoneAssumption DEF Present, Created
  <1>6. PagesTo(Created, after, seen)
    BY <1>4, <1>5, Zenon DEF PagesTo
  <1>7. \A j \in due : Alone(j) => \/ \E k \in 1..Len(seen) : seen[k] = j
                                   \/ Created[j] < Created[after]
    BY <1>4, <1>5, Zenon
  <1>8. Walk(state, after, seen, due)
    BY <1>3, <1>4, <1>6, <1>7, Zenon DEF Walk
  <1> QED BY <1>1, <1>8, InvListJobs

\* The client has its answer.
LEMMA InvAnswered == ASSUME StoreInv, Answered PROVE StoreInv'
PROOF
  <1>1. /\ hist' = hist /\ call' = call /\ clock' = clock /\ acked' = acked
        /\ client' = NoCall
    BY DEF Answered
  <1>2. client'.op = "none"
    BY <1>1 DEF NoCall
  <1>3. GetInv' /\ ListInv'
    BY <1>2 DEF GetInv, ListInv
  <1> QED BY <1>1, <1>3, OnlyRead

-----------------------------------------------------------------------------
(* The process, the machine and the clock.                                 *)

\* The process starts again with one of the databases since the last sync.
LEMMA InvRestart ==
  ASSUME StoreInv, Restart,
         hist' = hist \/ \E i \in DOMAIN hist : hist' = <<hist[i]>>
  PROVE  StoreInv'
PROOF
  <1>1. /\ call' = [g \in Callers |-> NoCall] /\ client' = NoCall
        /\ clock' = clock /\ acked' = acked
    BY DEF Restart
  <1>2. /\ StoreTypeOK /\ HistInv /\ AcknowledgedIsDurable
        /\ \A i \in DOMAIN hist : hist[i] \in Database
    BY Current DEF StoreInv
  <1>3. hist' \in Seq(Database) /\ hist' # <<>> /\ HistInv' /\ AcknowledgedIsDurable'
    <2>1. CASE hist' = hist
      BY <1>1, <2>1, NotWritten
    <2>2. CASE \E i \in DOMAIN hist : hist' = <<hist[i]>>
      <3>1. PICK i \in DOMAIN hist : hist' = <<hist[i]>>
        BY <2>2
      <3>2. /\ hist' \in Seq(Database) /\ hist' # <<>>
            /\ hist'[1] = hist[i] /\ HistInv' /\ Grows(hist[1], hist[i])
        BY <1>1, <1>2, <3>1, HistCut
      <3>3. AcknowledgedIsDurable'
        BY <1>1, <1>2, <3>2, AckedKept
      <3> QED BY <3>2, <3>3
    <2> QED BY <2>1, <2>2
  <1>4. StoreTypeOK'
    BY <1>1, <1>2, <1>3 DEF StoreTypeOK
  <1>5. CallInv'
    BY <1>1 DEF CallInv, Busy
  <1>6. client'.op = "none"
    BY <1>1 DEF NoCall
  <1>7. GetInv' /\ ListInv'
    BY <1>6 DEF GetInv, ListInv
  <1> QED BY <1>3, <1>4, <1>5, <1>7 DEF StoreInv

\* Time passes.
LEMMA InvTick == ASSUME StoreInv, Tick PROVE StoreInv'
PROOF
  <1>1. /\ clock' = clock + 1 /\ hist' = hist /\ call' = call /\ client' = client
        /\ acked' = acked
    BY DEF Tick
  <1>2. StoreTypeOK /\ HistInv /\ clock \in Nat /\ clock' \in Nat /\ clock <= clock'
    BY <1>1 DEF StoreInv, StoreTypeOK
  <1>3. StoreTypeOK'
    BY <1>1, <1>2 DEF StoreTypeOK
  <1>4. HistInv'
    <2>1. ASSUME NEW i \in DOMAIN hist, NEW j \in Jobs
          PROVE  Sound(hist[i].row[j], hist[i].log[j], clock')
      <3>1. hist[i] \in Database /\ Sound(hist[i].row[j], hist[i].log[j], clock)
        BY <1>2, Current DEF HistInv
      <3> QED BY <1>2, <3>1, Tables, SoundLater
    <2>2. /\ \A i \in DOMAIN hist : IsFiniteSet(Inserted(hist[i]))
          /\ \A i, k \in DOMAIN hist : i <= k => Grows(hist[i], hist[k])
      BY <1>2 DEF HistInv
    <2> QED BY <1>1, <2>1, <2>2 DEF HistInv, Inserted
  <1>5. CallInv'
    <2>1. SUFFICES ASSUME NEW g \in Busy PROVE CallOK(g)'
      BY <1>1 DEF CallInv, Busy
    <2>2. CallOK(g) /\ call[g].at \in Nat
      BY <1>2, CallShape DEF StoreInv, CallInv, Busy, CallRecord
    <2> DEFINE a == call[g].at
    <2>3. a \in Nat /\ a <= clock
      BY <2>2 DEF CallOK
    <2> HIDE DEF a
    <2>4. a <= clock'
      BY <1>2, <2>3
    <2>5. db' = db /\ Present' = Present /\ Busy' = Busy
      BY <1>1 DEF db, Present, Busy
    <2> QED BY <1>1, <2>2, <2>4, <2>5 DEF CallOK, a
  <1>6. AcknowledgedIsDurable' /\ GetInv' /\ ListInv'
    BY <1>1, Zenon
    DEF StoreInv, AcknowledgedIsDurable, GetInv, ListInv, Alone, Present, db
  <1> QED BY <1>3, <1>4, <1>5, <1>6 DEF StoreInv

-----------------------------------------------------------------------------
(* Every behaviour.                                                        *)

\* The store is opened with empty tables.
LEMMA InvInit == Init => StoreInv
PROOF
  <1> DEFINE d == [row |-> [j \in Jobs |-> Absent], log |-> [j \in Jobs |-> <<>>],
                   marker |-> 0]
  <1>1. SUFFICES ASSUME Init PROVE StoreInv
    OBVIOUS
  <1>2. /\ hist = <<d>> /\ call = [g \in Callers |-> NoCall] /\ client = NoCall
        /\ clock = 1 /\ acked = [j \in Jobs |-> 0]
    BY <1>1 DEF Init
  <1>3. Absent \in Row /\ <<>> \in Seq(Event)
    BY DEF Absent, Row, RowState
  <1>4. d \in Database
    BY <1>3 DEF Database
  <1>5. \A j \in Jobs : d.row[j] = Absent /\ d.log[j] = <<>>
    OBVIOUS
  <1> HIDE DEF d
  <1>6. StoreTypeOK
    BY <1>2, <1>4 DEF StoreTypeOK
  <1>7. hist[1] = d /\ DOMAIN hist = {1} /\ Len(<<>>) = 0
    BY <1>2
  <1>8. Inserted(d) = {}
    BY <1>5 DEF Inserted
  <1>9. HistInv
    BY <1>2, <1>4, <1>5, <1>7, <1>8, SoundEmpty, GrowsRefl, FS_EmptySet, Zenon DEF HistInv
  <1>10. AcknowledgedIsDurable
    BY <1>2, <1>5, <1>7 DEF AcknowledgedIsDurable
  <1>11. CallInv
    BY <1>2 DEF CallInv, Busy
  <1>12. client.op = "none"
    BY <1>2 DEF NoCall
  <1>13. GetInv /\ ListInv
    BY <1>12 DEF GetInv, ListInv
  <1> QED BY <1>6, <1>9, <1>10, <1>11, <1>13 DEF StoreInv

\* Every step of the store keeps the invariant.
LEMMA InvNext == StoreInv /\ [Next]_vars => StoreInv'
PROOF
  <1>1. SUFFICES ASSUME StoreInv, [Next]_vars PROVE StoreInv'
    OBVIOUS
  <1>2. ASSUME NEW g \in Callers, NEW j \in Jobs,
               \/ Call(g, "create", j, "pending")
               \/ \E s \in Targets : Call(g, "transition", j, s)
               \/ \E e \in Epochs : Call(g, "checkpoint", j, e)
        PROVE  StoreInv'
    BY <1>1, <1>2, InvCall, Zenon DEF Value
  <1>3. ASSUME NEW g \in Callers,
               \/ CreateJob(g) \/ Transition(g) \/ RecordCheckpoint(g) \/ Rollback(g)
               \/ WALCheckpoint(g) \/ Mark(g)
        PROVE  StoreInv'
    BY <1>1, <1>3, InvCreateJob, InvTransition, InvRecordCheckpoint, InvRollback,
       InvWALCheckpoint, InvMark
  <1>4. ASSUME NEW j \in Jobs, GetJob(j) PROVE StoreInv'
    BY <1>1, <1>4, InvGetJob
  <1>5. ASSUME NEW s \in {"", "running"}, ListFirst(s) PROVE StoreInv'
    BY <1>1, <1>5, InvListFirst, Zenon
  <1>6. CASE Crash \/ PowerLoss \/ Close
    <2>1. Len(hist) \in DOMAIN hist /\ db = hist[Len(hist)]
      BY <1>1, Current DEF StoreInv
    <2>2. Restart /\ (hist' = hist \/ \E i \in DOMAIN hist : hist' = <<hist[i]>>)
      BY <1>6, <2>1 DEF Crash, PowerLoss, Close
    <2> QED BY <1>1, <2>2, InvRestart
  <1>7. CASE UNCHANGED vars
    <2>1. /\ hist' = hist /\ call' = call /\ client' = client /\ clock' = clock
          /\ acked' = acked
      BY <1>7 DEF vars
    <2>2. GetInv' /\ ListInv'
      BY <1>1, <2>1, Zenon DEF StoreInv, GetInv, ListInv, Alone, Present, db
    <2> QED BY <1>1, <2>1, <2>2, OnlyRead DEF StoreInv, StoreTypeOK
  <1> QED BY <1>1, <1>2, <1>3, <1>4, <1>5, <1>6, <1>7, InvListNext, InvAnswered,
             InvTick, Zenon DEF Next

\* The invariant, in every state of every behaviour of the store.
THEOREM StoreInvariant == Spec => []StoreInv
  BY InvInit, InvNext, PTL DEF Spec

\* Every row is the one its events lead to, in every database that a power
\* loss can bring back (store.go:322-332).
THEOREM RowsAreReplayed == Spec => []RowIsReplayed
PROOF
  <1>1. StoreInv => RowIsReplayed
    BY Zenon DEF StoreInv, HistInv, Sound, RowIsReplayed
  <1> QED BY <1>1, StoreInvariant, PTL

\* A create or a transition that returned and whose WAL checkpoint did not
\* fail is on the disk (store.go:202-206, 330-340).
THEOREM AcknowledgedStays == Spec => []AcknowledgedIsDurable
PROOF
  <1>1. StoreInv => AcknowledgedIsDurable
    BY DEF StoreInv
  <1> QED BY <1>1, StoreInvariant, PTL

\* created_at, started_at, finished_at and the times of the events are in
\* order in every database that a power loss can bring back
\* (store.go:180-187, 304-313).
THEOREM TimesStayOrdered == Spec => []TimesAreOrdered
PROOF
  <1>1. StoreInv => TimesAreOrdered
    <2>1. SUFFICES ASSUME StoreInv, NEW i \in DOMAIN hist, NEW j \in Jobs
                   PROVE  LET row == hist[i].row[j] log == hist[i].log[j] IN
                          /\ row.started # 0 => row.created <= row.started
                          /\ row.finished # 0 =>
                               row.finished >= Max({row.created, row.started})
                          /\ \A k \in 1..(Len(log) - 1) : log[k].at <= log[k + 1].at
      BY Zenon DEF TimesAreOrdered
    <2> DEFINE row == hist[i].row[j]
               log == hist[i].log[j]
               c == row.created
               s == row.started
               f == row.finished
    <2>2. hist[i] \in Database /\ Sound(row, log, clock)
      BY <2>1, Current DEF StoreInv, HistInv
    <2>3. row \in Row
      BY <2>2, Tables
    <2>4. c \in Nat /\ s \in Nat /\ f \in Nat
      BY <2>3 DEF Row
    <2>5. /\ s # 0 => c <= s
          /\ f # 0 => c <= f /\ s <= f
          /\ \A k \in 1..(Len(log) - 1) : log[k].at <= log[k + 1].at
      BY <2>2, Zenon DEF Sound
    <2> HIDE DEF c, s, f
    <2>6. f # 0 => f >= Max({c, s})
      BY <2>4, <2>5, MaxOfTwo
    <2> QED BY <2>5, <2>6 DEF c, s, f
  <1> QED BY <1>1, StoreInvariant, PTL

\* The row that GET /v1/jobs/{id} shows is explained by the events it shows
\* with it (api.go:278-287).
THEOREM ViewsAreExplained == Spec => []ViewIsExplained
PROOF
  <1>1. StoreInv => ViewIsExplained
    <2>1. SUFFICES ASSUME StoreInv, client.op = "got"
                   PROVE  \E n \in 0..client.newest :
                            Explains(SubSeq(db.log[client.job], 1, n), client.row)
      BY DEF ViewIsExplained
    <2>2. client.newest \in Nat
      BY <2>1, ClientShape DEF StoreInv, GetRecord
    <2>3. PICK n \in 0..Len(db.log[client.job]) :
            /\ Explains(SubSeq(db.log[client.job], 1, n), client.row)
            /\ n <= client.newest
      BY <2>1 DEF StoreInv, GetInv
    <2>4. n \in 0..client.newest
      BY <2>2, <2>3
    <2> QED BY <2>3, <2>4
  <1> QED BY <1>1, StoreInvariant, PTL

\* A client that follows the cursors of GET /v1/jobs to the end sees no job
\* twice, and every job that was there when it began and shares its
\* created_at with no other (store.go:221-273).
THEOREM ListingsAreComplete == Spec => []ListingIsComplete
PROOF
  <1>1. StoreInv => ListingIsComplete
    <2>1. SUFFICES ASSUME StoreInv, client.op = "listed" PROVE ListingIsComplete
      BY DEF ListingIsComplete
    <2>2. client.seen \in Seq(Jobs) /\ IsInjective(client.seen)
      BY <2>1, ClientShape, Zenon DEF StoreInv, ListInv, ListRecord
    <2>3. \A j \in client.due : Alone(j) => \E k \in 1..Len(client.seen) : client.seen[k] = j
      BY <2>1, Zenon DEF StoreInv, ListInv
    <2>4. \A k \in 1..Len(client.seen) : client.seen[k] \in Range(client.seen)
      BY <2>2 DEF Range
    <2> QED BY <2>2, <2>3, <2>4 DEF ListingIsComplete, Alone
  <1> QED BY <1>1, StoreInvariant, PTL

=============================================================================
