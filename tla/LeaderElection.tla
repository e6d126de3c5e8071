--------------------------- MODULE LeaderElection ---------------------------
(* Controllers in HA mode: one Elector per process, its RedisLocker with   *)
(* one connection, and the key in Redis.  Time is counted in seconds; a    *)
(* goroutine that can run does so before the next second.                  *)
EXTENDS Naturals, Sequences

CONSTANTS
  Controllers,     \* controller ids, one per process
  None,            \* no holder
  LeaseTTL, RefreshEvery, PollEvery,   \* cluster.Config, in seconds
  IOTimeout,       \* deadline of a command on the connection
  Faults,          \* "late": replies may arrive after the deadline
  MaxFaults        \* bound on crashes, shutdowns and network failures

\* time.NewTicker panics unless its period is positive.
ASSUME TimesAssumption ==
  /\ LeaseTTL \in Nat
  /\ RefreshEvery \in Nat \ {0} /\ PollEvery \in Nat \ {0}
  /\ IOTimeout \in Nat \ {0}
ASSUME ElectionAssumption ==
  None \notin Controllers /\ Faults \subseteq {"late"} /\ MaxFaults \in Nat

VARIABLES
  holder, ttl,     \* the key: its value and the seconds it has left
  pc,              \* where Elector.Run is; a call in flight is one of Calls
  leader,          \* Elector.leader
  cancelled,       \* ctxRoot
  phase, ready,    \* the ticker: seconds since it fired, its buffered tick
  age,             \* seconds since the call in flight was written
  conn,            \* RedisLocker.conn: "half" and "broken" are not nil
  sent, replies,   \* what the connection carries each way
  spent            \* failures so far

keyVars == <<holder, ttl>>
connVars == <<conn, sent, replies>>
tickerVars == <<phase, ready>>
electionVars == <<keyVars, pc, leader, cancelled, tickerVars, age, connVars, spent>>

Calls == {"first", "again", "refresh", "release"}
Command == [first |-> "set", again |-> "set",
            refresh |-> "expire", release |-> "del"]

\* ttl.Seconds() truncated, and at least 1.
Lease == IF LeaseTTL < 1 THEN 1 ELSE LeaseTTL

ElectionTypeOK ==
  /\ holder \in Controllers \cup {None} /\ ttl \in 0 .. Lease
  /\ pc \in [Controllers -> {"down", "try", "poll", "lead", "stopped"} \cup Calls]
  /\ leader \in [Controllers -> BOOLEAN] /\ cancelled \in [Controllers -> BOOLEAN]
  /\ phase \in [Controllers -> Nat] /\ ready \in [Controllers -> BOOLEAN]
  /\ age \in [Controllers -> 0 .. IOTimeout]
  /\ conn \in [Controllers -> {"none", "open", "half", "broken"}]
  /\ sent \in [Controllers -> Seq({"set", "expire", "del"})]
  /\ replies \in [Controllers -> Seq({"OK", "nil", "one", "zero"})]
  /\ spent \in 0 .. MaxFaults

ElectionInit ==
  /\ holder = None /\ ttl = 0
  /\ pc = [i \in Controllers |-> "down"]
  /\ leader = [i \in Controllers |-> FALSE]
  /\ cancelled = [i \in Controllers |-> FALSE]
  /\ phase = [i \in Controllers |-> 0] /\ ready = [i \in Controllers |-> FALSE]
  /\ age = [i \in Controllers |-> 0]
  /\ conn = [i \in Controllers |-> "none"]
  /\ sent = [i \in Controllers |-> <<>>] /\ replies = [i \in Controllers |-> <<>>]
  /\ spent = 0

\* One more failure.
Spend == spent < MaxFaults /\ spent' = spent + 1

\* A new ticker, or none.
NewTicker(i) ==
  /\ phase' = [phase EXCEPT ![i] = 0]
  /\ ready' = [ready EXCEPT ![i] = FALSE]

-----------------------------------------------------------------------------
(* Redis executes what arrived on a connection, in order. *)

Owns(i) == ttl > 0 /\ holder = i

Reply(i, r) == replies' = [replies EXCEPT ![i] = Append(@, r)]

\* Slip: the seconds are rounded up.
RedisSetRounded(i) ==
  \/ ttl = 0 /\ holder' = i /\ ttl' = Lease + 1 /\ Reply(i, "OK")
  \/ ttl > 0 /\ UNCHANGED keyVars /\ Reply(i, "nil")

\* Slip: SET without NX.
RedisSetAnyway(i) == holder' = i /\ ttl' = Lease /\ Reply(i, "OK")

\* SET key holder NX EX secs
RedisSet(i) ==
  \/ ttl = 0 /\ holder' = i /\ ttl' = Lease /\ Reply(i, "OK")
  \/ ttl > 0 /\ UNCHANGED keyVars /\ Reply(i, "nil")

\* Slip: the script forgets EXPIRE.
RedisExpireIdle(i) ==
  UNCHANGED keyVars /\ Reply(i, IF Owns(i) THEN "one" ELSE "zero")

\* refreshScript
RedisExpire(i) ==
  \/ Owns(i) /\ ttl' = Lease /\ UNCHANGED holder /\ Reply(i, "one")
  \/ ~Owns(i) /\ UNCHANGED keyVars /\ Reply(i, "zero")

\* releaseScript
RedisDel(i) ==
  \/ Owns(i) /\ holder' = None /\ ttl' = 0 /\ Reply(i, "one")
  \/ ~Owns(i) /\ UNCHANGED keyVars /\ Reply(i, "zero")

Execute(i) ==
  /\ sent[i] # <<>>
  /\ sent' = [sent EXCEPT ![i] = Tail(@)]
  /\ \/ Head(sent[i]) = "set" /\ RedisSet(i)
     \/ Head(sent[i]) = "expire" /\ RedisExpire(i)
     \/ Head(sent[i]) = "del" /\ RedisDel(i)
  /\ UNCHANGED <<pc, leader, cancelled, tickerVars, age, conn, spent>>

-----------------------------------------------------------------------------
(* RedisLocker. *)

\* do: dial if there is no connection, and write the command.  A dial may
\* fail, and does once its context is cancelled (Release has another); on a
\* dead connection the command goes nowhere.
Begin(i, call) ==
  /\ pc' = [pc EXCEPT ![i] = call]
  /\ age' = [age EXCEPT ![i] = 0]
  /\ ready' = [ready EXCEPT ![i] = FALSE]
  /\ \/ /\ conn[i] \in {"none", "open"}
        /\ conn[i] = "open" \/ ~cancelled[i] \/ call = "release"
        /\ conn' = [conn EXCEPT ![i] = "open"]
        /\ sent' = [sent EXCEPT ![i] = Append(@, Command[call])]
        /\ UNCHANGED spent
     \/ /\ conn[i] = "none"
        /\ IF cancelled[i] /\ call # "release" THEN UNCHANGED spent ELSE Spend
        /\ UNCHANGED <<conn, sent>>
     \/ /\ conn[i] \in {"half", "broken"}
        /\ UNCHANGED <<conn, sent, spent>>
  /\ UNCHANGED <<keyVars, leader, cancelled, phase, replies>>

\* Slip: a leader waits out a failed refresh.
FailedBlocks(i) ==
  /\ leader' = [leader EXCEPT ![i] = pc[i] = "refresh"]
  /\ pc' = [pc EXCEPT ![i] = CASE @ = "refresh" -> "lead" [] @ = "release" -> "stopped"
                               [] OTHER -> "poll"]
  /\ age' = [age EXCEPT ![i] = 0] /\ UNCHANGED tickerVars

\* The elector after a call that did not give it the lease: a follower that
\* polls on, a leader that no longer is one, or the end of Run.
Failed(i) ==
  /\ leader' = [leader EXCEPT ![i] = FALSE]
  /\ \/ pc[i] = "again" /\ pc' = [pc EXCEPT ![i] = "poll"] /\ UNCHANGED tickerVars
     \/ pc[i] = "first" /\ pc' = [pc EXCEPT ![i] = "poll"] /\ NewTicker(i)
     \/ pc[i] = "refresh" /\ pc' = [pc EXCEPT ![i] = "try"] /\ NewTicker(i)
     \/ pc[i] = "release" /\ pc' = [pc EXCEPT ![i] = "stopped"] /\ NewTicker(i)
  /\ age' = [age EXCEPT ![i] = 0]

\* Slip: a failed write does not close the connection.
CallErrorKeeps(i) ==
  /\ pc[i] \in Calls /\ conn[i] # "open"
  /\ Failed(i)
  /\ UNCHANGED <<keyVars, cancelled, connVars, spent>>

\* The connection is dead: the write fails and closes it, or the write is
\* not the one to notice and the read fails, which leaves it in place.
CallError(i) ==
  /\ pc[i] \in Calls /\ conn[i] # "open"
  /\ Failed(i)
  /\ conn' = [conn EXCEPT ![i] = IF @ = "half" THEN "broken" ELSE "none"]
  /\ UNCHANGED <<keyVars, cancelled, sent, replies, spent>>

\* The deadline passes.  do keeps the connection, and with it the reply if
\* that is late rather than lost.
CallTimeout(i) ==
  /\ pc[i] \in Calls /\ conn[i] = "open" /\ age[i] = IOTimeout
  /\ Spend /\ Failed(i)
  /\ IF "late" \in Faults
     THEN UNCHANGED connVars
     ELSE /\ conn' = [conn EXCEPT ![i] = "broken"]
          /\ sent' = [sent EXCEPT ![i] = <<>>]
          /\ replies' = [replies EXCEPT ![i] = <<>>]
  /\ UNCHANGED <<keyVars, cancelled>>

\* The next reply on the connection, taken for the reply to this call.
ReadReply(i) ==
  /\ pc[i] \in Calls /\ conn[i] = "open" /\ replies[i] # <<>>
  /\ replies' = [replies EXCEPT ![i] = Tail(@)]
  /\ LET r == Head(replies[i]) IN
       \/ /\ pc[i] \in {"first", "again"} /\ r = "OK"
          /\ leader' = [leader EXCEPT ![i] = TRUE]
          /\ pc' = [pc EXCEPT ![i] = "lead"]
          /\ age' = [age EXCEPT ![i] = 0]
          /\ NewTicker(i)
       \/ /\ pc[i] = "refresh" /\ r = "one"
          /\ pc' = [pc EXCEPT ![i] = "lead"]
          /\ age' = [age EXCEPT ![i] = 0]
          /\ UNCHANGED <<leader, tickerVars>>
       \/ /\ ~(pc[i] \in {"first", "again"} /\ r = "OK")
          /\ ~(pc[i] = "refresh" /\ r = "one")
          /\ Failed(i)
  /\ UNCHANGED <<keyVars, cancelled, conn, sent, spent>>

-----------------------------------------------------------------------------
(* Elector. *)

\* runAsFollower: at once, then on every tick.
TryAcquire(i) ==
  \/ pc[i] = "try" /\ ~cancelled[i] /\ Begin(i, "first")
  \/ pc[i] = "poll" /\ ready[i] /\ Begin(i, "again")

\* runAsLeader
Refresh(i) == pc[i] = "lead" /\ ready[i] /\ Begin(i, "refresh")

\* Run, once its context is cancelled.
Stop(i) ==
  /\ cancelled[i] /\ pc[i] \in {"try", "poll", "lead"}
  /\ \/ leader[i] /\ Begin(i, "release")
     \/ /\ ~leader[i]
        /\ pc' = [pc EXCEPT ![i] = "stopped"] /\ NewTicker(i)
        /\ UNCHANGED <<keyVars, leader, cancelled, age, connVars, spent>>

ElectorStep(i) ==
  TryAcquire(i) \/ Refresh(i) \/ Stop(i) \/ CallError(i) \/ ReadReply(i)

-----------------------------------------------------------------------------
(* Processes, network and time. *)

\* A controller starts its elector.
StartElector(i) ==
  /\ pc[i] = "down"
  /\ pc' = [pc EXCEPT ![i] = "try"]
  /\ UNCHANGED <<keyVars, leader, cancelled, tickerVars, age, connVars, spent>>

\* main() returns.
CancelRoot(i) ==
  /\ pc[i] # "down" /\ ~cancelled[i] /\ Spend
  /\ cancelled' = [cancelled EXCEPT ![i] = TRUE]
  /\ UNCHANGED <<keyVars, pc, leader, tickerVars, age, connVars>>

\* The process ends, with or without notice.
EndProcess(i) ==
  /\ pc[i] # "down"
  /\ IF cancelled[i] THEN UNCHANGED spent ELSE Spend
  /\ pc' = [pc EXCEPT ![i] = "down"]
  /\ leader' = [leader EXCEPT ![i] = FALSE]
  /\ cancelled' = [cancelled EXCEPT ![i] = FALSE]
  /\ NewTicker(i)
  /\ age' = [age EXCEPT ![i] = 0]
  /\ conn' = [conn EXCEPT ![i] = "none"]
  /\ sent' = [sent EXCEPT ![i] = <<>>]
  /\ replies' = [replies EXCEPT ![i] = <<>>]
  /\ UNCHANGED keyVars

\* The connection fails with all it carries.
ConnLost(i) ==
  /\ conn[i] = "open" /\ Spend
  /\ \/ conn' = [conn EXCEPT ![i] = "half"]
     \/ pc[i] \notin Calls /\ conn' = [conn EXCEPT ![i] = "broken"]
  /\ sent' = [sent EXCEPT ![i] = <<>>]
  /\ replies' = [replies EXCEPT ![i] = <<>>]
  /\ UNCHANGED <<keyVars, pc, leader, cancelled, tickerVars, age>>

\* The period of the ticker, 0 where there is none.
Period(i) ==
  CASE pc[i] \in {"poll", "again"} -> PollEvery
    [] pc[i] \in {"lead", "refresh"} -> RefreshEvery
    [] OTHER -> 0

\* Nothing is due: no tick to take, no call that must return.
Quiet(i) ==
  /\ pc[i] \in {"poll", "lead"} => ~ready[i]
  /\ pc[i] \in Calls => conn[i] = "open" /\ age[i] < IOTimeout

Fires(i) == Period(i) # 0 /\ phase[i] + 1 >= Period(i)

\* A second passes.
Tick ==
  /\ \A i \in Controllers : Quiet(i)
  /\ ttl' = IF ttl > 0 THEN ttl - 1 ELSE 0
  /\ holder' = IF ttl > 1 THEN holder ELSE None
  /\ phase' = [i \in Controllers |->
                 IF Period(i) = 0 \/ Fires(i) THEN 0 ELSE phase[i] + 1]
  /\ ready' = [i \in Controllers |-> ready[i] \/ Fires(i)]
  /\ age' = [i \in Controllers |-> IF pc[i] \in Calls THEN age[i] + 1 ELSE 0]
  /\ UNCHANGED <<pc, leader, cancelled, connVars, spent>>

ElectionNext ==
  \/ Tick
  \/ \E i \in Controllers :
       \/ ElectorStep(i) \/ Execute(i) \/ StartElector(i)
       \/ CallTimeout(i) \/ CancelRoot(i) \/ EndProcess(i) \/ ConnLost(i)

ElectionSpec == ElectionInit /\ [][ElectionNext]_electionVars

\* Time passes, Redis and the electors run, and controllers are restarted.
FairElection ==
  /\ ElectionSpec
  /\ WF_electionVars(Tick)
  /\ \A i \in Controllers :
       /\ WF_electionVars(ElectorStep(i)) /\ WF_electionVars(Execute(i))
       /\ WF_electionVars(StartElector(i))
       /\ WF_electionVars(cancelled[i] /\ EndProcess(i))

-----------------------------------------------------------------------------
(* Properties. *)

\* Elector.IsLeader: a controller that believes it leads, and is not giving
\* the lease up, holds it.  So no two of them start jobs at once.
LeaderHoldsLease ==
  \A i \in Controllers : leader[i] /\ pc[i] # "release" => Owns(i)

\* Who holds the key, and who leads and is not releasing.
Key == IF ttl > 0 THEN holder ELSE None
Leading == {i \in Controllers : leader[i] /\ pc[i] # "release"}

Lock == INSTANCE LeaderLock WITH key <- Key, leading <- Leading

\* The electors, their connections and Redis together are a lock: the key
\* passes from one controller to another only through a moment at which
\* nobody leads (Elector.Run, RedisLocker).
ElectionIsLock == Lock!LockSpec

\* What the lease must cover: the late reply to Acquire, one period of the
\* ticker, and the late reply to Refresh.
Timely == 2 * IOTimeout + RefreshEvery < Lease

\* A call in flight has one command or one reply on its way, and nothing is
\* left of earlier ones.
PipeInv(i) ==
  IF pc[i] \in Calls /\ conn[i] = "open"
  THEN \/ sent[i] = <<Command[pc[i]]>> /\ replies[i] = <<>>
       \/ /\ sent[i] = <<>>
          /\ \E r \in {"OK", "nil", "one", "zero"} : replies[i] = <<r>>
  ELSE sent[i] = <<>> /\ replies[i] = <<>>

\* The least a lease has left: since a command was executed, no more time has
\* passed than since it was written.
TermInv(i) ==
  /\ leader[i] => pc[i] \in {"lead", "refresh", "release"}
  /\ pc[i] = "lead" =>
       /\ leader[i] /\ Owns(i) /\ phase[i] < RefreshEvery
       /\ ttl + IOTimeout + (IF ready[i] THEN RefreshEvery ELSE phase[i]) >= Lease
  /\ pc[i] = "refresh" =>
       /\ leader[i] /\ Owns(i) /\ phase[i] < RefreshEvery
       /\ ttl + IOTimeout + RefreshEvery + age[i] >= Lease
       /\ replies[i] = <<"one">> => ttl + age[i] >= Lease
  /\ pc[i] \in {"first", "again"} /\ replies[i] = <<"OK">> =>
       Owns(i) /\ ttl + age[i] >= Lease

\* The inductive invariant behind LeaderHoldsLease: RedisLocker.do leaves no
\* reply behind, and the leases last.
LeaseInv == \A i \in Controllers : PipeInv(i) /\ TermInv(i)

\* Once failures stop, some controller becomes leader and remains leader.
EventuallyLed == <>[](\E i \in Controllers : leader[i])
=============================================================================
