-------------------------- MODULE Election_proofs ---------------------------
(* A leader holds the lease, for any number of controllers and failures,   *)
(* if the lease is long enough and no reply outlives its deadline.         *)
EXTENDS LeaderElection, TLAPS

\* Leaves that name no prover are for SMT or Zenon.
USE SMTT(15), Z3T(15), Zenon

\* Lease is a positive number of seconds.
LEMMA LeaseType == Lease \in Nat /\ Lease > 0
BY TimesAssumption DEF Lease

\* Replacing one value of a function keeps its type.
LEMMA UpdateType ==
  ASSUME NEW S, NEW f \in [Controllers -> S], NEW i \in Controllers, NEW x \in S
  PROVE  [f EXCEPT ![i] = x] \in [Controllers -> S]
OBVIOUS

\* The same for flags.
LEMMA FlagType ==
  ASSUME NEW f \in [Controllers -> BOOLEAN], NEW i \in Controllers
  PROVE  /\ [f EXCEPT ![i] = TRUE] \in [Controllers -> BOOLEAN]
         /\ [f EXCEPT ![i] = FALSE] \in [Controllers -> BOOLEAN]
BY Zenon

\* Every step keeps the types of the elector, its connection and the key.
LEMMA ElectionTypes ==
  ASSUME ElectionTypeOK, [ElectionNext]_electionVars PROVE ElectionTypeOK'
<1> USE LeaseType, TimesAssumption, ElectionAssumption
<1> USE DEF ElectionTypeOK, keyVars, connVars, tickerVars, Calls
<1>1. CASE UNCHANGED electionVars
  BY <1>1 DEF electionVars
<1>2. CASE Tick
  <2>1. \A i \in Controllers : pc[i] \in Calls => age[i] + 1 \in 0 .. IOTimeout
    BY <1>2 DEF Tick, Quiet
  <2>2. age' \in [Controllers -> 0 .. IOTimeout]
    BY <1>2, <2>1 DEF Tick
  <2>3. phase' \in [Controllers -> Nat] /\ ready' \in [Controllers -> BOOLEAN]
    BY <1>2 DEF Tick, Fires
  <2>4. ttl' \in 0 .. Lease /\ holder' \in Controllers \cup {None}
    BY <1>2 DEF Tick
  <2> QED BY <1>2, <2>2, <2>3, <2>4 DEF Tick
<1> DEFINE Pc == {"down", "try", "poll", "lead", "stopped"} \cup Calls
<1>0. ASSUME NEW i \in Controllers, NewTicker(i)
      PROVE  phase' \in [Controllers -> Nat] /\ ready' \in [Controllers -> BOOLEAN]
  <2>1. phase' \in [Controllers -> Nat] BY <1>0 DEF NewTicker
  <2>2. ready' \in [Controllers -> BOOLEAN] BY <1>0, FlagType, Zenon DEF NewTicker
  <2> QED BY <2>1, <2>2
<1>3. ASSUME NEW i \in Controllers, NEW call \in Calls, Begin(i, call)
      PROVE  ElectionTypeOK'
  <2>1. Command[call] \in {"set", "expire", "del"}
    BY <1>3 DEF Command
  <2>2. Append(sent[i], Command[call]) \in Seq({"set", "expire", "del"})
    BY <2>1
  <2>3. sent' \in [Controllers -> Seq({"set", "expire", "del"})]
    <3>1. sent' = sent \/ sent' = [sent EXCEPT ![i] = Append(@, Command[call])]
      BY <1>3, Zenon DEF Begin
    <3> QED BY <2>2, <3>1, Zenon
  <2>4. /\ conn' \in [Controllers -> {"none", "open", "half", "broken"}]
        /\ spent' \in 0 .. MaxFaults
    <3>1. conn' \in [Controllers -> {"none", "open", "half", "broken"}]
      BY <1>3, Zenon DEF Begin
    <3>2. spent' \in 0 .. MaxFaults
      BY <1>3 DEF Begin, Spend
    <3> QED BY <3>1, <3>2
  <2>5. ready' \in [Controllers -> BOOLEAN]
    BY <1>3, FlagType, Zenon DEF Begin
  <2>6. pc' \in [Controllers -> Pc] /\ age' \in [Controllers -> 0 .. IOTimeout]
    BY <1>3 DEF Begin
  <2> QED BY <1>3, <2>3, <2>4, <2>5, <2>6, Zenon DEF Begin
<1>4. ASSUME NEW i \in Controllers, Failed(i)
      PROVE  /\ leader' \in [Controllers -> BOOLEAN]
             /\ pc' \in [Controllers -> {"down", "try", "poll", "lead", "stopped"} \cup Calls]
             /\ phase' \in [Controllers -> Nat] /\ ready' \in [Controllers -> BOOLEAN]
             /\ age' \in [Controllers -> 0 .. IOTimeout]
  <2>1. leader' \in [Controllers -> BOOLEAN]
    BY <1>4, FlagType, Zenon DEF Failed
  <2>2. PICK x \in Pc : pc' = [pc EXCEPT ![i] = x]
    BY <1>4, Zenon DEF Failed
  <2>3. pc' \in [Controllers -> Pc] BY <2>2, UpdateType
  <2>4. age' \in [Controllers -> 0 .. IOTimeout]
    BY <1>4 DEF Failed
  <2>5. phase' \in [Controllers -> Nat] /\ ready' \in [Controllers -> BOOLEAN]
    BY <1>0, <1>4, Zenon DEF Failed
  <2> QED BY <2>1, <2>3, <2>4, <2>5, Zenon
<1>5. ASSUME NEW i \in Controllers, ElectorStep(i) PROVE ElectionTypeOK'
  <2>1. CASE TryAcquire(i) BY <1>3, <2>1, Zenon DEF TryAcquire
  <2>2. CASE Refresh(i) BY <1>3, <2>2, Zenon DEF Refresh
  <2>3. CASE Stop(i)
    <3>1. CASE Begin(i, "release") BY <1>3, <3>1, Zenon
    <3>2. CASE NewTicker(i) /\ ~Begin(i, "release")
      BY <1>0, <2>3, <3>2, Zenon DEF Stop
    <3> QED BY <2>3, <3>1, <3>2, Zenon DEF Stop
  <2>4. CASE CallError(i)
    BY <1>4, <2>4, Zenon DEF CallError
  <2>5. CASE ReadReply(i)
    <3>1. replies' \in [Controllers -> Seq({"OK", "nil", "one", "zero"})]
      BY <2>5 DEF ReadReply
    <3>2. CASE Failed(i) BY <1>4, <2>5, <3>1, <3>2, Zenon DEF ReadReply
    <3>3. ASSUME pc' = [pc EXCEPT ![i] = "lead"], age' = [age EXCEPT ![i] = 0]
          PROVE  pc' \in [Controllers -> Pc] /\ age' \in [Controllers -> 0 .. IOTimeout]
      <4>1. pc' \in [Controllers -> Pc] BY <3>3
      <4>2. age' \in [Controllers -> 0 .. IOTimeout] BY <3>3
      <4> QED BY <4>1, <4>2
    <3>4. CASE /\ pc' = [pc EXCEPT ![i] = "lead"] /\ age' = [age EXCEPT ![i] = 0]
               /\ UNCHANGED <<leader, tickerVars>>
      BY <2>5, <3>1, <3>4, <3>3, Zenon DEF ReadReply
    <3>5. CASE /\ pc' = [pc EXCEPT ![i] = "lead"] /\ age' = [age EXCEPT ![i] = 0]
               /\ leader' = [leader EXCEPT ![i] = TRUE] /\ NewTicker(i)
      <4>1. leader' \in [Controllers -> BOOLEAN] BY <3>5, FlagType, Zenon
      <4> QED BY <1>0, <2>5, <3>1, <3>5, <3>3, <4>1, Zenon DEF ReadReply
    <3> QED BY <2>5, <3>2, <3>4, <3>5, Zenon DEF ReadReply
  <2> QED BY <1>5, <2>1, <2>2, <2>3, <2>4, <2>5, Zenon DEF ElectorStep
<1>6. ASSUME NEW i \in Controllers, Execute(i) PROVE ElectionTypeOK'
  <2>1. sent' \in [Controllers -> Seq({"set", "expire", "del"})]
    BY <1>6 DEF Execute
  <2>2. \A r \in {"OK", "nil", "one", "zero"} : Reply(i, r) =>
          replies' \in [Controllers -> Seq({"OK", "nil", "one", "zero"})]
    BY DEF Reply
  <2>3. /\ replies' \in [Controllers -> Seq({"OK", "nil", "one", "zero"})]
        /\ ttl' \in 0 .. Lease /\ holder' \in Controllers \cup {None}
    BY <1>6, <2>2 DEF Execute, RedisSet, RedisExpire, RedisDel
  <2> QED BY <1>6, <2>1, <2>3, Zenon DEF Execute
<1>7. ASSUME NEW i \in Controllers, StartElector(i) \/ CancelRoot(i)
      PROVE  ElectionTypeOK'
  <2>1. CASE StartElector(i) BY <2>1, Zenon DEF StartElector
  <2>2. CASE CancelRoot(i)
    <3>1. cancelled' \in [Controllers -> BOOLEAN]
      BY <2>2, FlagType, Zenon DEF CancelRoot
    <3> QED BY <2>2, <3>1 DEF CancelRoot, Spend
  <2> QED BY <1>7, <2>1, <2>2, Zenon
<1>8. ASSUME NEW i \in Controllers, CallTimeout(i) PROVE ElectionTypeOK'
  <2>1. /\ conn' \in [Controllers -> {"none", "open", "half", "broken"}]
        /\ sent' \in [Controllers -> Seq({"set", "expire", "del"})]
        /\ replies' \in [Controllers -> Seq({"OK", "nil", "one", "zero"})]
    <3>1. CASE "late" \in Faults BY <1>8, <3>1 DEF CallTimeout
    <3>2. CASE "late" \notin Faults
      <4>1. /\ conn' = [conn EXCEPT ![i] = "broken"]
            /\ sent' = [sent EXCEPT ![i] = <<>>]
            /\ replies' = [replies EXCEPT ![i] = <<>>]
        BY <1>8, <3>2, Zenon DEF CallTimeout
      <4> QED BY <4>1
    <3> QED BY <3>1, <3>2, Zenon
  <2>2. spent' \in 0 .. MaxFaults
    BY <1>8 DEF CallTimeout, Spend
  <2> QED BY <1>4, <1>8, <2>1, <2>2, Zenon DEF CallTimeout
<1>9. ASSUME NEW i \in Controllers, EndProcess(i) PROVE ElectionTypeOK'
  <2>1. /\ leader' \in [Controllers -> BOOLEAN]
        /\ cancelled' \in [Controllers -> BOOLEAN]
    BY <1>9, FlagType, Zenon DEF EndProcess
  <2>2. spent' \in 0 .. MaxFaults
    BY <1>9 DEF EndProcess, Spend
  <2> QED BY <1>0, <1>9, <2>1, <2>2, SMTT(20), Z3T(20) DEF EndProcess
<1>10. ASSUME NEW i \in Controllers, ConnLost(i) PROVE ElectionTypeOK'
  <2>1. /\ conn' \in [Controllers -> {"none", "open", "half", "broken"}]
        /\ spent' \in 0 .. MaxFaults
    <3>1. PICK x \in {"half", "broken"} : conn' = [conn EXCEPT ![i] = x]
      BY <1>10, Zenon DEF ConnLost
    <3>2. spent' \in 0 .. MaxFaults BY <1>10 DEF ConnLost, Spend
    <3> QED BY <3>1, <3>2
  <2> QED BY <1>10, <2>1 DEF ConnLost
<1> QED BY <1>1, <1>2, <1>5, <1>6, <1>7, <1>8, <1>9, <1>10, Zenon DEF ElectionNext

-----------------------------------------------------------------------------
(* The lease. *)

\* A step leaves elector j and its connection alone, and its lease if it has
\* one is not cut short.
Apart(j) ==
  /\ pc'[j] = pc[j] /\ leader'[j] = leader[j]
  /\ phase'[j] = phase[j] /\ ready'[j] = ready[j] /\ age'[j] = age[j]
  /\ conn'[j] = conn[j] /\ sent'[j] = sent[j] /\ replies'[j] = replies[j]
  /\ Owns(j) => Owns(j)' /\ ttl' >= ttl

\* The invariant of an elector that a step leaves alone.
LEMMA ApartKeeps ==
  ASSUME ElectionTypeOK, ElectionTypeOK', NEW j \in Controllers,
         PipeInv(j), TermInv(j), Apart(j)
  PROVE  PipeInv(j)' /\ TermInv(j)'
<1> USE LeaseType, TimesAssumption DEF Apart
<1>1. PipeInv(j)'
  BY DEF PipeInv
<1>2. TermInv(j)'
  <2>1. /\ ttl \in Nat /\ ttl' \in Nat /\ age[j] \in Nat /\ phase[j] \in Nat
    BY DEF ElectionTypeOK
  <2> QED BY <2>1 DEF TermInv
<1> QED BY <1>1, <1>2

\* Redis executes a command: only the sender can gain, extend or lose a
\* lease by it, and a lease begins no earlier than its command was written.
LEMMA LeaseExecute ==
  ASSUME ElectionTypeOK, ElectionTypeOK', LeaseInv, NEW i \in Controllers, Execute(i)
  PROVE  LeaseInv'
<1> USE LeaseType, TimesAssumption
<1>1. pc' = pc /\ leader' = leader /\ phase' = phase /\ ready' = ready
      /\ age' = age /\ conn' = conn
  BY DEF Execute, tickerVars
<1>2. /\ pc[i] \in Calls /\ conn[i] = "open"
      /\ sent[i] = <<Command[pc[i]]>> /\ replies[i] = <<>>
  BY DEF Execute, LeaseInv, PipeInv
<1>3. sent'[i] = <<>>
  BY <1>2 DEF Execute, ElectionTypeOK
<1>4. ASSUME NEW j \in Controllers, j # i PROVE PipeInv(j)' /\ TermInv(j)'
  <2>1. sent'[j] = sent[j] /\ replies'[j] = replies[j]
    <3>1. sent'[j] = sent[j]
      BY <1>4 DEF Execute, ElectionTypeOK
    <3>2. PICK r : replies' = [replies EXCEPT ![i] = Append(@, r)]
      BY Zenon DEF Execute, RedisSet, RedisExpire, RedisDel, Reply
    <3>3. replies'[j] = replies[j]
      BY <1>4, <3>2 DEF ElectionTypeOK
    <3> QED BY <3>1, <3>3
  <2>2. Owns(j) => Owns(j)' /\ ttl' >= ttl
    BY <1>4, SMTT(20), Z3T(20)
    DEF Execute, RedisSet, RedisExpire, RedisDel, Owns, keyVars, ElectionTypeOK
  <2> QED BY <1>1, <2>1, <2>2, ApartKeeps, Zenon DEF Apart, LeaseInv
<1>5. PipeInv(i)' /\ TermInv(i)'
  <2>1. CASE pc[i] \in {"first", "again"}
    <3>1. Head(sent[i]) = "set"
      BY <1>2, <2>1 DEF Command
    <3>2. \/ replies'[i] = <<"OK">> /\ Owns(i)' /\ ttl' = Lease
          \/ replies'[i] = <<"nil">>
      BY <1>2, <3>1 DEF Execute, RedisSet, Reply, Owns, ElectionTypeOK
    <3>3. age[i] \in Nat /\ ~leader[i]
      <4>1. age[i] \in Nat BY DEF ElectionTypeOK
      <4>2. ~leader[i] BY <2>1, Zenon DEF LeaseInv, TermInv
      <4> QED BY <4>1, <4>2
    <3> QED BY <1>1, <1>2, <1>3, <2>1, <3>2, <3>3 DEF PipeInv, TermInv
  <2>2. CASE pc[i] = "refresh"
    <3>1. Head(sent[i]) = "expire"
      BY <1>2, <2>2 DEF Command
    <3>2. leader[i] /\ Owns(i) /\ phase[i] < RefreshEvery
      BY <2>2 DEF LeaseInv, TermInv
    <3>3. replies'[i] = <<"one">> /\ Owns(i)' /\ ttl' = Lease
      BY <1>2, <3>1, <3>2 DEF Execute, RedisExpire, Reply, Owns, ElectionTypeOK
    <3>4. age[i] \in Nat
      BY DEF ElectionTypeOK
    <3> QED BY <1>1, <1>2, <1>3, <2>2, <3>2, <3>3, <3>4 DEF PipeInv, TermInv
  <2>3. CASE pc[i] = "release"
    <3>1. Head(sent[i]) = "del"
      BY <1>2, <2>3 DEF Command
    <3>2. replies'[i] = <<"one">> \/ replies'[i] = <<"zero">>
      BY <1>2, <3>1 DEF Execute, RedisDel, Reply, ElectionTypeOK
    <3> QED BY <1>1, <1>2, <1>3, <2>3, <3>2 DEF PipeInv, TermInv
  <2> QED BY <1>2, <2>1, <2>2, <2>3 DEF Calls
<1> QED BY <1>4, <1>5 DEF LeaseInv

\* A second passes: what a lease loses, its call or its ticker has gained,
\* and a leader refreshes before it is too late.
LEMMA LeaseTick ==
  ASSUME Timely, ElectionTypeOK, ElectionTypeOK', LeaseInv, Tick
  PROVE  LeaseInv'
<1> USE LeaseType, TimesAssumption
<1> SUFFICES ASSUME NEW i \in Controllers PROVE PipeInv(i)' /\ TermInv(i)'
  BY DEF LeaseInv
<1>1. /\ pc' = pc /\ leader' = leader /\ conn' = conn
      /\ sent' = sent /\ replies' = replies
  BY DEF Tick, connVars
<1>2. PipeInv(i) /\ TermInv(i) /\ Quiet(i)
  BY DEF LeaseInv, Tick
<1>3. PipeInv(i)'
  BY <1>1, <1>2 DEF PipeInv
<1>4. /\ ttl \in Nat /\ age[i] \in Nat /\ phase[i] \in Nat
  BY DEF ElectionTypeOK
<1>5. ASSUME Owns(i), ttl > 1 PROVE Owns(i)' /\ ttl' = ttl - 1
  BY <1>4, <1>5 DEF Owns, Tick
<1>6. ASSUME pc[i] \in Calls PROVE age'[i] = age[i] + 1 /\ age[i] < IOTimeout
  BY <1>2, <1>6 DEF Tick, Quiet
<1>7. CASE pc[i] = "lead"
  <2>1. /\ ~ready[i] /\ leader[i] /\ Owns(i) /\ phase[i] < RefreshEvery
        /\ ttl + IOTimeout + phase[i] >= Lease
    BY <1>2, <1>7 DEF TermInv, Quiet
  <2>2. ttl > 1
    BY <1>4, <2>1 DEF Timely
  <2>3. Period(i) = RefreshEvery
    BY <1>7 DEF Period
  <2>4. \/ phase'[i] = 0 /\ ready'[i] /\ phase[i] + 1 >= RefreshEvery
        \/ phase'[i] = phase[i] + 1 /\ ~ready'[i] /\ phase[i] + 1 < RefreshEvery
    <3>1. CASE Fires(i)
      <4>1. phase'[i] = 0 BY <3>1 DEF Tick
      <4>2. ready'[i] BY <3>1, Zenon DEF Tick
      <4> QED BY <2>3, <3>1, <4>1, <4>2 DEF Fires
    <3>2. CASE ~Fires(i)
      <4>1. phase'[i] = phase[i] + 1 BY <2>3, <3>2 DEF Tick
      <4>2. ~ready'[i] BY <2>1, <3>2, Zenon DEF Tick
      <4> QED BY <1>4, <2>3, <3>2, <4>1, <4>2 DEF Fires
    <3> QED BY <3>1, <3>2
  <2>5. Owns(i)' /\ ttl' = ttl - 1
    BY <1>5, <2>1, <2>2
  <2>6. phase'[i] < RefreshEvery
    BY <2>4
  <2>7. ttl' + IOTimeout + (IF ready'[i] THEN RefreshEvery ELSE phase'[i]) >= Lease
    <3>1. CASE ready'[i]
      <4>1. ttl' + IOTimeout + RefreshEvery >= Lease
        BY <1>4, <2>1, <2>5
      <4> QED BY <3>1, <4>1
    <3>2. CASE ~ready'[i]
      <4>1. ttl' + IOTimeout + phase'[i] >= Lease
        BY <1>4, <2>1, <2>4, <2>5, <3>2
      <4> QED BY <3>2, <4>1
    <3> QED BY <3>1, <3>2
  <2> QED BY <1>1, <1>3, <1>7, <2>1, <2>5, <2>6, <2>7, Zenon DEF TermInv
<1>8. CASE pc[i] = "refresh"
  <2>1. /\ leader[i] /\ Owns(i) /\ phase[i] < RefreshEvery
        /\ ttl + IOTimeout + RefreshEvery + age[i] >= Lease
        /\ replies[i] = <<"one">> => ttl + age[i] >= Lease
    BY <1>2, <1>8 DEF TermInv
  <2>2. age'[i] = age[i] + 1 /\ age[i] < IOTimeout
    BY <1>6, <1>8 DEF Calls
  <2>3. ttl > 1
    BY <1>4, <2>1, <2>2 DEF Timely
  <2>4. phase'[i] < RefreshEvery
    BY <1>4, <1>8 DEF Tick, Fires, Period
  <2>5. Owns(i)' /\ ttl' = ttl - 1
    BY <1>5, <2>1, <2>3
  <2>6. /\ ttl' + IOTimeout + RefreshEvery + age'[i] >= Lease
        /\ replies[i] = <<"one">> => ttl' + age'[i] >= Lease
    BY <1>4, <2>1, <2>2, <2>5
  <2> QED BY <1>1, <1>3, <1>8, <2>1, <2>4, <2>5, <2>6, Zenon DEF TermInv
<1>9. CASE pc[i] \in {"first", "again"}
  <2>1. age'[i] = age[i] + 1 /\ age[i] < IOTimeout
    BY <1>6, <1>9 DEF Calls
  <2>2. ASSUME replies[i] = <<"OK">>
        PROVE  Owns(i)' /\ ttl' = ttl - 1 /\ ttl + age[i] >= Lease
    <3>1. Owns(i) /\ ttl + age[i] >= Lease
      BY <1>2, <1>9, <2>2 DEF TermInv
    <3>2. ttl > 1
      BY <1>4, <2>1, <3>1 DEF Timely
    <3> QED BY <1>5, <3>1, <3>2
  <2>3. replies[i] = <<"OK">> => Owns(i)' /\ ttl' + age'[i] >= Lease
    BY <1>4, <2>1, <2>2
  <2> QED BY <1>1, <1>2, <1>3, <1>9, <2>3, Zenon DEF TermInv
<1>10. CASE pc[i] \notin {"lead", "refresh", "first", "again"}
  <2>1. pc[i] # "lead" /\ pc[i] # "refresh" /\ ~(pc[i] \in {"first", "again"})
    BY <1>10
  <2>2. leader'[i] => pc'[i] \in {"lead", "refresh", "release"}
    BY <1>1, <1>2, Zenon DEF TermInv
  <2> QED BY <1>1, <2>1, <2>2, <1>3, Zenon DEF TermInv
<1> QED BY <1>3, <1>7, <1>8, <1>9, <1>10

\* A step of elector i leaves every other elector alone.
LEMMA LeaseOthers ==
  ASSUME ElectionTypeOK, ElectionTypeOK', LeaseInv, NEW i \in Controllers,
         UNCHANGED keyVars,
         \A j \in Controllers \ {i} :
           /\ pc'[j] = pc[j] /\ leader'[j] = leader[j]
           /\ phase'[j] = phase[j] /\ ready'[j] = ready[j] /\ age'[j] = age[j]
           /\ conn'[j] = conn[j] /\ sent'[j] = sent[j] /\ replies'[j] = replies[j],
         PipeInv(i)', TermInv(i)'
  PROVE  LeaseInv'
<1>1. ASSUME NEW j \in Controllers, j # i PROVE PipeInv(j)' /\ TermInv(j)'
  <2>1. Owns(j) => Owns(j)' /\ ttl' >= ttl
    BY DEF Owns, keyVars, ElectionTypeOK
  <2>2. Apart(j)
    BY <1>1, <2>1 DEF Apart
  <2> QED BY <2>2, ApartKeeps DEF LeaseInv
<1> QED BY <1>1 DEF LeaseInv

\* A command is written: the connection carried nothing before.
LEMMA LeaseBegin ==
  ASSUME ElectionTypeOK, ElectionTypeOK', LeaseInv,
         NEW i \in Controllers, NEW call \in Calls, Begin(i, call),
         pc[i] \notin Calls,
         call \in {"first", "again"} => ~leader[i],
         call = "refresh" => pc[i] = "lead" /\ ready[i]
  PROVE  LeaseInv'
<1> USE LeaseType, TimesAssumption
<1>1. /\ pc'[i] = call /\ age'[i] = 0 /\ leader' = leader /\ phase' = phase
      /\ replies' = replies /\ UNCHANGED keyVars
  BY DEF Begin, ElectionTypeOK
<1>2. sent[i] = <<>> /\ replies[i] = <<>>
  BY DEF LeaseInv, PipeInv
<1>3. \/ conn'[i] = "open" /\ sent'[i] = <<Command[call]>>
      \/ conn'[i] # "open" /\ sent'[i] = <<>>
  BY <1>2 DEF Begin, ElectionTypeOK
<1>4. PipeInv(i)'
  BY <1>1, <1>2, <1>3, Zenon DEF PipeInv
<1>5. TermInv(i)'
  <2>1. replies'[i] # <<"OK">> /\ replies'[i] # <<"one">>
    BY <1>1, <1>2
  <2>2. CASE call = "refresh"
    <3>1. leader[i] /\ Owns(i) /\ phase[i] < RefreshEvery
      BY <2>2, Zenon DEF LeaseInv, TermInv
    <3>2. ttl + IOTimeout + RefreshEvery >= Lease
      <4>1. ttl + IOTimeout + (IF ready[i] THEN RefreshEvery ELSE phase[i]) >= Lease
        BY <2>2, Zenon DEF LeaseInv, TermInv
      <4> QED BY <2>2, <4>1
    <3>3. Owns(i)' /\ ttl' = ttl /\ ttl \in Nat
      BY <1>1, <3>1 DEF Owns, keyVars, ElectionTypeOK
    <3>4. ttl' + IOTimeout + RefreshEvery + age'[i] >= Lease
      BY <1>1, <3>2, <3>3
    <3> QED BY <1>1, <2>1, <2>2, <3>1, <3>3, <3>4 DEF TermInv
  <2>3. CASE call \in {"first", "again"}
    BY <1>1, <2>1, <2>3 DEF TermInv
  <2>4. CASE call = "release"
    BY <1>1, <2>1, <2>4 DEF TermInv
  <2> QED BY <2>2, <2>3, <2>4 DEF Calls
<1>6. ASSUME NEW j \in Controllers \ {i}
      PROVE  /\ pc'[j] = pc[j] /\ age'[j] = age[j] /\ ready'[j] = ready[j]
             /\ conn'[j] = conn[j] /\ sent'[j] = sent[j]
  <2>1. pc'[j] = pc[j] /\ age'[j] = age[j]
    BY <1>6 DEF Begin, ElectionTypeOK
  <2>2. ready'[j] = ready[j]
    BY <1>6, Zenon DEF Begin, ElectionTypeOK
  <2>3. conn'[j] = conn[j] /\ sent'[j] = sent[j]
    BY <1>6 DEF Begin, ElectionTypeOK
  <2> QED BY <2>1, <2>2, <2>3
<1> QED BY <1>1, <1>4, <1>5, <1>6, LeaseOthers, Zenon

\* A call comes back without the lease: the elector does not lead, or has
\* yet to learn that it may stop.
LEMMA LeaseFailed ==
  ASSUME ElectionTypeOK, ElectionTypeOK', LeaseInv, NEW i \in Controllers,
         Failed(i), UNCHANGED keyVars,
         sent'[i] = <<>>, replies'[i] = <<>>,
         \A j \in Controllers \ {i} :
           conn'[j] = conn[j] /\ sent'[j] = sent[j] /\ replies'[j] = replies[j]
  PROVE  LeaseInv'
<1>1. pc'[i] \in {"poll", "try", "stopped"} /\ ~leader'[i]
  <2>1. pc'[i] \in {"poll", "try", "stopped"} BY DEF Failed, ElectionTypeOK
  <2>2. ~leader'[i] BY Zenon DEF Failed, ElectionTypeOK
  <2> QED BY <2>1, <2>2
<1>2. PipeInv(i)' /\ TermInv(i)'
  BY <1>1 DEF PipeInv, TermInv, Calls
<1>3. ASSUME NEW j \in Controllers \ {i}
      PROVE  /\ pc'[j] = pc[j] /\ leader'[j] = leader[j] /\ age'[j] = age[j]
             /\ phase'[j] = phase[j] /\ ready'[j] = ready[j]
  <2>1. leader'[j] = leader[j]
    BY <1>3, Zenon DEF Failed, ElectionTypeOK
  <2>2. pc'[j] = pc[j] /\ age'[j] = age[j]
    BY <1>3, Zenon DEF Failed, ElectionTypeOK
  <2>3. phase'[j] = phase[j]
    BY <1>3, Zenon DEF Failed, NewTicker, tickerVars, ElectionTypeOK
  <2>4. ready'[j] = ready[j]
    BY <1>3, Zenon DEF Failed, NewTicker, tickerVars, ElectionTypeOK
  <2> QED BY <2>1, <2>2, <2>3, <2>4
<1> QED BY <1>2, <1>3, LeaseOthers

\* A reply is read: it answers this call, so what it says of the lease is
\* true, and the call took no longer than its deadline.
LEMMA LeaseReply ==
  ASSUME ElectionTypeOK, ElectionTypeOK', LeaseInv,
         NEW i \in Controllers, ReadReply(i)
  PROVE  LeaseInv'
<1> USE LeaseType, TimesAssumption
<1>1. PICK r \in {"OK", "nil", "one", "zero"} : sent[i] = <<>> /\ replies[i] = <<r>>
  BY DEF ReadReply, LeaseInv, PipeInv
<1>2. /\ UNCHANGED keyVars /\ conn' = conn /\ sent' = sent
      /\ replies' = [replies EXCEPT ![i] = Tail(@)]
  BY DEF ReadReply
<1>3. /\ sent'[i] = <<>> /\ replies'[i] = <<>>
      /\ \A j \in Controllers \ {i} : replies'[j] = replies[j]
  BY <1>1, <1>2 DEF ElectionTypeOK
<1>4. /\ ttl \in Nat /\ ttl' = ttl
      /\ Owns(i) => Owns(i)'
      /\ age[i] \in 0 .. IOTimeout
  BY <1>2 DEF ElectionTypeOK, keyVars, Owns
<1>5. CASE Failed(i)
  BY <1>2, <1>3, <1>5, LeaseFailed
<1>6. ASSUME Owns(i), ttl + age[i] >= Lease, leader'[i], phase'[i] \in Nat,
             phase'[i] < RefreshEvery, pc'[i] = "lead"
      PROVE  PipeInv(i)' /\ TermInv(i)'
  <2>0. ttl + age[i] >= Lease /\ phase'[i] \in Nat
    BY <1>6, Zenon
  <2>1. /\ ttl' + IOTimeout + RefreshEvery >= Lease
        /\ ttl' + IOTimeout + phase'[i] >= Lease
    BY <1>4, <2>0
  <2>2. ttl' + IOTimeout + (IF ready'[i] THEN RefreshEvery ELSE phase'[i]) >= Lease
    BY <2>1
  <2>3. TermInv(i)'
    <3>1. Owns(i)' /\ pc'[i] # "refresh" /\ ~(pc'[i] \in {"first", "again"})
          /\ pc'[i] \in {"lead", "refresh", "release"}
      BY <1>4, <1>6, Zenon
    <3> QED BY <1>6, <2>2, <3>1, Zenon DEF TermInv
  <2>4. PipeInv(i)'
    BY <1>3, <1>6, Zenon DEF PipeInv, Calls
  <2> QED BY <2>3, <2>4
<1>7. CASE /\ pc[i] \in {"first", "again"} /\ Head(replies[i]) = "OK"
           /\ leader' = [leader EXCEPT ![i] = TRUE]
           /\ pc' = [pc EXCEPT ![i] = "lead"]
           /\ age' = [age EXCEPT ![i] = 0]
           /\ NewTicker(i)
  <2>1. replies[i] = <<"OK">>
    BY <1>1, <1>7
  <2>2. Owns(i) /\ ttl + age[i] >= Lease
    BY <1>7, <2>1 DEF LeaseInv, TermInv
  <2>3. leader'[i]
    BY <1>7, Zenon DEF ElectionTypeOK
  <2>4. pc'[i] = "lead" /\ phase'[i] = 0
    BY <1>7 DEF ElectionTypeOK, NewTicker
  <2>5. PipeInv(i)' /\ TermInv(i)'
    BY <1>6, <2>2, <2>3, <2>4
  <2>6. ASSUME NEW j \in Controllers \ {i}
        PROVE  /\ pc'[j] = pc[j] /\ leader'[j] = leader[j] /\ age'[j] = age[j]
               /\ phase'[j] = phase[j] /\ ready'[j] = ready[j]
    <3>1. pc'[j] = pc[j] /\ age'[j] = age[j] /\ phase'[j] = phase[j]
      BY <1>7, <2>6 DEF ElectionTypeOK, NewTicker
    <3>2. leader'[j] = leader[j] /\ ready'[j] = ready[j]
      BY <1>7, <2>6, ZenonT(30) DEF ElectionTypeOK, NewTicker
    <3> QED BY <3>1, <3>2
  <2> QED BY <1>2, <1>3, <2>5, <2>6, LeaseOthers, Zenon
<1>8. CASE /\ pc[i] = "refresh" /\ Head(replies[i]) = "one"
           /\ pc' = [pc EXCEPT ![i] = "lead"]
           /\ age' = [age EXCEPT ![i] = 0]
           /\ UNCHANGED <<leader, tickerVars>>
  <2>1. replies[i] = <<"one">>
    BY <1>1, <1>8
  <2>2. leader[i] /\ Owns(i) /\ ttl + age[i] >= Lease /\ phase[i] < RefreshEvery
    BY <1>8, <2>1 DEF LeaseInv, TermInv
  <2>3. leader' = leader /\ phase' = phase /\ ready' = ready
    BY <1>8 DEF tickerVars
  <2>4. pc'[i] = "lead" /\ phase[i] \in Nat
    BY <1>8 DEF ElectionTypeOK
  <2>5. PipeInv(i)' /\ TermInv(i)'
    BY <1>6, <2>2, <2>3, <2>4, Zenon
  <2>6. \A j \in Controllers \ {i} : pc'[j] = pc[j] /\ age'[j] = age[j]
    BY <1>8 DEF ElectionTypeOK
  <2> QED BY <1>2, <1>3, <2>3, <2>5, <2>6, LeaseOthers, Zenon
<1> QED BY <1>5, <1>7, <1>8, Zenon DEF ReadReply

\* The connection, or the process with its connection, is lost.
LEMMA LeaseLost ==
  ASSUME ElectionTypeOK, ElectionTypeOK', LeaseInv,
         NEW i \in Controllers, ConnLost(i) \/ EndProcess(i)
  PROVE  LeaseInv'
<1> USE LeaseType, TimesAssumption
<1>1. /\ UNCHANGED keyVars
      /\ sent' = [sent EXCEPT ![i] = <<>>] /\ replies' = [replies EXCEPT ![i] = <<>>]
      /\ \E x \in {"none", "half", "broken"} : conn' = [conn EXCEPT ![i] = x]
  BY Zenon DEF ConnLost, EndProcess
<1>2. /\ sent'[i] = <<>> /\ replies'[i] = <<>> /\ conn'[i] # "open"
      /\ \A j \in Controllers \ {i} :
           conn'[j] = conn[j] /\ sent'[j] = sent[j] /\ replies'[j] = replies[j]
  BY <1>1 DEF ElectionTypeOK
<1>3. PipeInv(i)'
  BY <1>2 DEF PipeInv
<1>4. CASE ConnLost(i)
  <2>1. /\ pc' = pc /\ leader' = leader /\ phase' = phase /\ ready' = ready /\ age' = age
    BY <1>4, Zenon DEF ConnLost, tickerVars
  <2>2. TermInv(i)'
    <3>1. TermInv(i)
      BY DEF LeaseInv
    <3>2. ttl' = ttl /\ (Owns(i)' <=> Owns(i))
      BY <1>1 DEF keyVars, Owns
    <3>3. replies'[i] # <<"OK">> /\ replies'[i] # <<"one">>
      BY <1>2
    <3> QED BY <2>1, <3>1, <3>2, <3>3 DEF TermInv
  <2> QED BY <1>1, <1>2, <1>3, <2>1, <2>2, LeaseOthers
<1>5. CASE EndProcess(i)
  <2>1. pc'[i] = "down"
    BY <1>5 DEF EndProcess, ElectionTypeOK
  <2>2. ~leader'[i]
    BY <1>5, Zenon DEF EndProcess, ElectionTypeOK
  <2>3. TermInv(i)'
    BY <2>1, <2>2, Zenon DEF TermInv
  <2>4. ASSUME NEW j \in Controllers \ {i}
        PROVE  /\ pc'[j] = pc[j] /\ leader'[j] = leader[j] /\ age'[j] = age[j]
               /\ phase'[j] = phase[j] /\ ready'[j] = ready[j]
    <3>1. pc'[j] = pc[j] /\ age'[j] = age[j] /\ phase'[j] = phase[j]
      BY <1>5, <2>4 DEF EndProcess, NewTicker, ElectionTypeOK
    <3>2. leader' = [leader EXCEPT ![i] = FALSE] /\ ready' = [ready EXCEPT ![i] = FALSE]
      BY <1>5, Zenon DEF EndProcess, NewTicker
    <3>3. leader'[j] = leader[j] /\ ready'[j] = ready[j]
      BY <2>4, <3>2, Zenon DEF ElectionTypeOK
    <3> QED BY <3>1, <3>3
  <2> QED BY <1>1, <1>2, <1>3, <2>3, <2>4, LeaseOthers, Zenon
<1> QED BY <1>4, <1>5

\* Every step keeps the invariant: no reply is left behind on a connection
\* that stays open, and a leader's lease outlasts its next refresh.
LEMMA LeaseSteps ==
  ASSUME "late" \notin Faults, Timely, ElectionTypeOK, LeaseInv,
         [ElectionNext]_electionVars
  PROVE  LeaseInv'
<1>0. ElectionTypeOK'
  BY ElectionTypes
<1>1. CASE UNCHANGED electionVars
  <2>1. UNCHANGED <<holder, ttl, pc, leader, phase, ready, age, conn, sent, replies>>
    BY <1>1 DEF electionVars, keyVars, tickerVars, connVars
  <2>2. \A i \in Controllers : PipeInv(i)' <=> PipeInv(i)
    BY <2>1 DEF PipeInv
  <2>3. \A i \in Controllers : TermInv(i)' <=> TermInv(i)
    BY <2>1 DEF TermInv, Owns
  <2> QED BY <2>2, <2>3 DEF LeaseInv
<1>2. CASE Tick
  BY <1>0, <1>2, LeaseTick
<1>3. ASSUME NEW i \in Controllers, ElectorStep(i) PROVE LeaseInv'
  <2>0. leader[i] => pc[i] \in {"lead", "refresh", "release"}
    BY Zenon DEF LeaseInv, TermInv
  <2>1. CASE TryAcquire(i)
    <3>1. CASE pc[i] = "try" /\ Begin(i, "first")
      BY <1>0, <2>0, <3>1, LeaseBegin DEF Calls
    <3>2. CASE pc[i] = "poll" /\ Begin(i, "again")
      BY <1>0, <2>0, <3>2, LeaseBegin DEF Calls
    <3> QED BY <2>1, <3>1, <3>2 DEF TryAcquire
  <2>2. CASE Refresh(i)
    BY <1>0, <2>2, LeaseBegin DEF Refresh, Calls
  <2>3. CASE Stop(i)
    <3>1. pc[i] \notin Calls
      BY <2>3 DEF Stop, Calls
    <3>2. CASE Begin(i, "release")
      BY <1>0, <3>1, <3>2, LeaseBegin DEF Calls
    <3>3. CASE /\ ~leader[i] /\ pc' = [pc EXCEPT ![i] = "stopped"] /\ NewTicker(i)
               /\ UNCHANGED <<keyVars, leader, cancelled, age, connVars, spent>>
      <4>1. /\ UNCHANGED keyVars /\ leader' = leader /\ age' = age
            /\ conn' = conn /\ sent' = sent /\ replies' = replies
        BY <3>3 DEF connVars
      <4>2. pc'[i] = "stopped"
        BY <3>3 DEF ElectionTypeOK
      <4>3. sent[i] = <<>> /\ replies[i] = <<>>
        BY <3>1 DEF LeaseInv, PipeInv
      <4>4. PipeInv(i)'
        BY <4>1, <4>2, <4>3 DEF PipeInv, Calls
      <4>5. TermInv(i)'
        BY <3>3, <4>1, <4>2 DEF TermInv
      <4>6. ASSUME NEW j \in Controllers \ {i}
            PROVE  pc'[j] = pc[j] /\ phase'[j] = phase[j] /\ ready'[j] = ready[j]
        <5>1. pc'[j] = pc[j] /\ phase'[j] = phase[j]
          BY <3>3, <4>6 DEF ElectionTypeOK, NewTicker
        <5>2. ready'[j] = ready[j]
          BY <3>3, <4>6, Zenon DEF ElectionTypeOK, NewTicker
        <5> QED BY <5>1, <5>2
      <4> QED BY <1>0, <4>1, <4>4, <4>5, <4>6, LeaseOthers
    <3> QED BY <2>3, <3>2, <3>3, Zenon DEF Stop
  <2>4. CASE CallError(i)
    <3>1. sent[i] = <<>> /\ replies[i] = <<>>
      BY <2>4 DEF CallError, LeaseInv, PipeInv
    <3>2. /\ sent' = sent /\ replies' = replies /\ UNCHANGED keyVars /\ Failed(i)
          /\ \A j \in Controllers \ {i} : conn'[j] = conn[j]
      BY <2>4 DEF CallError, ElectionTypeOK
    <3> QED BY <1>0, <3>1, <3>2, LeaseFailed
  <2>5. CASE ReadReply(i)
    BY <1>0, <2>5, LeaseReply
  <2> QED BY <1>3, <2>1, <2>2, <2>3, <2>4, <2>5 DEF ElectorStep
<1>4. ASSUME NEW i \in Controllers, StartElector(i) PROVE LeaseInv'
  <2>1. /\ pc[i] = "down" /\ pc' = [pc EXCEPT ![i] = "try"]
        /\ UNCHANGED keyVars /\ leader' = leader /\ age' = age
        /\ phase' = phase /\ ready' = ready
        /\ conn' = conn /\ sent' = sent /\ replies' = replies
    BY <1>4 DEF StartElector, connVars, tickerVars
  <2>2. pc'[i] = "try" /\ \A j \in Controllers \ {i} : pc'[j] = pc[j]
    BY <2>1 DEF ElectionTypeOK
  <2>3. PipeInv(i)'
    BY <2>1, <2>2 DEF LeaseInv, PipeInv, Calls
  <2>4. TermInv(i)'
    BY <2>1, <2>2 DEF LeaseInv, TermInv
  <2> QED BY <1>0, <2>1, <2>2, <2>3, <2>4, LeaseOthers
<1>5. ASSUME NEW i \in Controllers, CancelRoot(i) PROVE LeaseInv'
  <2>1. /\ pc' = pc /\ UNCHANGED keyVars /\ leader' = leader /\ age' = age
        /\ phase' = phase /\ ready' = ready
        /\ conn' = conn /\ sent' = sent /\ replies' = replies
    BY <1>5 DEF CancelRoot, connVars, tickerVars
  <2>2. PipeInv(i)'
    BY <2>1 DEF LeaseInv, PipeInv
  <2>3. TermInv(i)'
    BY <2>1 DEF LeaseInv, TermInv, Owns, keyVars
  <2> QED BY <1>0, <2>1, <2>2, <2>3, LeaseOthers, Zenon
<1>6. ASSUME NEW i \in Controllers, CallTimeout(i) PROVE LeaseInv'
  <2>1. /\ UNCHANGED keyVars /\ Failed(i)
        /\ conn' = [conn EXCEPT ![i] = "broken"]
        /\ sent' = [sent EXCEPT ![i] = <<>>] /\ replies' = [replies EXCEPT ![i] = <<>>]
    BY <1>6, Zenon DEF CallTimeout
  <2>2. /\ sent'[i] = <<>> /\ replies'[i] = <<>>
        /\ \A j \in Controllers \ {i} :
             conn'[j] = conn[j] /\ sent'[j] = sent[j] /\ replies'[j] = replies[j]
    BY <2>1 DEF ElectionTypeOK
  <2> QED BY <1>0, <2>1, <2>2, LeaseFailed
<1> QED
  BY <1>0, <1>1, <1>2, <1>3, <1>4, <1>5, <1>6, LeaseExecute, LeaseLost DEF ElectionNext

\* The variables of the electors, their connections and the key keep their
\* types, whatever fails and whenever replies arrive.
THEOREM ElectionTyping == ElectionSpec => []ElectionTypeOK
<1>1. ElectionInit => ElectionTypeOK
  BY LeaseType, TimesAssumption, ElectionAssumption DEF ElectionInit, ElectionTypeOK
<1> QED BY <1>1, ElectionTypes, PTL DEF ElectionSpec

\* If no reply outlives its deadline and the lease covers two deadlines and
\* a refresh period, RedisLocker.do always reads the reply to its own command
\* and the Elector's lease outlasts its next refresh.
THEOREM LeaseInvariance ==
  ASSUME "late" \notin Faults, Timely
  PROVE  ElectionSpec => []LeaseInv
<1>1. ElectionInit => LeaseInv
  <2> SUFFICES ASSUME ElectionInit, NEW i \in Controllers PROVE PipeInv(i) /\ TermInv(i)
    BY Zenon DEF LeaseInv
  <2>1. pc[i] = "down" /\ sent[i] = <<>> /\ replies[i] = <<>> /\ conn[i] = "none"
    BY DEF ElectionInit
  <2>2. ~leader[i]
    BY Zenon DEF ElectionInit
  <2> QED BY <2>1, <2>2 DEF PipeInv, TermInv
<1>2. ElectionTypeOK /\ LeaseInv /\ [ElectionNext]_electionVars => LeaseInv'
  BY LeaseSteps
<1> QED BY <1>1, <1>2, ElectionTyping, PTL DEF ElectionSpec

\* Elector.IsLeader tells the truth under the same conditions: a controller
\* for which it is true, and which is not releasing, holds the key.
THEOREM LeaderSafety ==
  ASSUME "late" \notin Faults, Timely
  PROVE  ElectionSpec => []LeaderHoldsLease
<1>1. LeaseInv => LeaderHoldsLease
  BY DEF LeaseInv, TermInv, LeaderHoldsLease
<1> QED BY <1>1, LeaseInvariance, PTL

-----------------------------------------------------------------------------
(* The electors implement LeaderLock. *)

\* A step of one elector that leaves the key alone: it begins to lead only
\* with the key in its hands, or stops leading.
LEMMA LockOwnStep ==
  ASSUME ElectionTypeOK', LeaseInv', NEW i \in Controllers, UNCHANGED keyVars,
         \A j \in Controllers \ {i} : pc'[j] = pc[j] /\ leader'[j] = leader[j]
  PROVE  [Lock!LockNext]_(Lock!lockVars)
<1>1. Key' = Key
  BY DEF Key, keyVars
<1>2. \A j \in Controllers \ {i} : j \in Leading' <=> j \in Leading
  BY Zenon DEF Leading
<1>3. Leading' \subseteq Controllers /\ Leading \subseteq Controllers
  BY DEF Leading
<1>4. CASE i \in Leading'
  <2>1. Owns(i)'
    BY <1>4 DEF Leading, LeaseInv, TermInv
  <2>2. Key = i
    BY <1>1, <2>1 DEF Key, Owns
  <2>3. Leading' = Leading \cup {i}
    BY <1>2, <1>3, <1>4
  <2> QED BY <1>1, <2>2, <2>3 DEF Lock!LockNext, Lock!Lead
<1>5. CASE i \notin Leading'
  <2>1. Leading' = Leading \ {i}
    BY <1>2, <1>3, <1>5
  <2> QED BY <1>1, <2>1 DEF Lock!LockNext, Lock!Yield
<1> QED BY <1>4, <1>5

\* Redis gives out the key only when it is free, and takes it back only from
\* a controller that is releasing it.
LEMMA LockExecute ==
  ASSUME ElectionTypeOK, LeaseInv, NEW i \in Controllers, Execute(i)
  PROVE  [Lock!LockNext]_(Lock!lockVars)
<1> USE LeaseType
<1>1. Leading' = Leading
  BY DEF Execute, Leading
<1>2. CASE RedisSet(i)
  <2>1. CASE ttl = 0 /\ holder' = i /\ ttl' = Lease
    <3>1. Key = None /\ Key' = i
      BY <2>1 DEF Key
    <3> QED BY <1>1, <3>1 DEF Lock!LockNext, Lock!Take
  <2>2. CASE UNCHANGED keyVars
    BY <1>1, <2>2 DEF Lock!lockVars, Key, keyVars
  <2> QED BY <1>2, <2>1, <2>2 DEF RedisSet
<1>3. CASE RedisExpire(i)
  BY <1>1, <1>3 DEF RedisExpire, Lock!lockVars, Key, keyVars, Owns
<1>4. CASE Head(sent[i]) = "del" /\ RedisDel(i)
  <2>1. CASE Owns(i) /\ holder' = None /\ ttl' = 0
    <3>1. Key = i /\ Key' = None
      BY <2>1 DEF Key, Owns
    <3>2. pc[i] \in Calls /\ sent[i] = <<Command[pc[i]]>>
      BY DEF Execute, LeaseInv, PipeInv
    <3>3. pc[i] = "release"
      BY <1>4, <3>2 DEF Calls, Command
    <3>4. i \notin Leading
      BY <3>3 DEF Leading
    <3> QED BY <1>1, <3>1, <3>4 DEF Lock!LockNext, Lock!Lapse
  <2>2. CASE UNCHANGED keyVars
    BY <1>1, <2>2 DEF Lock!lockVars, Key, keyVars
  <2> QED BY <1>4, <2>1, <2>2 DEF RedisDel
<1> QED BY <1>2, <1>3, <1>4 DEF Execute

\* A lease runs out only when its holder does not lead.
LEMMA LockTick ==
  ASSUME ElectionTypeOK, LeaseInv', Tick
  PROVE  [Lock!LockNext]_(Lock!lockVars)
<1>1. Leading' = Leading
  BY DEF Tick, Leading
<1>2. Key' = Key \/ Key' = None
  BY DEF Tick, Key, ElectionTypeOK
<1>3. ASSUME Key' = None, Key # None
      PROVE  Key \notin Leading
  <2>1. ~(ttl' > 0)
    BY <1>3 DEF Tick, Key, ElectionTypeOK
  <2>2. \A j \in Controllers : j \notin Leading'
    BY <2>1 DEF LeaseInv, TermInv, Owns, Leading
  <2> QED BY <1>1, <2>2 DEF Leading
<1> QED BY <1>1, <1>2, <1>3 DEF Lock!LockNext, Lock!Lapse, Lock!lockVars

\* Every step of the electors, of Redis, of the network and of the clock is a
\* step of the lock, or none.
LEMMA LockStep ==
  ASSUME "late" \notin Faults, Timely, ElectionTypeOK, LeaseInv,
         [ElectionNext]_electionVars
  PROVE  [Lock!LockNext]_(Lock!lockVars)
<1>0. ElectionTypeOK' /\ LeaseInv'
  BY ElectionTypes, LeaseSteps
<1>1. CASE UNCHANGED electionVars
  BY <1>1 DEF electionVars, keyVars, Lock!lockVars, Key, Leading
<1>2. CASE Tick
  BY <1>0, <1>2, LockTick
<1>3. ASSUME NEW i \in Controllers,
             \/ ElectorStep(i) \/ StartElector(i) \/ CallTimeout(i)
             \/ CancelRoot(i) \/ EndProcess(i) \/ ConnLost(i)
      PROVE  [Lock!LockNext]_(Lock!lockVars)
  <2>1. UNCHANGED keyVars
    BY <1>3, Zenon
    DEF ElectorStep, TryAcquire, Refresh, Stop, Begin, CallError, ReadReply,
                StartElector, CallTimeout, CancelRoot, EndProcess, ConnLost
  <2>2. \A j \in Controllers \ {i} : pc'[j] = pc[j]
    BY <1>3, Zenon DEF ElectionTypeOK, ElectorStep, TryAcquire, Refresh, Stop, Begin,
                CallError, ReadReply, Failed, StartElector, CallTimeout, CancelRoot,
                EndProcess, ConnLost
  <2>3. \A j \in Controllers \ {i} : leader'[j] = leader[j]
    BY <1>3, Zenon DEF ElectionTypeOK, ElectorStep, TryAcquire, Refresh, Stop, Begin,
                CallError, ReadReply, Failed, StartElector, CallTimeout, CancelRoot,
                EndProcess, ConnLost
  <2> QED BY <1>0, <2>1, <2>2, <2>3, LockOwnStep
<1> QED BY <1>1, <1>2, <1>3, LockExecute DEF ElectionNext

\* Under the conditions of LeaseInvariance the electors, their connections
\* and Redis implement the lock that the controllers rely on.
THEOREM ElectionRefinement ==
  ASSUME "late" \notin Faults, Timely
  PROVE  ElectionSpec => ElectionIsLock
<1>1. ElectionInit => Lock!LockInit
  <2>1. ElectionInit => Key = None
    BY DEF ElectionInit, Key
  <2>2. ElectionInit => Leading = {}
    BY Zenon DEF ElectionInit, Leading
  <2> QED BY <2>1, <2>2 DEF Lock!LockInit
<1>2. ElectionTypeOK /\ LeaseInv /\ [ElectionNext]_electionVars =>
        [Lock!LockNext]_(Lock!lockVars)
  BY LockStep
<1> QED
  BY <1>1, <1>2, ElectionTyping, LeaseInvariance, PTL
  DEF ElectionSpec, ElectionIsLock, Lock!LockSpec
=============================================================================
