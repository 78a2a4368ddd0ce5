---------------------------- MODULE Coordinator ----------------------------
(***************************************************************************)
(* One background job of a cluster of identical replicas (system/cluster,  *)
(* the runScheduled loops of cmd/trilli and the operators' run-now         *)
(* endpoint).  Every replica's loop fires on its own timer; a caller that  *)
(* wins the job's Postgres advisory lock runs the job, the others skip.    *)
(* The lock belongs to a database session, so it is followed through the   *)
(* session's whole life: checked out of the node's pool, cut by the        *)
(* server, orphaned by a dead client until the server notices, returned.   *)
(***************************************************************************)
EXTENDS Integers, FiniteSets, TLAPS

CONSTANTS
  Nodes,
  Callers,      \* goroutines that call RunExclusive for this job
  Scheduled,    \* those that are runScheduled loops; the others are run-now requests
  Sessions,     \* database sessions of the nodes' connection pools
  HomeOf,       \* the node of a caller or of a session
  Interval,     \* the loop's period, in ticks
  InitialDelay, \* the loop's first delay, in ticks
  MaxFaults,    \* bound: sessions cut or lost, nodes crashed
  NONE

ASSUME CallersAssumption == Scheduled \subseteq Callers
ASSUME NoSessionAssumption == NONE \notin Sessions
ASSUME HomeAssumption == HomeOf \in [Callers \cup Sessions -> Nodes]
ASSUME TimesAssumption == Interval \in Nat \ {0} /\ InitialDelay \in Nat /\ MaxFaults \in Nat

VARIABLES
  up,       \* node -> its process is alive
  phase,    \* caller -> where it is in RunExclusive
  using,    \* caller -> the session it has checked out, or NONE
  sess,     \* session -> "free" (idle in its pool or not dialled), "inUse",
            \* "cut" (ended by the server while checked out), or
            \* "orphan" (its client is gone and the server has not noticed)
  owner,    \* the session that owns the advisory lock, or NONE
  due,      \* loop -> ticks until its timer fires
  lastNode, \* job_runs.last_node
  age,      \* history: ticks since a run began, up to Interval
  faults    \* counter for MaxFaults

vars == <<up, phase, using, sess, owner, due, lastNode, age, faults>>

TypeOK ==
  /\ up \in [Nodes -> BOOLEAN]
  /\ phase \in [Callers -> {"idle", "connecting", "locking", "running", "unlocking"}]
  /\ using \in [Callers -> Sessions \cup {NONE}]
  /\ sess \in [Sessions -> {"free", "inUse", "cut", "orphan"}]
  /\ owner \in Sessions \cup {NONE}
  /\ due \in [Scheduled -> Nat]
  /\ lastNode \in Nodes \cup {NONE}
  /\ age \in Nat /\ faults \in Nat

\* The replicas were started at different moments.
Init ==
  /\ up = [n \in Nodes |-> TRUE]
  /\ phase = [c \in Callers |-> "idle"]
  /\ using = [c \in Callers |-> NONE]
  /\ sess = [s \in Sessions |-> "free"]
  /\ owner = NONE
  /\ due \in [Scheduled -> 0..InitialDelay]
  /\ lastNode = NONE
  /\ age = Interval
  /\ faults = 0

----------------------------------------------------------------------------
Fault == faults < MaxFaults /\ faults' = faults + 1
Free(s) == IF owner = s THEN NONE ELSE owner    \* the lock once session s is gone

\* RunExclusive returns; a loop resets its timer.
Return(c) ==
  /\ phase' = [phase EXCEPT ![c] = "idle"]
  /\ using' = [using EXCEPT ![c] = NONE]
  /\ due' = IF c \in Scheduled THEN [due EXCEPT ![c] = Interval] ELSE due

\* The session goes back to its pool: whole, or discarded because it broke.
PutBack(c) == sess' = [sess EXCEPT ![using[c]] = "free"]

----------------------------------------------------------------------------
Fire(c) ==
  /\ c \in Scheduled /\ up[HomeOf[c]]
  /\ phase[c] = "idle" /\ due[c] = 0
  /\ phase' = [phase EXCEPT ![c] = "connecting"]
  /\ UNCHANGED <<up, using, sess, owner, due, lastNode, age, faults>>

RunNow(c) ==
  /\ c \notin Scheduled /\ up[HomeOf[c]]
  /\ phase[c] = "idle"
  /\ phase' = [phase EXCEPT ![c] = "connecting"]
  /\ UNCHANGED <<up, using, sess, owner, due, lastNode, age, faults>>

\* A dedicated connection, or an error.
Connect(c) ==
  /\ phase[c] = "connecting"
  /\ \/ \E s \in Sessions :
          /\ sess[s] = "free" /\ HomeOf[s] = HomeOf[c]
          /\ sess' = [sess EXCEPT ![s] = "inUse"]
          /\ using' = [using EXCEPT ![c] = s]
          /\ phase' = [phase EXCEPT ![c] = "locking"]
          /\ UNCHANGED <<due, faults>>
     \/ Fault /\ Return(c) /\ UNCHANGED sess
  /\ UNCHANGED <<up, owner, lastNode, age>>

\* Mutant of TryLock: the run starts whatever the server answered.
TryLockIgnored(c) ==
  /\ phase[c] = "locking" /\ sess[using[c]] = "inUse"
  /\ owner' = IF owner = NONE THEN using[c] ELSE owner
  /\ phase' = [phase EXCEPT ![c] = "running"]
  /\ age' = 0
  /\ UNCHANGED <<up, using, sess, due, lastNode, faults>>

\* pg_try_advisory_lock: granted when the lock is free or this session's already.
TryLock(c) ==
  LET s == using[c] IN
  /\ phase[c] = "locking"
  /\ \/ /\ sess[s] = "inUse" /\ owner \in {NONE, s}
        /\ owner' = s
        /\ phase' = [phase EXCEPT ![c] = "running"]
        /\ age' = 0
        /\ UNCHANGED <<using, sess, due>>
     \/ /\ sess[s] = "cut" \/ owner \notin {NONE, s}
        /\ PutBack(c)
        /\ Return(c)
        /\ UNCHANGED <<owner, age>>
  /\ UNCHANGED <<up, lastNode, faults>>

\* Mutant of LoseAnswer: the connection goes back to the pool with the lock on it.
LoseAnswerToPool(c) ==
  LET s == using[c] IN
  /\ phase[c] = "locking" /\ sess[s] = "inUse"
  /\ Fault
  /\ owner' \in {owner, IF owner = NONE THEN s ELSE owner}
  /\ PutBack(c)
  /\ Return(c)
  /\ UNCHANGED <<up, lastNode, age>>

\* The request's context ends while the answer is under way: the driver closes
\* the connection, and the server may have granted the lock to it.
LoseAnswer(c) ==
  LET s == using[c] IN
  /\ phase[c] = "locking" /\ sess[s] = "inUse"
  /\ Fault
  /\ owner' \in {owner, IF owner = NONE THEN s ELSE owner}
  /\ sess' = [sess EXCEPT ![s] = "orphan"]
  /\ Return(c)
  /\ UNCHANGED <<up, lastNode, age>>

\* fn returns and record upserts the job_runs row, best effort.
FinishRun(c) ==
  /\ phase[c] = "running"
  /\ lastNode' \in {lastNode, HomeOf[c]}
  /\ phase' = [phase EXCEPT ![c] = "unlocking"]
  /\ UNCHANGED <<up, using, sess, owner, due, age, faults>>

\* Mutant of Unlock: the unlock runs on some other connection of the pool, where
\* it releases nothing.
UnlockElsewhere(c) ==
  /\ phase[c] = "unlocking"
  /\ PutBack(c)
  /\ Return(c)
  /\ UNCHANGED <<up, owner, lastNode, age, faults>>

\* The deferred unlock, then Close; an unlock that does not get through leaves a
\* broken session behind, which the driver drops.
Unlock(c) ==
  LET s == using[c] IN
  /\ phase[c] = "unlocking"
  /\ \/ owner' = Free(s) /\ PutBack(c) /\ UNCHANGED faults
     \/ /\ sess[s] = "inUse" /\ Fault
        /\ sess' = [sess EXCEPT ![s] = "orphan"]
        /\ UNCHANGED owner
  /\ Return(c)
  /\ UNCHANGED <<up, lastNode, age>>

----------------------------------------------------------------------------
(* The server, the network and the nodes *)

\* The server ends a session that is checked out; its client learns of it with
\* its next statement.
Cut(s) ==
  /\ sess[s] = "inUse"
  /\ Fault
  /\ sess' = [sess EXCEPT ![s] = "cut"]
  /\ owner' = Free(s)
  /\ UNCHANGED <<up, phase, using, due, lastNode, age>>

\* The server notices that the client of a session is gone.
Reap(s) ==
  /\ sess[s] = "orphan"
  /\ sess' = [sess EXCEPT ![s] = "free"]
  /\ owner' = Free(s)
  /\ UNCHANGED <<up, phase, using, due, lastNode, age, faults>>

Crash(n) ==
  LET dead == {c \in Callers : HomeOf[c] = n}
  IN
  /\ up[n]
  /\ Fault
  /\ up' = [up EXCEPT ![n] = FALSE]
  /\ phase' = [c \in Callers |-> IF c \in dead THEN "idle" ELSE phase[c]]
  /\ using' = [c \in Callers |-> IF c \in dead THEN NONE ELSE using[c]]
  /\ sess' = [s \in Sessions |->
       CASE HomeOf[s] = n /\ sess[s] = "inUse" -> "orphan"
         [] HomeOf[s] = n /\ sess[s] = "cut"   -> "free"
         [] OTHER                              -> sess[s]]
  /\ UNCHANGED <<owner, due, lastNode, age>>

Restart(n) ==
  /\ ~up[n]
  /\ up' = [up EXCEPT ![n] = TRUE]
  /\ due' = [c \in Scheduled |-> IF HomeOf[c] = n THEN InitialDelay ELSE due[c]]
  /\ UNCHANGED <<phase, using, sess, owner, lastNode, age, faults>>

Waiting(c) == up[HomeOf[c]] /\ phase[c] = "idle"

\* Mutant of Tick: the timer counts on while the run it started is under way.
TickWhileRunning ==
  /\ \A c \in Scheduled : Waiting(c) => due[c] > 0
  /\ due' = [c \in Scheduled |-> due[c] - 1]
  /\ age' = IF age < Interval THEN age + 1 ELSE age
  /\ UNCHANGED <<up, phase, using, sess, owner, lastNode, faults>>

\* Time passes unless a timer has run out.
Tick ==
  /\ \A c \in Scheduled : Waiting(c) => due[c] > 0
  /\ due' = [c \in Scheduled |-> IF Waiting(c) THEN due[c] - 1 ELSE due[c]]
  /\ age' = IF age < Interval THEN age + 1 ELSE age
  /\ UNCHANGED <<up, phase, using, sess, owner, lastNode, faults>>

----------------------------------------------------------------------------
Run(c) == Connect(c) \/ TryLock(c) \/ FinishRun(c) \/ Unlock(c)

Next ==
  \/ \E c \in Callers : Fire(c) \/ RunNow(c) \/ Run(c) \/ LoseAnswer(c)
  \/ \E s \in Sessions : Cut(s) \/ Reap(s)
  \/ \E n \in Nodes : Crash(n) \/ Restart(n)
  \/ Tick

Spec == Init /\ [][Next]_vars

\* Timers fire, a job's fn returns, statements are answered and the server's
\* keepalive finds dead clients.  Nothing makes an operator ask for a run or a
\* crashed node come back.
FairSpec ==
  /\ Spec
  /\ WF_vars(Tick)
  /\ \A c \in Callers : WF_vars(Fire(c)) /\ WF_vars(Run(c))
  /\ \A s \in Sessions : WF_vars(Reap(s))

----------------------------------------------------------------------------
(* Properties *)

\* Two callers run the job at once only after the server cut the session of one
\* of them: its lock went to the other while its fn was still at work.
RunsAlone ==
  \A c, d \in Callers :
    c # d /\ phase[c] = "running" /\ phase[d] = "running" =>
      "cut" \in {sess[using[c]], sess[using[d]]}

\* The lock is never stranded on an idle connection: whoever owns it is running
\* the job or releasing it, or is gone and about to be noticed.
LockNotStranded ==
  owner # NONE =>
    \/ sess[owner] = "orphan"
    \/ \E c \in Callers : using[c] = owner /\ phase[c] \in {"running", "unlocking"}

\* As long as some node stays up the job is run again and again, whichever nodes
\* crashed holding the lock ("another node picks it up next cycle").
JobKeepsRunning ==
  (\E n \in Nodes : <>[]up[n]) => []<>(\E c \in Callers : phase[c] = "running")

\* What the comment on runScheduled says: the work happens once per cycle
\* cluster-wide, so a run begins no sooner than Interval after the last one.
OncePerCycle ==
  [][(\E c \in Callers : phase[c] = "locking" /\ phase'[c] = "running") => age >= Interval]_vars

----------------------------------------------------------------------------
(* For every set of nodes, callers and pooled sessions: two callers run a  *)
(* job together only when the server cut a session under one of them, and  *)
(* the lock is never left on an idle connection.                           *)

\* A caller has a session exactly while it needs one, no two share one, and the
\* session is whole or cut, on the caller's own node.
PoolInv ==
  /\ \A c \in Callers :
       /\ using[c] # NONE <=> phase[c] \in {"locking", "running", "unlocking"}
       /\ using[c] # NONE =>
            sess[using[c]] \in {"inUse", "cut"} /\ HomeOf[using[c]] = HomeOf[c]
  /\ \A c, d \in Callers : c # d /\ using[c] # NONE => using[c] # using[d]

\* A caller whose session is whole and who has been granted the lock owns it; the
\* owner is such a caller's session or an orphan, never a cut one.
LockInv ==
  /\ \A c \in Callers :
       phase[c] \in {"running", "unlocking"} /\ sess[using[c]] = "inUse" => owner = using[c]
  /\ owner # NONE => sess[owner] \in {"inUse", "orphan"}
  /\ LockNotStranded

Inv == TypeOK /\ PoolInv /\ LockInv

LEMMA HomeType ==
  /\ \A c \in Callers : HomeOf[c] \in Nodes
  /\ \A s \in Sessions : HomeOf[s] \in Nodes
  BY HomeAssumption

LEMMA InitInv == Init => Inv
  BY TimesAssumption
  DEF Init, Inv, TypeOK, PoolInv, LockInv, LockNotStranded

LEMMA StepTypeOK == TypeOK /\ [Next]_vars => TypeOK'
<1> SUFFICES ASSUME TypeOK, [Next]_vars
             PROVE  TypeOK'
    OBVIOUS
<1> USE DEF TypeOK
<1>1. ASSUME NEW c \in Callers, Fire(c) \/ RunNow(c)
      PROVE  TypeOK'
    BY <1>1 DEF Fire, RunNow
<1>2. ASSUME NEW c \in Callers, Connect(c)
      PROVE  TypeOK'
    BY <1>2, TimesAssumption DEF Connect, Return, Fault
<1>3. ASSUME NEW c \in Callers, TryLock(c)
      PROVE  TypeOK'
    BY <1>3, TimesAssumption DEF TryLock, Return, PutBack
<1>4. ASSUME NEW c \in Callers, LoseAnswer(c)
      PROVE  TypeOK'
  <2>1. owner' \in Sessions \cup {NONE} /\ using' \in [Callers -> Sessions \cup {NONE}]
    BY <1>4 DEF LoseAnswer, Return
  <2>2. due' \in [Scheduled -> Nat]
    BY <1>4, TimesAssumption DEF LoseAnswer, Return
  <2>3. /\ sess' \in [Sessions -> {"free", "inUse", "cut", "orphan"}]
        /\ phase' \in [Callers -> {"idle", "connecting", "locking", "running", "unlocking"}]
    BY <1>4 DEF LoseAnswer, Return
  <2>4. faults' \in Nat /\ UNCHANGED <<up, lastNode, age>>
    BY <1>4 DEF LoseAnswer, Fault
  <2>5. QED
    BY <2>1, <2>2, <2>3, <2>4
<1>5. ASSUME NEW c \in Callers, FinishRun(c)
      PROVE  TypeOK'
    BY <1>5, HomeType DEF FinishRun
<1>6. ASSUME NEW c \in Callers, Unlock(c)
      PROVE  TypeOK'
    BY <1>6, TimesAssumption DEF Unlock, Return, PutBack, Free, Fault
<1>7. ASSUME NEW s \in Sessions, Cut(s) \/ Reap(s)
      PROVE  TypeOK'
    BY <1>7 DEF Cut, Reap, Free, Fault
<1>8. ASSUME NEW n \in Nodes, Crash(n)
      PROVE  TypeOK'
    BY <1>8 DEF Crash, Fault
<1>9. ASSUME NEW n \in Nodes, Restart(n)
      PROVE  TypeOK'
    BY <1>9, TimesAssumption DEF Restart
<1>10. CASE Tick
  <2>1. due' \in [Scheduled -> Nat]
    BY <1>10, CallersAssumption DEF Tick, Waiting
  <2>2. QED
    BY <1>10, <2>1, TimesAssumption DEF Tick
<1>11. CASE UNCHANGED vars
    BY <1>11 DEF vars
<1>12. QED
    BY <1>1, <1>2, <1>3, <1>4, <1>5, <1>6, <1>7, <1>8, <1>9, <1>10, <1>11 DEF Next, Run

LEMMA StepPoolInv == TypeOK /\ PoolInv /\ [Next]_vars => PoolInv'
<1> SUFFICES ASSUME TypeOK, PoolInv, [Next]_vars
             PROVE  PoolInv'
    OBVIOUS
<1> USE NoSessionAssumption DEF TypeOK, PoolInv
<1>1. ASSUME NEW c \in Callers, Fire(c) \/ RunNow(c) \/ FinishRun(c)
      PROVE  PoolInv'
    BY <1>1 DEF Fire, RunNow, FinishRun
<1>2. ASSUME NEW c \in Callers, Connect(c)
      PROVE  PoolInv'
    BY <1>2 DEF Connect, Return
<1>3. ASSUME NEW c \in Callers, TryLock(c) \/ LoseAnswer(c) \/ Unlock(c)
      PROVE  PoolInv'
  <2>1. using[c] \in Sessions
    BY <1>3 DEF TryLock, LoseAnswer, Unlock
  <2>2. CASE phase' = [phase EXCEPT ![c] = "running"] /\ UNCHANGED <<using, sess>>
    BY <1>3, <2>2 DEF TryLock, LoseAnswer, Unlock, Return
  <2>3. CASE /\ phase' = [phase EXCEPT ![c] = "idle"]
             /\ using' = [using EXCEPT ![c] = NONE]
             /\ \E st \in {"free", "orphan"} : sess' = [sess EXCEPT ![using[c]] = st]
    BY <2>1, <2>3
  <2>4. QED
    BY <1>3, <2>2, <2>3 DEF TryLock, LoseAnswer, Unlock, Return, PutBack
<1>4. ASSUME NEW s \in Sessions, Cut(s) \/ Reap(s)
      PROVE  PoolInv'
    BY <1>4 DEF Cut, Reap
<1>5. ASSUME NEW n \in Nodes, Crash(n)
      PROVE  PoolInv'
    BY <1>5 DEF Crash
<1>6. CASE \E n \in Nodes : Restart(n)
    BY <1>6 DEF Restart
<1>7. CASE Tick \/ UNCHANGED vars
    BY <1>7 DEF Tick, vars
<1>8. QED
    BY <1>1, <1>2, <1>3, <1>4, <1>5, <1>6, <1>7 DEF Next, Run

LEMMA StepLockInv == Inv /\ [Next]_vars => LockInv'
<1> SUFFICES ASSUME TypeOK, PoolInv, LockInv, [Next]_vars
             PROVE  LockInv'
    BY DEF Inv
<1> USE NoSessionAssumption DEF TypeOK, PoolInv, LockInv, LockNotStranded
<1>1. ASSUME NEW c \in Callers, Fire(c) \/ RunNow(c) \/ FinishRun(c)
      PROVE  LockInv'
    BY <1>1 DEF Fire, RunNow, FinishRun
<1>2. ASSUME NEW c \in Callers, Connect(c)
      PROVE  LockInv'
    BY <1>2 DEF Connect, Return
<1>3. ASSUME NEW c \in Callers, TryLock(c)
      PROVE  LockInv'
    BY <1>3 DEF TryLock, Return, PutBack
<1>4. ASSUME NEW c \in Callers, LoseAnswer(c)
      PROVE  LockInv'
    BY <1>4 DEF LoseAnswer, Return
<1>5. ASSUME NEW c \in Callers, Unlock(c)
      PROVE  LockInv'
    BY <1>5 DEF Unlock, Return, PutBack, Free
<1>6. ASSUME NEW s \in Sessions, Cut(s) \/ Reap(s)
      PROVE  LockInv'
    BY <1>6 DEF Cut, Reap, Free
<1>7. ASSUME NEW n \in Nodes, Crash(n)
      PROVE  LockInv'
    BY <1>7 DEF Crash
<1>8. CASE \E n \in Nodes : Restart(n)
    BY <1>8 DEF Restart
<1>9. CASE Tick \/ UNCHANGED vars
    BY <1>9 DEF Tick, vars
<1>10. QED
    BY <1>1, <1>2, <1>3, <1>4, <1>5, <1>6, <1>7, <1>8, <1>9 DEF Next, Run

LEMMA CoordinatorInv == Spec => []Inv
<1>1. Inv /\ [Next]_vars => Inv'
    BY StepTypeOK, StepPoolInv, StepLockInv DEF Inv
<1>2. QED
    BY <1>1, InitInv, PTL DEF Spec

\* The coordinator never leaves its types.
THEOREM JobTypeCorrect == Spec => []TypeOK
<1>1. Inv => TypeOK
    BY DEF Inv
<1>2. QED
    BY <1>1, CoordinatorInv, PTL

\* Two callers run the job at once only when a session was cut under one of them.
THEOREM JobRunsAlone == Spec => []RunsAlone
<1>1. Inv => RunsAlone
    BY DEF Inv, TypeOK, PoolInv, LockInv, RunsAlone
<1>2. QED
    BY <1>1, CoordinatorInv, PTL

\* No path out of RunExclusive leaves the lock on an idle pooled connection.
THEOREM JobLockNotStranded == Spec => []LockNotStranded
<1>1. Inv => LockNotStranded
    BY DEF Inv, LockInv
<1>2. QED
    BY <1>1, CoordinatorInv, PTL
=============================================================================
