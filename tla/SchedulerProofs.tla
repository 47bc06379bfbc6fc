-------------------------- MODULE SchedulerProofs ---------------------------
(***************************************************************************)
(* Proofs about Scheduler, for any jobs, intervals, limits and clock: the   *)
(* run times of a job are submitted once and all, and the instances of a    *)
(* job are counted right and kept to their limit.                           *)
(***************************************************************************)
EXTENDS Scheduler, TLAPS, FiniteSetTheorems

CallRecords == [job : Jobs, times : (SUBSET Nat) \ {{}}, at : {"queued", "next", "run"}]

Types ==
  /\ now \in Nat /\ loop_now \in Nat
  /\ adding \subseteq Jobs /\ pending \subseteq Jobs /\ store \subseteq Jobs
  /\ start_date \in [Jobs -> Nat] /\ next_run_time \in [Jobs -> Nat]
  /\ instances \in [Jobs -> Nat] /\ fired \in [Jobs -> SUBSET Nat]
  /\ calls \subseteq CallRecords

\* A job that gets its first run time was never submitted.
Fresh ==
  /\ loop = "off" => \A j \in Jobs : fired[j] = {}
  /\ \A j \in Jobs : start_date[j] = None =>
       fired[j] = {} /\ j \notin store /\ j \notin pending /\ j \notin adding
  /\ client \in {"compute", "insert"} => \A j \in adding : fired[j] = {} /\ j \notin store

\* The calls of one job share no run time, and go through submitted ones only.
OwnRunTimes ==
  /\ \A c \in calls : c.times \subseteq fired[c.job]
  /\ \A c, d \in calls : c.job = d.job /\ c # d => c.times \cap d.times = {}

\* The jobs of a round are due; the one just put has been given its due run times,
\* besides those before its next run time.
Rounds ==
  /\ submitting \subseteq round /\ round \subseteq Due
  /\ \A i, j \in submitting : i = j
  /\ round # {} => loop = "round"
  /\ \A j \in submitting :
       /\ RunTimes(j) \subseteq fired[j]
       /\ \A t \in fired[j] : t < next_run_time[j] \/ t \in RunTimes(j)
       /\ \A u \in fired[j] : {t \in u..next_run_time[j] - 1 : NextFire(j, t) = t} \subseteq fired[j]

RunningOf(j) == {c \in calls : c.job = j /\ c.at = "run"}

SchedulerInv ==
  /\ Types /\ Fresh /\ EachTimeOnce /\ OwnRunTimes /\ Rounds
  /\ \A j \in Jobs : IsFiniteSet(RunningOf(j))
  /\ InstancesCounted

-----------------------------------------------------------------------------
(* The interval trigger.                                                    *)

LEMMA Multiples ==
  ASSUME NEW i \in Nat, NEW m \in Nat, NEW q \in Nat, q <= m
  PROVE  i * q <= i * m
<1>1. PICK d \in Nat : m = q + d
  BY m - q \in Nat
<1>2. i * m = i * q + i * d /\ i * d \in Nat /\ i * q \in Nat
  BY <1>1
<1> QED BY <1>2

\* The quotient rounded up gives the first multiple that is not below a.
LEMMA RoundedUp ==
  ASSUME NEW i \in Nat \ {0}, NEW a \in Nat
  PROVE  LET q == (a + i - 1) \div i IN
         q \in Nat /\ i * q \in Nat /\ a <= i * q /\ i * q < a + i
<1> DEFINE n == a + i - 1
<1>1. n \in Nat
  OBVIOUS
<1> HIDE DEF n
<1>2. n \div i \in Nat /\ i * (n \div i) <= n /\ n < i * (n \div i) + i /\ i * (n \div i) \in Nat
  BY <1>1
<1> QED BY <1>2 DEF n

LEMMA FirstMultiple ==
  ASSUME NEW i \in Nat \ {0}, NEW a \in Nat, NEW m \in Nat, NEW q \in Nat,
         i * q < a + i, a <= i * m
  PROVE  i * q <= i * m
<1> SUFFICES ASSUME m < q PROVE FALSE
  BY Multiples
<1>1. i * (m + 1) <= i * q
  BY Multiples
<1>2. i * (m + 1) = i * m + i /\ i * m \in Nat /\ i * q \in Nat
  OBVIOUS
<1> QED BY <1>1, <1>2

\* The trigger answers with the first run time that is not before t.
LEMMA NextFireFirst ==
  ASSUME NEW j \in Jobs, start_date \in [Jobs -> Nat], NEW t \in Nat
  PROVE  /\ NextFire(j, t) \in Nat /\ t <= NextFire(j, t)
         /\ \A u \in Nat : t <= u /\ NextFire(j, u) = u => NextFire(j, t) <= u
<1> DEFINE s == start_date[j]
           i == interval[j]
           q(u) == (u - s + i - 1) \div i
<1>1. s \in Nat /\ i \in Nat \ {0}
  BY SchedulerAssumption
<1>2. ASSUME NEW u \in Nat, s <= u
      PROVE  /\ q(u) \in Nat /\ i * q(u) \in Nat
             /\ u - s <= i * q(u) /\ i * q(u) < u - s + i
             /\ NextFire(j, u) = s + i * q(u)
  <2>1. u - s \in Nat
    BY <1>1, <1>2
  <2>2. LET r == (u - s + i - 1) \div i IN
        r \in Nat /\ i * r \in Nat /\ u - s <= i * r /\ i * r < u - s + i
    BY <1>1, <2>1, RoundedUp
  <2> QED BY <1>1, <1>2, <2>2 DEF NextFire
<1>3. \A u \in Nat : u < s => NextFire(j, u) = s
  BY DEF NextFire
<1> HIDE DEF s, i, q
<1>4. CASE t < s
  <2>1. NextFire(j, t) = s
    BY <1>3, <1>4
  <2>2. ASSUME NEW u \in Nat, NextFire(j, u) = u PROVE s <= u
    BY <1>1, <1>3, <2>2
  <2> QED BY <1>1, <1>4, <2>1, <2>2
<1>5. CASE s <= t
  <2>1. ASSUME NEW u \in Nat, t <= u, NextFire(j, u) = u PROVE NextFire(j, t) <= u
    <3>1. /\ q(u) \in Nat /\ u = s + i * q(u) /\ q(t) \in Nat /\ i * q(t) < t - s + i
          /\ NextFire(j, t) = s + i * q(t) /\ t - s \in Nat
          /\ i * q(t) \in Nat /\ i * q(u) \in Nat
      BY <1>1, <1>2, <1>5, <2>1
    <3>2. t - s <= i * q(u)
      BY <1>1, <2>1, <3>1
    <3>3. i * q(t) <= i * q(u)
      BY <1>1, <3>1, <3>2, FirstMultiple
    <3> QED BY <1>1, <3>1, <3>3
  <2>2. NextFire(j, t) \in Nat /\ t <= NextFire(j, t)
    BY <1>1, <1>2, <1>5
  <2> QED BY <2>1, <2>2
<1> QED BY <1>1, <1>4, <1>5

LEMMA ComputeNextType ==
  ASSUME NEW j \in Jobs, start_date \in [Jobs -> Nat], NEW t \in Nat, NEW n
  PROVE  ComputeNext(j, n, t) \in Nat
  BY NextFireFirst DEF ComputeNext, None

LEMMA RunTimesDue ==
  ASSUME Types, NEW j \in Jobs
  PROVE  RunTimes(j) \subseteq {t \in next_run_time[j]..loop_now : NextFire(j, t) = t}
  BY DEF RunTimes, Types

-----------------------------------------------------------------------------
(* The types, and that new jobs are new.                                    *)

LEMMA InitInv == Init => SchedulerInv
<1> SUFFICES ASSUME Init PROVE SchedulerInv
  OBVIOUS
<1>1. Types
  BY DEF Init, Types, None
<1>2. Fresh /\ EachTimeOnce /\ OwnRunTimes /\ Rounds
  BY DEF Init, Fresh, EachTimeOnce, OwnRunTimes, Rounds
<1>3. \A j \in Jobs : RunningOf(j) = {}
  BY DEF Init, RunningOf
<1>4. InstancesCounted
  BY <1>3, FS_EmptySet, SchedulerAssumption DEF Init, InstancesCounted, RunningOf
<1> QED BY <1>1, <1>2, <1>3, <1>4, FS_EmptySet DEF SchedulerInv

\* What a step leaves of a round: all of it, when it touches none of its jobs.
LEMMA RoundKept ==
  ASSUME Rounds, UNCHANGED <<loop, loop_now, round, submitting, fired>>,
         \A j \in round : /\ j \in store' /\ start_date'[j] = start_date[j]
                          /\ next_run_time'[j] = next_run_time[j] /\ runs'[j] = runs[j]
  PROVE  Rounds'
<1>1. ASSUME NEW j \in round
      PROVE  /\ RunTimes(j)' = RunTimes(j) /\ next_run_time'[j] = next_run_time[j]
             /\ \A t : NextFire(j, t)' = NextFire(j, t)
  BY DEF RunTimes, NextFire
<1>2. round' \subseteq Due'
  BY <1>1 DEF Rounds, Due
<1>3. ASSUME NEW j \in submitting
      PROVE  /\ RunTimes(j)' \subseteq fired'[j]
             /\ \A t \in fired'[j] : t < next_run_time'[j] \/ t \in RunTimes(j)'
             /\ \A u \in fired'[j] :
                  {t \in u..next_run_time'[j] - 1 : NextFire(j, t)' = t} \subseteq fired'[j]
  <2>1. j \in round
    BY DEF Rounds
  <2> QED BY <1>1, <2>1 DEF Rounds
<1> QED BY <1>2, <1>3 DEF Rounds

LEMMA NoRound ==
  ASSUME Rounds, round = {}, round' = {}, submitting' = submitting
  PROVE  Rounds'
  BY DEF Rounds

\* The steps that touch neither jobs nor calls.
Others == Tick \/ Wake \/ ShutStop \/ ShutWake \/ ShutJoin \/ LoopBegin \/ LoopTest \/ Wait
          \/ WaitEnds \/ Clear \/ RoundEnds \/ UNCHANGED vars

LEMMA OthersInv ==
  ASSUME SchedulerInv, Others
  PROVE  SchedulerInv'
<1> USE DEF clientVars, loopVars, jobVars
<1>1. /\ UNCHANGED <<pending, store, start_date, next_run_time, runs, fired, calls, instances>>
      /\ UNCHANGED <<round, submitting>>
      /\ adding' = adding \/ adding' = {}
  BY DEF Others, Tick, Wake, ShutStop, ShutWake, ShutJoin, LoopBegin, LoopTest, Wait, WaitEnds,
     Clear, RoundEnds, vars
<1>2. now' \in Nat /\ loop_now' \in Nat
  <2>1. now' \in {now, now + 1} /\ loop_now' \in {loop_now, now}
    BY DEF Others, Tick, Wake, ShutStop, ShutWake, ShutJoin, LoopBegin, LoopTest, Wait, WaitEnds,
       Clear, RoundEnds, vars
  <2> QED BY <2>1 DEF SchedulerInv, Types
<1>3. (client' \in {"compute", "insert"} => client = client' /\ adding' = adding)
      /\ (loop' = "off" => loop = "off") /\ (loop = "dead" => loop' = "dead")
  BY DEF Others, Tick, Wake, ShutStop, ShutWake, ShutJoin, LoopBegin, LoopTest, Wait, WaitEnds,
     Clear, RoundEnds, vars
<1>4. Types'
  BY <1>1, <1>2 DEF SchedulerInv, Types
<1>5. Fresh'
  BY <1>1, <1>3 DEF SchedulerInv, Fresh
<1>6. EachTimeOnce'
  BY <1>1, <1>3 DEF SchedulerInv, EachTimeOnce, NextFire
<1>7. OwnRunTimes' /\ InstancesCounted' /\ \A j \in Jobs : IsFiniteSet(RunningOf(j)')
  BY <1>1 DEF SchedulerInv, OwnRunTimes, InstancesCounted, RunningOf
<1>8. Rounds'
  <2>1. CASE round = {}
    BY <1>1, <2>1, NoRound DEF SchedulerInv
  <2>2. CASE round # {}
    <3>1. loop = "round"
      BY <2>2 DEF SchedulerInv, Rounds
    <3>2. UNCHANGED <<loop, loop_now>>
      BY <2>2, <3>1 DEF Others, Tick, Wake, ShutStop, ShutWake, ShutJoin, LoopBegin, LoopTest, Wait,
         WaitEnds, Clear, RoundEnds, vars
    <3>3. \A j \in round : j \in store
      BY DEF SchedulerInv, Rounds, Due
    <3> QED BY <1>1, <3>2, <3>3, RoundKept DEF SchedulerInv
  <2> QED BY <2>1, <2>2
<1> QED BY <1>4, <1>5, <1>6, <1>7, <1>8 DEF SchedulerInv

-----------------------------------------------------------------------------
(* The Executor's thread.                                                   *)

Client == (\E j \in Jobs : AddJob(j) \/ Unschedule(j)) \/ ComputeFirst \/ Insert \/ Start

LEMMA ClientTypes ==
  ASSUME SchedulerInv, Client
  PROVE  Types'
<1>1. Types
  BY DEF SchedulerInv
<1> USE DEF clientVars, loopVars, jobVars
<1>2. ASSUME NEW j \in Jobs, AddJob(j) PROVE Types'
  <2>1. now + interval[j] \in Nat
    BY <1>1, SchedulerAssumption DEF Types
  <2>2. start_date' \in [Jobs -> Nat]
    BY <1>1, <1>2, <2>1 DEF Types, AddJob
  <2>3. adding' \subseteq Jobs /\ pending' \subseteq Jobs
    BY <1>1, <1>2 DEF Types, AddJob
  <2> QED BY <1>1, <1>2, <2>2, <2>3 DEF Types, AddJob
<1>3. ASSUME NEW j \in Jobs, Unschedule(j) PROVE Types'
  BY <1>1, <1>3 DEF Types, Unschedule
<1>4. CASE ComputeFirst
  <2>1. \A j \in Jobs : ComputeNext(j, 0, now) \in Nat
    BY <1>1, ComputeNextType DEF Types
  <2>2. next_run_time' \in [Jobs -> Nat]
    BY <1>1, <1>4, <2>1 DEF Types, ComputeFirst
  <2> QED BY <1>1, <1>4, <2>2 DEF Types, ComputeFirst
<1>5. CASE Insert
  BY <1>1, <1>5 DEF Types, Insert
<1>6. CASE Start
  <2>1. \A j \in Jobs : ComputeNext(j, 0, now) \in Nat
    BY <1>1, ComputeNextType DEF Types
  <2>2. next_run_time' \in [Jobs -> Nat]
    BY <1>1, <1>6, <2>1 DEF Types, Start, None
  <2> QED BY <1>1, <1>6, <2>2 DEF Types, Start
<1> QED BY <1>2, <1>3, <1>4, <1>5, <1>6 DEF Client

LEMMA ClientInv ==
  ASSUME SchedulerInv, Client
  PROVE  SchedulerInv'
<1> USE DEF clientVars, loopVars, jobVars
<1>1. Types /\ Types' /\ Fresh /\ EachTimeOnce /\ OwnRunTimes /\ Rounds
  BY ClientTypes DEF SchedulerInv
<1>2. UNCHANGED <<fired, calls, instances, loop_now, round, submitting, runs>>
  BY DEF Client, AddJob, Unschedule, ComputeFirst, Insert, Start
<1>3. OwnRunTimes' /\ InstancesCounted' /\ \A j \in Jobs : IsFiniteSet(RunningOf(j)')
  BY <1>2 DEF SchedulerInv, OwnRunTimes, InstancesCounted, RunningOf
<1>4. ASSUME NEW j \in Jobs, AddJob(j) PROVE Fresh' /\ EachTimeOnce'
  <2>1. /\ start_date' = [start_date EXCEPT ![j] = now + interval[j]] /\ start_date[j] = None
        /\ UNCHANGED <<store, next_run_time, loop>> /\ DOMAIN start_date = Jobs
    BY <1>1, <1>4 DEF AddJob, Types
  <2>5. now + interval[j] # None
    <3>1. now \in Nat /\ interval[j] \in Nat \ {0}
      BY <1>1, SchedulerAssumption DEF Types
    <3> QED BY <3>1 DEF None
  <2>2. fired[j] = {} /\ j \notin store
    BY <1>1, <2>1 DEF Fresh
  <2>3. Fresh'
    <3>1. (loop' = "off" => \A k \in Jobs : fired'[k] = {})
      BY <1>1, <1>2, <2>1 DEF Fresh
    <3>2. \A k \in Jobs : start_date'[k] = None =>
            fired'[k] = {} /\ k \notin store' /\ k \notin pending' /\ k \notin adding'
      BY <1>1, <1>2, <1>4, <2>1, <2>5 DEF Fresh, AddJob
    <3>3. client' \in {"compute", "insert"} => \A k \in adding' : fired'[k] = {} /\ k \notin store'
      BY <1>2, <1>4, <2>1, <2>2 DEF AddJob
    <3> QED BY <3>1, <3>2, <3>3 DEF Fresh
  <2>4. EachTimeOnce'
    <3>1. \A k \in store' : k \in store /\ start_date'[k] = start_date[k]
      BY <1>1, <2>1, <2>2 DEF Types
    <3> QED BY <1>1, <1>2, <2>1, <3>1 DEF EachTimeOnce, NextFire
  <2> QED BY <2>3, <2>4
<1>5. ASSUME NEW j \in Jobs, Unschedule(j) PROVE Fresh' /\ EachTimeOnce'
  <2>1. store' = store \ {j} /\ UNCHANGED <<client, adding, pending, start_date, next_run_time, loop>>
    BY <1>5 DEF Unschedule
  <2> QED BY <1>1, <1>2, <2>1 DEF Fresh, EachTimeOnce, NextFire
<1>6. ASSUME ComputeFirst PROVE Fresh' /\ EachTimeOnce'
  <2>1. /\ UNCHANGED <<store, adding, pending, start_date, loop>>
        /\ \A k \in Jobs : k \notin adding => next_run_time'[k] = next_run_time[k]
        /\ client = "compute" /\ client' = "insert"
    BY <1>6 DEF ComputeFirst
  <2>2. Fresh'
    BY <1>1, <1>2, <2>1 DEF Fresh
  <2>3. \A k \in store' : k \in store /\ k \in Jobs /\ next_run_time'[k] = next_run_time[k]
    BY <1>1, <2>1 DEF Fresh, Types
  <2>4. EachTimeOnce'
    BY <1>1, <1>2, <2>1, <2>3 DEF EachTimeOnce, NextFire
  <2> QED BY <2>2, <2>4
<1>7. ASSUME Insert PROVE Fresh' /\ EachTimeOnce'
  <2>1. /\ UNCHANGED <<adding, pending, start_date, next_run_time, loop>>
        /\ store' = store \cup adding /\ client = "insert" /\ client' = "wake"
    BY <1>7 DEF Insert
  <2>2. \A k \in adding : fired[k] = {}
    BY <1>1, <2>1 DEF Fresh
  <2>3. Fresh'
    BY <1>1, <1>2, <2>1 DEF Fresh
  <2>4. EachTimeOnce'
    BY <1>1, <1>2, <2>1, <2>2 DEF EachTimeOnce, NextFire
  <2> QED BY <2>3, <2>4
<1>8. ASSUME Start PROVE Fresh' /\ EachTimeOnce'
  <2>1. /\ UNCHANGED <<client, adding, start_date>> /\ store' = pending /\ pending' = {}
        /\ client = "idle" /\ \A k \in Jobs : fired[k] = {}
        /\ loop' = "begin"
    BY <1>1, <1>8 DEF Start, Fresh
  <2>2. Fresh'
    BY <1>1, <1>2, <2>1 DEF Fresh
  <2>3. EachTimeOnce'
    BY <1>1, <1>2, <2>1 DEF EachTimeOnce, Types
  <2> QED BY <2>2, <2>3
<1>9. Fresh' /\ EachTimeOnce'
  BY <1>4, <1>5, <1>6, <1>7, <1>8 DEF Client
<1>10. Rounds'
  <2>1. CASE round = {}
    BY <1>1, <1>2, <2>1, NoRound
  <2>2. CASE round # {}
    <3>1. loop = "round" /\ \A j \in round : j \in store /\ j \in Jobs
      BY <1>1, <2>2 DEF Rounds, Due, Types
    <3>2. CASE \E j \in Jobs : AddJob(j)
      <4>1. PICK j \in Jobs : AddJob(j)
        BY <3>2
      <4>2. j \notin store
        BY <1>1, <4>1 DEF Fresh, AddJob
      <4>3. UNCHANGED <<loop, store, next_run_time>>
            /\ \A k \in round : start_date'[k] = start_date[k]
        BY <1>1, <3>1, <4>1, <4>2 DEF AddJob, Types
      <4> QED BY <1>1, <1>2, <3>1, <4>3, RoundKept
    <3>3. CASE ComputeFirst
      <4>1. /\ UNCHANGED <<loop, store, start_date>>
            /\ \A k \in round : next_run_time'[k] = next_run_time[k]
        BY <1>1, <3>1, <3>3 DEF ComputeFirst, Fresh
      <4> QED BY <1>1, <1>2, <3>1, <4>1, RoundKept
    <3> QED BY <3>1, <3>2, <3>3 DEF Client, Unschedule, Insert, Start, Locked
  <2> QED BY <2>1, <2>2
<1> QED BY <1>1, <1>3, <1>9, <1>10 DEF SchedulerInv

-----------------------------------------------------------------------------
(* The loop's submits.                                                      *)

\* A put adds a call with run times that the job has not had; it does not run yet.
LEMMA SubmitPutInv ==
  ASSUME SchedulerInv, NEW j \in round, SubmitPut(j)
  PROVE  SchedulerInv'
<1> USE DEF clientVars, loopVars, jobVars
<1> DEFINE new == [job |-> j, times |-> RunTimes(j), at |-> "queued"]
<1>1. /\ Types /\ Fresh /\ EachTimeOnce /\ OwnRunTimes /\ Rounds
      /\ j \in store /\ j \in Jobs /\ RunTimes(j) # {} /\ loop = "round" /\ submitting = {}
  BY DEF SchedulerInv, Rounds, Due, Types, SubmitPut
<1>2. /\ UNCHANGED <<now, clientVars, loop, loop_now, round, store, next_run_time, runs, instances>>
      /\ submitting' = {j} /\ calls' = calls \cup {new}
      /\ fired' = [fired EXCEPT ![j] = @ \cup RunTimes(j)]
  BY DEF SubmitPut
<1>3. /\ next_run_time[j] \in Nat /\ loop_now \in Nat /\ fired[j] \subseteq Nat
      /\ RunTimes(j) \subseteq {t \in next_run_time[j]..loop_now : NextFire(j, t) = t}
  BY <1>1, RunTimesDue DEF Types
<1>4. RunTimes(j) \in (SUBSET Nat) \ {{}}
  BY <1>1, <1>3
<1>5. /\ fired'[j] = fired[j] \cup RunTimes(j) /\ fired' \in [Jobs -> SUBSET Nat]
      /\ \A k \in Jobs : k # j => fired'[k] = fired[k]
  BY <1>1, <1>2, <1>4 DEF Types
<1>6. /\ \A t \in fired[j] : t < next_run_time[j]
      /\ \A u \in fired[j] : {t \in u..next_run_time[j] - 1 : NextFire(j, t) = t} \subseteq fired[j]
  BY <1>1 DEF EachTimeOnce
<1>7. fired[j] \cap RunTimes(j) = {}
  <2> SUFFICES ASSUME NEW t \in fired[j], t \in RunTimes(j) PROVE FALSE
    OBVIOUS
  <2>1. t \in Nat /\ t < next_run_time[j] /\ next_run_time[j] <= t
    BY <1>3, <1>6
  <2> QED BY <1>3, <2>1
<1> HIDE DEF new
<1>8. new \in CallRecords /\ new.job = j /\ new.times = RunTimes(j) /\ new.at = "queued"
  BY <1>1, <1>4 DEF CallRecords, new
<1>9. Types'
  BY <1>1, <1>2, <1>5, <1>8 DEF Types
<1>10. Fresh'
  BY <1>1, <1>2, <1>5 DEF Fresh
<1>11. EachTimeOnce'
  <2>1. \A k \in store' \ submitting' : k \in Jobs /\ k # j
    BY <1>1, <1>2 DEF Types
  <2>2. \A k \in store \ {j} :
          /\ \A t \in fired[k] : t < next_run_time[k]
          /\ \A u \in fired[k] : {t \in u..next_run_time[k] - 1 : NextFire(k, t) = t} \subseteq fired[k]
    BY <1>1 DEF EachTimeOnce
  <2> QED BY <1>1, <1>2, <1>5, <2>1, <2>2 DEF EachTimeOnce, NextFire
<1>12. OwnRunTimes'
  <2>1. ASSUME NEW c \in calls PROVE c.times \subseteq fired[c.job] /\ c.job \in Jobs
    BY <1>1 DEF OwnRunTimes, Types, CallRecords
  <2>2. \A c \in calls' : c.times \subseteq fired'[c.job]
    BY <1>2, <1>5, <1>8, <2>1
  <2>3. \A c \in calls : c.job = j => c.times \cap new.times = {}
    BY <1>7, <1>8, <2>1
  <2>4. \A c, d \in calls' : c.job = d.job /\ c # d => c.times \cap d.times = {}
    BY <1>1, <1>2, <1>8, <2>3 DEF OwnRunTimes
  <2> QED BY <2>2, <2>4 DEF OwnRunTimes
<1>13. Rounds'
  <2>1. /\ RunTimes(j)' = RunTimes(j) /\ \A t : NextFire(j, t)' = NextFire(j, t)
        /\ round' \subseteq Due'
        /\ round' # {} => loop' = "round"
    BY <1>1, <1>2 DEF RunTimes, NextFire, Rounds, Due
  <2>2. \A t \in fired'[j] : t < next_run_time'[j] \/ t \in RunTimes(j)'
    BY <1>2, <1>5, <1>6, <2>1
  <2>3. ASSUME NEW u \in fired'[j], NEW t \in u..next_run_time[j] - 1, NextFire(j, t) = t
        PROVE  t \in fired'[j]
    <3>1. u \in Nat /\ t \in Nat /\ u <= t /\ t < next_run_time[j]
      BY <1>3, <1>5, <2>3
    <3>2. u \in fired[j]
      <4>1. u \in RunTimes(j) => next_run_time[j] <= u
        BY <1>3
      <4> QED BY <1>3, <1>5, <2>3, <3>1, <4>1
    <3> QED BY <1>5, <1>6, <2>3, <3>2
  <2>4. \A u \in fired'[j] : {t \in u..next_run_time'[j] - 1 : NextFire(j, t)' = t} \subseteq fired'[j]
    BY <1>2, <2>1, <2>3
  <2>5. RunTimes(j)' \subseteq fired'[j]
    BY <1>5, <2>1
  <2>6. submitting' \subseteq round' /\ \A i, k \in submitting' : i = k
    BY <1>2
  <2>7. \A k \in submitting' : k = j
    BY <1>2
  <2>8. ASSUME NEW k \in submitting'
        PROVE  /\ RunTimes(k)' \subseteq fired'[k]
               /\ \A t \in fired'[k] : t < next_run_time'[k] \/ t \in RunTimes(k)'
               /\ \A u \in fired'[k] :
                    {t \in u..next_run_time'[k] - 1 : NextFire(k, t)' = t} \subseteq fired'[k]
    BY <2>2, <2>4, <2>5, <2>7, Zenon
  <2> QED BY <2>1, <2>6, <2>8 DEF Rounds
<1>14. \A k \in Jobs : RunningOf(k)' = RunningOf(k)
  BY <1>2, <1>8 DEF RunningOf
<1>15. InstancesCounted' /\ \A k \in Jobs : IsFiniteSet(RunningOf(k)')
  BY <1>2, <1>14 DEF SchedulerInv, InstancesCounted, RunningOf
<1> QED BY <1>9, <1>10, <1>11, <1>12, <1>13, <1>15 DEF SchedulerInv

\* The next run time leaves no run time out and none for a second time.
LEMMA ReturnsOnce ==
  ASSUME SchedulerInv, NEW j \in submitting, SubmitReturns(j), next_run_time'[j] # None
  PROVE  /\ \A t \in fired[j] : t < next_run_time'[j]
         /\ \A u \in fired[j] :
              {t \in u..next_run_time'[j] - 1 : NextFire(j, t) = t} \subseteq fired[j]
<1>1. Types /\ Rounds /\ j \in store /\ j \in Jobs /\ RunTimes(j) # {}
  BY DEF SchedulerInv, Types, Rounds, Due
<1>2. /\ next_run_time[j] \in Nat /\ loop_now \in Nat /\ loop_now + 1 \in Nat
      /\ fired[j] \subseteq Nat /\ start_date \in [Jobs -> Nat]
  BY <1>1 DEF Types
<1>3. RunTimes(j) = {t \in next_run_time[j]..loop_now : NextFire(j, t) = t}
  BY <1>1 DEF RunTimes
<1>4. next_run_time'[j] = NextFire(j, loop_now + 1)
  <2>1. next_run_time'[j] = ComputeNext(j, runs'[j], loop_now + 1)
    BY <1>1 DEF SubmitReturns, AfterNow, Types
  <2> QED BY <2>1 DEF ComputeNext
<1>5. /\ next_run_time'[j] \in Nat /\ loop_now < next_run_time'[j]
      /\ \A u \in Nat : loop_now + 1 <= u /\ NextFire(j, u) = u => next_run_time'[j] <= u
  BY <1>1, <1>2, <1>4, NextFireFirst
<1>6. /\ RunTimes(j) \subseteq fired[j]
      /\ \A t \in fired[j] : t < next_run_time[j] \/ t \in RunTimes(j)
      /\ \A u \in fired[j] : {t \in u..next_run_time[j] - 1 : NextFire(j, t) = t} \subseteq fired[j]
  BY <1>1 DEF Rounds
<1>7. next_run_time[j] <= loop_now
  BY <1>1, <1>2, <1>3
<1>8. ASSUME NEW t \in fired[j] PROVE t < next_run_time'[j]
  <2>1. t \in Nat /\ (t < next_run_time[j] \/ t <= loop_now)
    BY <1>2, <1>3, <1>6
  <2> QED BY <1>2, <1>5, <1>7, <2>1
<1>9. ASSUME NEW u \in fired[j], NEW t \in u..next_run_time'[j] - 1, NextFire(j, t) = t
      PROVE  t \in fired[j]
  <2>1. u \in Nat /\ t \in Nat /\ u <= t /\ t < next_run_time'[j]
    BY <1>2, <1>5, <1>9
  <2>2. t <= loop_now
    BY <1>2, <1>5, <1>9, <2>1
  <2>3. CASE next_run_time[j] <= t
    BY <1>2, <1>3, <1>6, <1>9, <2>1, <2>2, <2>3
  <2>4. CASE t < next_run_time[j]
    BY <1>2, <1>6, <1>9, <2>1, <2>4
  <2> QED BY <1>2, <2>1, <2>3, <2>4
<1> QED BY <1>8, <1>9

LEMMA SubmitReturnsInv ==
  ASSUME SchedulerInv, NEW j \in submitting, SubmitReturns(j)
  PROVE  SchedulerInv'
<1> USE DEF clientVars, loopVars, jobVars
<1>1. /\ Types /\ Fresh /\ EachTimeOnce /\ OwnRunTimes /\ Rounds
      /\ j \in store /\ j \in Jobs /\ j \in round /\ loop = "round"
  BY DEF SchedulerInv, Rounds, Due, Types
<1>2. /\ UNCHANGED <<now, clientVars, loop, loop_now, fired, instances, calls>>
      /\ submitting' = {} /\ round' = round \ {j}
      /\ store' \subseteq store /\ store \subseteq store' \cup {j}
      /\ \A k \in Jobs : k # j => next_run_time'[k] = next_run_time[k] /\ runs'[k] = runs[k]
      /\ j \in store' => next_run_time'[j] # None
  BY <1>1 DEF SubmitReturns
<1>3. next_run_time' \in [Jobs -> Nat]
  <2>1. loop_now + 1 \in Nat /\ start_date \in [Jobs -> Nat] /\ next_run_time \in [Jobs -> Nat]
    BY <1>1 DEF Types
  <2>2. ComputeNext(j, runs'[j], AfterNow) \in Nat
    BY <1>1, <2>1, ComputeNextType DEF AfterNow
  <2> QED BY <2>1, <2>2 DEF SubmitReturns
<1>4. Types'
  BY <1>1, <1>2, <1>3 DEF Types
<1>5. Fresh'
  BY <1>1, <1>2 DEF Fresh
<1>6. EachTimeOnce'
  <2> SUFFICES ASSUME NEW k \in store'
               PROVE  /\ \A t \in fired[k] : t < next_run_time'[k]
                      /\ \A u \in fired[k] :
                           {t \in u..next_run_time'[k] - 1 : NextFire(k, t) = t} \subseteq fired[k]
    BY <1>2 DEF EachTimeOnce, NextFire
  <2>1. CASE k = j
    BY <1>2, <2>1, ReturnsOnce
  <2>2. CASE k # j
    <3>1. k \in store \ submitting /\ k \in Jobs
      <4>1. submitting = {j}
        BY <1>1 DEF Rounds
      <4> QED BY <1>1, <1>2, <2>2, <4>1 DEF Types
    <3> QED BY <1>1, <1>2, <2>2, <3>1 DEF EachTimeOnce
  <2> QED BY <2>1, <2>2
<1>7. Rounds'
  <2>1. \A k \in round' : k \in store' /\ k \in Jobs /\ RunTimes(k)' = RunTimes(k) /\ RunTimes(k) # {}
    BY <1>1, <1>2 DEF Rounds, Due, RunTimes, NextFire, Types
  <2> QED BY <1>1, <1>2, <2>1 DEF Rounds, Due
<1>8. OwnRunTimes' /\ InstancesCounted' /\ \A k \in Jobs : IsFiniteSet(RunningOf(k)')
  BY <1>2 DEF SchedulerInv, OwnRunTimes, InstancesCounted, RunningOf
<1> QED BY <1>4, <1>5, <1>6, <1>7, <1>8 DEF SchedulerInv

\* A round begins with none under way; a thread that has died submits no more.
LEMMA RoundInv ==
  ASSUME SchedulerInv, RoundBegins \/ SubmitRaises
  PROVE  SchedulerInv'
<1> USE DEF clientVars, loopVars, jobVars
<1>1. /\ UNCHANGED <<now, clientVars, loop_now, jobVars, instances, calls>>
      /\ loop' \in {"round", "dead"}
  BY DEF RoundBegins, SubmitRaises
<1>2. Types' /\ Fresh' /\ OwnRunTimes'
  BY <1>1 DEF SchedulerInv, Types, Fresh, OwnRunTimes
<1>3. InstancesCounted' /\ \A j \in Jobs : IsFiniteSet(RunningOf(j)')
  BY <1>1 DEF SchedulerInv, InstancesCounted, RunningOf
<1>4. CASE RoundBegins
  <2>1. submitting = {} /\ submitting' = {} /\ round' = Due /\ loop' = "round" /\ loop = "process"
    BY <1>4 DEF RoundBegins, SchedulerInv, Rounds
  <2>2. Due' = Due
    BY <1>1 DEF Due, RunTimes, NextFire
  <2>3. Rounds' /\ EachTimeOnce'
    BY <1>1, <2>1, <2>2 DEF Rounds, SchedulerInv, EachTimeOnce, NextFire
  <2> QED BY <1>2, <1>3, <2>3 DEF SchedulerInv
<1>5. CASE SubmitRaises
  <2>1. Rounds' /\ EachTimeOnce'
    BY <1>5 DEF SubmitRaises, Rounds, EachTimeOnce
  <2> QED BY <1>2, <1>3, <2>1 DEF SchedulerInv
<1> QED BY <1>4, <1>5

-----------------------------------------------------------------------------
(* The pool's threads.                                                      *)

\* A call goes on with some of its run times, and counts as running or not.
LEMMA CallGoesOn ==
  ASSUME Types, OwnRunTimes, NEW c \in calls, NEW d \in CallRecords,
         d.job = c.job, d.times \subseteq c.times,
         calls' = (calls \ {c}) \cup {d}, UNCHANGED fired
  PROVE  /\ calls' \subseteq CallRecords
         /\ OwnRunTimes'
         /\ \A j \in Jobs :
              RunningOf(j)' = (RunningOf(j) \ {c})
                              \cup (IF j = c.job /\ d.at = "run" THEN {d} ELSE {})
<1>1. c \in CallRecords
  BY DEF Types
<1>2. calls' = (calls \ {c}) \cup {d}
  OBVIOUS
<1>3. calls' \subseteq CallRecords
  BY <1>1, <1>2 DEF Types
<1>4. OwnRunTimes'
  <2>1. \A e \in calls' : e.times \subseteq fired'[e.job]
    BY <1>1, <1>2 DEF OwnRunTimes
  <2>2. ASSUME NEW e \in calls', NEW f \in calls', e.job = f.job, e # f PROVE e.times \cap f.times = {}
    <3>1. CASE e # d /\ f # d
      BY <1>2, <2>2, <3>1 DEF OwnRunTimes
    <3>2. CASE e = d /\ f # d
      <4>1. f \in calls /\ f # c /\ f.job = c.job
        BY <1>1, <1>2, <2>2, <3>2
      <4>2. c.times \cap f.times = {}
        BY <4>1 DEF OwnRunTimes
      <4> QED BY <1>1, <3>2, <4>2
    <3>3. CASE e # d /\ f = d
      <4>1. e \in calls /\ e # c /\ e.job = c.job
        BY <1>1, <1>2, <2>2, <3>3
      <4>2. e.times \cap c.times = {}
        BY <4>1 DEF OwnRunTimes
      <4> QED BY <1>1, <3>3, <4>2
    <3> QED BY <2>2, <3>1, <3>2, <3>3
  <2> QED BY <2>1, <2>2 DEF OwnRunTimes
<1>5. ASSUME NEW j \in Jobs
      PROVE  RunningOf(j)' = (RunningOf(j) \ {c}) \cup (IF j = c.job /\ d.at = "run" THEN {d} ELSE {})
  BY <1>1, <1>2 DEF RunningOf
<1> QED BY <1>3, <1>4, <1>5

\* A call ends.
LEMMA CallEnds ==
  ASSUME Types, OwnRunTimes, NEW c \in calls, calls' = calls \ {c}, UNCHANGED fired
  PROVE  /\ calls' \subseteq CallRecords
         /\ OwnRunTimes'
         /\ \A j \in Jobs : RunningOf(j)' = RunningOf(j) \ {c}
  BY DEF Types, OwnRunTimes, RunningOf

\* Rest is the one or the other.
LEMMA RestOfCall ==
  ASSUME Types, OwnRunTimes, NEW c \in calls, NEW times \in SUBSET c.times,
         calls' = Rest(c, times), UNCHANGED fired
  PROVE  /\ calls' \subseteq CallRecords
         /\ OwnRunTimes'
         /\ \A j \in Jobs : RunningOf(j)' = RunningOf(j) \ {c}
<1>1. CASE times = {}
  BY <1>1, CallEnds DEF Rest
<1>2. CASE times # {}
  <2>1. PICK d : d = [c EXCEPT !.times = times, !.at = "next"]
    OBVIOUS
  <2>2. calls' = (calls \ {c}) \cup {d}
    BY <1>2, <2>1 DEF Rest
  <2>3. d \in CallRecords /\ d.job = c.job /\ d.times \subseteq c.times /\ d.at # "run"
    <3>1. c \in CallRecords /\ times \in (SUBSET Nat) \ {{}}
      BY <1>2 DEF Types, CallRecords
    <3> QED BY <2>1, <3>1 DEF CallRecords
  <2> QED BY <2>2, <2>3, CallGoesOn
<1> QED BY <1>1, <1>2

\* What the steps of the calls have in common.
LEMMA CallStep ==
  ASSUME SchedulerInv, OwnRunTimes', instances' \in [Jobs -> Nat],
         calls' \subseteq CallRecords,
         UNCHANGED <<now, clientVars, loopVars, jobVars>>,
         \A j \in Jobs : /\ IsFiniteSet(RunningOf(j)')
                         /\ instances'[j] = Cardinality(RunningOf(j)')
                         /\ instances'[j] <= max_instances[j]
  PROVE  SchedulerInv'
<1> USE DEF clientVars, loopVars, jobVars
<1>1. Types'
  BY DEF SchedulerInv, Types
<1>2. Fresh' /\ EachTimeOnce'
  BY DEF SchedulerInv, Fresh, EachTimeOnce, NextFire
<1>3. InstancesCounted'
  BY DEF InstancesCounted, RunningOf
<1>4. Rounds'
  <2>1. \A j \in round : j \in store
    BY DEF SchedulerInv, Rounds, Due
  <2> QED BY <2>1, RoundKept DEF SchedulerInv
<1> QED BY <1>1, <1>2, <1>3, <1>4 DEF SchedulerInv

\* The count before a step.
LEMMA Counts ==
  ASSUME SchedulerInv, NEW j \in Jobs
  PROVE  /\ IsFiniteSet(RunningOf(j)) /\ instances[j] = Cardinality(RunningOf(j))
         /\ instances[j] \in Nat /\ instances[j] <= max_instances[j] /\ max_instances[j] \in Nat
  BY SchedulerAssumption DEF SchedulerInv, InstancesCounted, RunningOf, Types

\* Nothing that was not running begins or stops to.
LEMMA NoneBegins ==
  ASSUME SchedulerInv, OwnRunTimes', instances' = instances,
         calls' \subseteq CallRecords,
         UNCHANGED <<now, clientVars, loopVars, jobVars>>,
         \A j \in Jobs : RunningOf(j)' = RunningOf(j)
  PROVE  SchedulerInv'
<1>1. instances' \in [Jobs -> Nat]
  BY DEF SchedulerInv, Types
<1>2. ASSUME NEW j \in Jobs
      PROVE  /\ IsFiniteSet(RunningOf(j)') /\ instances'[j] = Cardinality(RunningOf(j)')
             /\ instances'[j] <= max_instances[j]
  BY Counts
<1> QED BY <1>1, <1>2, CallStep

LEMMA RunNextInv ==
  ASSUME SchedulerInv, NEW c \in calls, RunNext(c)
  PROVE  SchedulerInv'
<1>1. /\ UNCHANGED <<now, clientVars, loopVars, jobVars>> /\ UNCHANGED fired
      /\ c.at \in {"queued", "next"} /\ Types /\ OwnRunTimes
      /\ c \in CallRecords
  BY DEF RunNext, jobVars, SchedulerInv, Types
<1>2. \A j \in Jobs : RunningOf(j) \ {c} = RunningOf(j)
  BY <1>1 DEF RunningOf
<1>3. CASE calls' = Rest(c, c.times \ {Min(c.times)}) /\ instances' = instances
  <2>1. c.times \ {Min(c.times)} \in SUBSET c.times
    OBVIOUS
  <2> HIDE DEF Rest
  <2> QED BY <1>1, <1>2, <1>3, <2>1, RestOfCall, NoneBegins
<1>4. CASE calls' = calls \ {c} /\ instances' = instances
  BY <1>1, <1>2, <1>4, CallEnds, NoneBegins
<1>5. CASE /\ instances[c.job] # max_instances[c.job]
           /\ instances' = [instances EXCEPT ![c.job] = @ + 1]
           /\ calls' = (calls \ {c}) \cup {[c EXCEPT !.at = "run"]}
  <2>0. PICK d : d = [c EXCEPT !.at = "run"]
    OBVIOUS
  <2>1. d \in CallRecords /\ d.job = c.job /\ d.times = c.times /\ d.at = "run" /\ c.times # {}
        /\ c.job \in Jobs
    BY <1>1, <2>0 DEF CallRecords
  <2>2. /\ calls' \subseteq CallRecords /\ OwnRunTimes'
        /\ \A j \in Jobs : RunningOf(j)' = (RunningOf(j) \ {c}) \cup (IF j = c.job THEN {d} ELSE {})
    <3>1. calls' = (calls \ {c}) \cup {d}
      BY <1>5, <2>0
    <3> QED BY <1>1, <2>1, <3>1, CallGoesOn
  <2>3. d \notin calls
    BY <1>1, <2>1 DEF OwnRunTimes
  <2>4. instances' \in [Jobs -> Nat]
    BY <1>1, <1>5, <2>1 DEF Types
  <2>5. ASSUME NEW j \in Jobs
        PROVE  /\ IsFiniteSet(RunningOf(j)') /\ instances'[j] = Cardinality(RunningOf(j)')
               /\ instances'[j] <= max_instances[j]
    <3>1. CASE j = c.job
      <4>1. RunningOf(j)' = RunningOf(j) \cup {d} /\ d \notin RunningOf(j)
        BY <1>2, <2>2, <2>3, <3>1 DEF RunningOf
      <4>2. IsFiniteSet(RunningOf(j)') /\ Cardinality(RunningOf(j)') = Cardinality(RunningOf(j)) + 1
        BY <4>1, Counts, FS_AddElement
      <4>3. instances'[j] = instances[j] + 1 /\ instances[j] # max_instances[j]
        BY <1>1, <1>5, <3>1 DEF Types
      <4> QED BY <4>2, <4>3, Counts
    <3>2. CASE j # c.job
      <4>1. RunningOf(j)' = RunningOf(j) /\ instances'[j] = instances[j]
        BY <1>1, <1>2, <1>5, <2>2, <3>2 DEF Types
      <4> QED BY <4>1, Counts
    <3> QED BY <3>1, <3>2
  <2> QED BY <1>1, <2>2, <2>4, <2>5, CallStep
<1> QED BY <1>3, <1>4, <1>5 DEF RunNext, Full

LEMMA RunEndsInv ==
  ASSUME SchedulerInv, NEW c \in calls, RunEnds(c)
  PROVE  SchedulerInv'
<1>1. /\ UNCHANGED <<now, clientVars, loopVars, jobVars>> /\ UNCHANGED fired
      /\ c.at = "run" /\ Types /\ OwnRunTimes /\ c.job \in Jobs
      /\ instances' = [instances EXCEPT ![c.job] = @ - 1]
  BY DEF CallRecords, RunEnds, jobVars, SchedulerInv, Types
<1>2. PICK times \in SUBSET c.times : calls' = Rest(c, times)
  BY DEF RunEnds
<1>3. /\ calls' \subseteq CallRecords
      /\ OwnRunTimes' /\ \A j \in Jobs : RunningOf(j)' = RunningOf(j) \ {c}
  BY <1>1, <1>2, RestOfCall
<1>4. ASSUME NEW j \in Jobs
      PROVE  /\ IsFiniteSet(RunningOf(j)') /\ instances'[j] = Cardinality(RunningOf(j)')
             /\ instances'[j] <= max_instances[j] /\ instances'[j] \in Nat
  <2>1. CASE j = c.job
    <3>1. c \in RunningOf(j)
      BY <1>1, <2>1 DEF RunningOf
    <3>2. IsFiniteSet(RunningOf(j)') /\ Cardinality(RunningOf(j)') = Cardinality(RunningOf(j)) - 1
          /\ Cardinality(RunningOf(j)') \in Nat
      BY <1>3, <3>1, Counts, FS_RemoveElement, FS_CardinalityType
    <3>3. instances'[j] = instances[j] - 1
      BY <1>1, <2>1 DEF Types
    <3> QED BY <3>2, <3>3, Counts
  <2>2. CASE j # c.job
    <3>1. RunningOf(j)' = RunningOf(j) /\ instances'[j] = instances[j]
      BY <1>1, <1>3, <2>2 DEF RunningOf, Types
    <3> QED BY <3>1, Counts
  <2> QED BY <2>1, <2>2
<1>5. instances' \in [Jobs -> Nat]
  BY <1>1, <1>4 DEF Types
<1> QED BY <1>1, <1>3, <1>4, <1>5, CallStep

\* The shutdown of the pool drops calls that have not begun.
LEMMA ShutPoolInv ==
  ASSUME SchedulerInv, ShutPool
  PROVE  SchedulerInv'
<1> USE DEF clientVars, loopVars, jobVars
<1>1. /\ calls' \subseteq calls /\ \A j \in Jobs : RunningOf(j)' = RunningOf(j)
      /\ UNCHANGED <<now, adding, pending, start_date, loopVars, jobVars, instances>>
      /\ client' = "join"
  BY DEF ShutPool, RunningOf
<1>2. Types' /\ OwnRunTimes'
  BY <1>1 DEF SchedulerInv, Types, OwnRunTimes
<1>3. Fresh' /\ EachTimeOnce'
  BY <1>1 DEF SchedulerInv, Fresh, EachTimeOnce, NextFire
<1>4. InstancesCounted' /\ \A j \in Jobs : IsFiniteSet(RunningOf(j)')
  BY <1>1 DEF SchedulerInv, InstancesCounted, RunningOf
<1>5. Rounds'
  <2>1. \A j \in round : j \in store
    BY DEF SchedulerInv, Rounds, Due
  <2> QED BY <1>1, <2>1, RoundKept DEF SchedulerInv
<1> QED BY <1>2, <1>3, <1>4, <1>5 DEF SchedulerInv

-----------------------------------------------------------------------------
\* The inductive invariant.
THEOREM SchedulerInvariance == Spec => []SchedulerInv
<1>1. SchedulerInv /\ [Next]_vars => SchedulerInv'
  <2> SUFFICES ASSUME SchedulerInv, [Next]_vars PROVE SchedulerInv'
    OBVIOUS
  <2>1. CASE Others
    BY <2>1, OthersInv
  <2>2. CASE Client
    BY <2>2, ClientInv
  <2>3. CASE Round
    <3>1. ASSUME NEW j \in round, SubmitPut(j) \/ SubmitReturns(j) PROVE SchedulerInv'
      <4>1. SubmitReturns(j) => j \in submitting
        BY DEF SubmitReturns
      <4> QED BY <3>1, <4>1, SubmitPutInv, SubmitReturnsInv
    <3>2. CASE RoundEnds
      BY <3>2, OthersInv DEF Others
    <3> QED BY <2>3, <3>1, <3>2, RoundInv DEF Round
  <2>4. CASE ShutPool
    BY <2>4, ShutPoolInv
  <2>5. CASE Run
    BY <2>5, RunNextInv, RunEndsInv DEF Run
  <2> QED BY <2>1, <2>2, <2>3, <2>4, <2>5 DEF Next, Add, Shutdown, Loop, Others, Client
<1> QED BY InitInv, <1>1, PTL DEF Spec

\* While the scheduler's thread lives it submits every run time of a job that is in
\* the store once and skips none, however late it is and whatever is added,
\* removed or fails meanwhile.
THEOREM RunTimesOnceAndAll == Spec => []EachTimeOnce
<1>1. SchedulerInv => EachTimeOnce
  BY DEF SchedulerInv
<1> QED BY <1>1, SchedulerInvariance, PTL

\* A job never runs more often at a time than it may, and the count it keeps is
\* the number of its calls that run.
THEOREM InstancesInBounds == Spec => []InstancesCounted
<1>1. SchedulerInv => InstancesCounted
  BY DEF SchedulerInv
<1> QED BY <1>1, SchedulerInvariance, PTL
=============================================================================
