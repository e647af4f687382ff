----------------------------- MODULE AlertProofs -----------------------------
(***************************************************************************)
(* Theorems about Alert, for every set of tasks and every number of        *)
(* rotations.                                                              *)
(***************************************************************************)
EXTENDS Alert, FiniteSetTheorems, TLAPS

Result == [at : Time, firing : BOOLEAN]

(* Every variable has its type: the two reset points, the transitions of   *)
(* computeAlertState and the records made from them stay inside it.        *)
LEMMA InitTyped == Init => TypeOK
BY AlertAssumption DEF Init, TypeOK, AlertState, Record, Time

LEMMA HandleTyped ==
  ASSUME TypeOK, NEW now \in inflight, NEW isFiring \in BOOLEAN,
         HandleAlertState(now, isFiring)
  PROVE  TypeOK'
<1> USE DEF TypeOK
<1>1. now \in Time /\ now \in 0 .. MaxTime /\ now \in Nat
  BY AlertAssumption DEF Time
<1>2. NewState(isFiring, now) \in AlertState
  BY DEF NewState, AlertState
<1>3. NewSince(isFiring, now) \in 0 .. MaxTime
  BY <1>1, AlertAssumption DEF NewSince
<1>4. NewLast(NewState(isFiring, now), now) \in 0 .. MaxTime
  BY <1>1 DEF NewLast
<1>5. [old |-> alertState, new |-> NewState(isFiring, now), at |-> now] \in Record
  BY <1>1, <1>2 DEF Record
<1>6. [at |-> now, firing |-> isFiring] \in Result
  BY <1>1 DEF Result
<1>7. records' \in Seq(Record) /\ stored' \in Seq(Record)
  BY <1>5 DEF HandleAlertState
<1>8. log' \in Seq(Result)
  BY <1>6 DEF HandleAlertState, Result
<1>9. totalAlertsFired' \in Nat
  BY DEF HandleAlertState
<1>10. /\ task' \in Task /\ clock' \in 0 .. MaxTime /\ inflight' \subseteq Time
       /\ alertState' \in AlertState
       /\ pendingSince' \in 0 .. MaxTime /\ lastFiredAt' \in 0 .. MaxTime
  BY <1>2, <1>3, <1>4 DEF HandleAlertState
<1> QED BY <1>7, <1>8, <1>9, <1>10 DEF Result

LEMMA NextTyped == TypeOK /\ [Next]_vars => TypeOK'
<1> SUFFICES ASSUME TypeOK, [Next]_vars PROVE TypeOK'
  OBVIOUS
<1>1. ASSUME NEW t \in Task, AddTask(t) PROVE TypeOK'
  BY <1>1, AlertAssumption DEF TypeOK, AddTask, ResetAlertState, AlertState, Time
<1>2. CASE Tick
  <2>1. clock' \in 0 .. MaxTime /\ inflight' \subseteq Time
    BY <1>2, AlertAssumption DEF Tick, TypeOK, Time
  <2> QED BY <1>2, <2>1 DEF Tick, TypeOK, nodeVars, outVars
<1>3. ASSUME NEW now \in inflight, NoResult(now) PROVE TypeOK'
  BY <1>3 DEF NoResult, TypeOK, nodeVars, outVars
<1>4. CASE UNCHANGED vars
  BY <1>4 DEF vars, TypeOK, nodeVars, outVars
<1> QED BY <1>1, <1>2, <1>3, <1>4, HandleTyped DEF Next

THEOREM AlertIsTyped == Spec => []TypeOK
BY InitTyped, NextTyped, PTL DEF Spec
-----------------------------------------------------------------------------
(* pendingSince is zero or the time of the first result of the current     *)
(* streak of firing results, and zero only without a streak or after it    *)
(* reached For.                                                            *)
SinceRight ==
  LET n == Len(log)
  IN /\ pendingSince # 0 =>
          \E i \in 1 .. n : Streak(i, n) /\ log[i].at = pendingSince
     /\ pendingSince = 0 => log = <<>> \/ ~log[n].firing \/ Held(n)

AlertInv == TypeOK /\ StateFollowsResults /\ SinceRight

(* A streak that held ends with a firing result.                           *)
LEMMA HeldFires ==
  ASSUME NEW n \in Nat, Held(n)
  PROVE  n \in 1 .. n /\ log[n].firing
BY DEF Held, Streak

(* Of the state, StateFollowsResults says in particular when it is Firing. *)
LEMMA FiringIsHeld ==
  ASSUME TypeOK, StateFollowsResults
  PROVE  alertState = "Firing" <=> Held(Len(log))
<1>1. Len(log) \in Nat
  BY DEF TypeOK
<1>2. Held(Len(log)) => log[Len(log)].firing
  BY <1>1, HeldFires
<1>3. CASE Held(Len(log))
  BY <1>2, <1>3 DEF StateFollowsResults, Expected
<1>4. CASE ~Held(Len(log))
  BY <1>4 DEF StateFollowsResults, Expected
<1> QED BY <1>3, <1>4

(* A new result changes nothing about the earlier ones.                    *)
LEMMA Prefix ==
  ASSUME TypeOK, task' = task, NEW r \in Result, log' = Append(log, r)
  PROVE  /\ Len(log) \in Nat
         /\ Len(log') = Len(log) + 1
         /\ log'[Len(log) + 1] = r
         /\ \A k \in 1 .. Len(log) : log'[k] = log[k]
BY DEF TypeOK, Result

LEMMA PrefixStreak ==
  ASSUME TypeOK, task' = task, NEW r \in Result, log' = Append(log, r),
         NEW n \in 0 .. Len(log), NEW i \in 1 .. n
  PROVE  Streak(i, n)' <=> Streak(i, n)
<1>1. \A k \in i .. n : log'[k] = log[k]
  BY Prefix
<1>2. i > 1 => log'[i - 1] = log[i - 1]
  BY Prefix
<1> QED BY <1>1, <1>2 DEF Streak

LEMMA PrefixHeld ==
  ASSUME TypeOK, task' = task, NEW r \in Result, log' = Append(log, r),
         NEW n \in 0 .. Len(log)
  PROVE  Held(n)' <=> Held(n)
<1>1. \A i \in 1 .. n : Streak(i, n)' <=> Streak(i, n)
  BY PrefixStreak
<1>2. \A i \in 1 .. n : log'[i] = log[i] /\ \A j \in i .. n : log'[j] = log[j]
  BY Prefix
<1> QED BY <1>1, <1>2 DEF Held

(* A result that is not firing ends the streak.                            *)
LEMMA NotFiring ==
  ASSUME TypeOK, task' = task, NEW r \in Result, log' = Append(log, r), ~r.firing,
         NEW n \in Nat, n = Len(log) + 1
  PROVE  ~Held(n)'
<1>1. ~log'[n].firing
  BY Prefix
<1>2. \A i \in 1 .. n : ~Streak(i, n)'
  BY <1>1 DEF Streak
<1> QED BY <1>2 DEF Held

(* A firing result lengthens the streak, or starts one.                    *)
LEMMA Lengthened ==
  ASSUME TypeOK, task' = task, NEW r \in Result, log' = Append(log, r), r.firing,
         NEW m \in Nat, m = Len(log), NEW n \in Nat, n = m + 1
  PROVE  /\ \A i \in 1 .. m : Streak(i, m) => Streak(i, n)'
         /\ log = <<>> \/ ~log[m].firing => Streak(n, n)'
<1>1. log'[n].firing /\ \A k \in 1 .. m : log'[k] = log[k]
  BY Prefix
<1>2. ASSUME NEW i \in 1 .. m, Streak(i, m) PROVE Streak(i, n)'
  <2>1. \A k \in i .. m : log'[k].firing
    BY <1>1, <1>2 DEF Streak
  <2>2. \A k \in i .. n : log'[k].firing
    BY <1>1, <2>1
  <2>3. i > 1 => ~log'[i - 1].firing
    BY <1>1, <1>2 DEF Streak
  <2> QED BY <2>2, <2>3 DEF Streak
<1>3. ASSUME log = <<>> \/ ~log[m].firing PROVE Streak(n, n)'
  <2>1. n > 1 => m \in 1 .. m /\ log # <<>>
    BY DEF TypeOK
  <2>2. n > 1 => ~log'[n - 1].firing
    BY <1>1, <1>3, <2>1
  <2>3. \A k \in n .. n : log'[k].firing
    BY <1>1
  <2> QED BY <2>2, <2>3 DEF Streak
<1> QED BY <1>2, <1>3

(* A streak that held goes on to hold with one more firing result.         *)
LEMMA GoesOn ==
  ASSUME TypeOK, task' = task, NEW r \in Result, log' = Append(log, r), r.firing,
         NEW m \in Nat, m = Len(log), NEW n \in Nat, n = m + 1, Held(m)
  PROVE  Held(n)'
<1>1. PICK i \in 1 .. m : Streak(i, m) /\ \E j \in i .. m : log[j].at - log[i].at >= task.For
  BY DEF Held
<1>2. PICK j \in i .. m : log[j].at - log[i].at >= task.For
  BY <1>1
<1>3. log'[i] = log[i] /\ log'[j] = log[j]
  BY Prefix
<1>4. Streak(i, n)'
  BY <1>1, Lengthened
<1>5. i \in 1 .. n /\ j \in i .. n
  OBVIOUS
<1>6. log'[j].at - log'[i].at >= task'.For
  BY <1>2, <1>3
<1> QED BY <1>4, <1>5, <1>6 DEF Held

(* A streak that had not held holds when its last result is For later than *)
(* its first.                                                              *)
LEMMA Reaches ==
  ASSUME TypeOK, task' = task, NEW r \in Result, log' = Append(log, r), r.firing,
         NEW m \in Nat, m = Len(log), NEW n \in Nat, n = m + 1, ~Held(m),
         NEW i \in 1 .. n, Streak(i, n)'
  PROVE  Held(n)' <=> r.at - log'[i].at >= task.For
<1>1. log'[n] = r /\ n \in i .. n
  BY Prefix
<1>2. ASSUME r.at - log'[i].at >= task.For PROVE Held(n)'
  BY <1>1, <1>2 DEF Held
<1>3. ASSUME Held(n)' PROVE r.at - log'[i].at >= task.For
  <2>1. PICK s \in 1 .. n : Streak(s, n)' /\ \E j \in s .. n : log'[j].at - log'[s].at >= task'.For
    BY <1>3 DEF Held
  <2>2. s = i
    <3>1. ~(s < i)
      <4> SUFFICES ASSUME s < i PROVE FALSE
        OBVIOUS
      <4>1. ~log'[i - 1].firing /\ i - 1 \in s .. n
        BY DEF Streak
      <4> QED BY <2>1, <4>1 DEF Streak
    <3>2. ~(i < s)
      <4> SUFFICES ASSUME i < s PROVE FALSE
        OBVIOUS
      <4>1. ~log'[s - 1].firing /\ s - 1 \in i .. n
        BY <2>1 DEF Streak
      <4> QED BY <4>1 DEF Streak
    <3> QED BY <3>1, <3>2
  <2>3. PICK j \in i .. n : log'[j].at - log'[i].at >= task'.For
    BY <2>1, <2>2
  <2>4. CASE j = n
    BY <1>1, <2>3, <2>4
  <2>5. CASE j # n
    <3>1. j \in i .. m /\ i \in 1 .. m
      BY <2>5
    <3>2. log'[i] = log[i] /\ log'[j] = log[j]
      BY <3>1, Prefix
    <3>3. Streak(i, m)
      <4>1. \A k \in i .. m : log'[k] = log[k] /\ log'[k].firing
        BY Prefix DEF Streak
      <4>2. i > 1 => log'[i - 1] = log[i - 1] /\ ~log'[i - 1].firing
        BY <3>1, Prefix DEF Streak
      <4> QED BY <4>1, <4>2 DEF Streak
    <3>4. Held(m)
      BY <2>3, <3>1, <3>2, <3>3 DEF Held
    <3> QED BY <3>4
  <2> QED BY <2>4, <2>5
<1> QED BY <1>2, <1>3

(* Each of the four ways computeAlertState goes keeps the invariant.       *)
LEMMA HandleRight ==
  ASSUME AlertInv, NEW now \in inflight, NEW isFiring \in BOOLEAN,
         HandleAlertState(now, isFiring)
  PROVE  StateFollowsResults' /\ SinceRight'
<1> DEFINE r == [at |-> now, firing |-> isFiring]
<1> USE DEF AlertInv
<1>1. /\ now \in Time /\ now \in Nat /\ now # 0
      /\ task.For \in Nat /\ pendingSince \in Nat
  BY AlertAssumption DEF TypeOK, Time
<1>2. r \in Result /\ r.at = now /\ r.firing = isFiring
  BY <1>1 DEF Result
<1>3. /\ task' = task /\ log' = Append(log, r)
      /\ alertState' = NewState(isFiring, now)
      /\ pendingSince' = NewSince(isFiring, now)
  BY DEF HandleAlertState
<1> HIDE DEF r
<1>4. PICK m \in Nat : m = Len(log)
  BY DEF TypeOK
<1>5. PICK n \in Nat : n = m + 1
  OBVIOUS
<1>6. Len(log') = n /\ log'[n] = r /\ log' # <<>>
  BY <1>2, <1>3, <1>4, <1>5, Prefix
<1>7. Held(m)' <=> Held(m)
  BY <1>2, <1>3, <1>4, PrefixHeld
<1>8. alertState = "Firing" <=> Held(m)
  BY <1>4, FiringIsHeld
<1>9. Held(n)' /\ isFiring /\ alertState' = "Firing" => StateFollowsResults'
  BY <1>2, <1>6 DEF StateFollowsResults, Expected
<1>10. ~Held(n)' /\ isFiring /\ alertState' = "Pending" => StateFollowsResults'
  BY <1>2, <1>6 DEF StateFollowsResults, Expected
<1>11. CASE ~isFiring
  <2>1. ~Held(n)'
    BY <1>2, <1>3, <1>4, <1>5, <1>11, NotFiring
  <2>2. n - 1 = m
    BY <1>5
  <2>3. alertState' = (IF Held(m) THEN "Resolved" ELSE "Pending") /\ pendingSince' = 0
    BY <1>3, <1>8, <1>11 DEF NewState, NewSince
  <2>4. StateFollowsResults'
    BY <1>2, <1>6, <1>7, <1>11, <2>1, <2>2, <2>3 DEF StateFollowsResults, Expected
  <2> QED BY <1>2, <1>6, <1>11, <2>3, <2>4 DEF SinceRight
<1>12. CASE isFiring /\ alertState = "Firing"
  <2>1. Held(n)'
    BY <1>2, <1>3, <1>4, <1>5, <1>8, <1>12, GoesOn
  <2>2. alertState' = "Firing" /\ pendingSince' = pendingSince
    BY <1>1, <1>3, <1>12 DEF NewState, NewSince
  <2>3. ASSUME pendingSince # 0
        PROVE  \E i \in 1 .. n : Streak(i, n)' /\ log'[i].at = pendingSince
    <3>1. PICK i \in 1 .. m : Streak(i, m) /\ log[i].at = pendingSince
      BY <1>4, <2>3 DEF SinceRight
    <3>2. Streak(i, n)' /\ log'[i] = log[i]
      BY <1>2, <1>3, <1>4, <1>5, <1>12, <3>1, Lengthened, Prefix
    <3> QED BY <1>5, <3>1, <3>2
  <2> QED BY <1>6, <1>9, <1>12, <2>1, <2>2, <2>3 DEF SinceRight
<1>13. CASE isFiring /\ alertState # "Firing" /\ pendingSince # 0
  <2>1. PICK i \in 1 .. m : Streak(i, m) /\ log[i].at = pendingSince
    BY <1>4, <1>13 DEF SinceRight
  <2>2. Streak(i, n)' /\ log'[i] = log[i] /\ i \in 1 .. n
    <3>1. r.firing
      BY <1>2, <1>13
    <3>2. Streak(i, n)'
      BY <1>2, <1>3, <1>4, <1>5, <2>1, <3>1, Lengthened
    <3>3. log'[i] = log[i]
      BY <1>2, <1>3, <1>4, Prefix
    <3> QED BY <1>5, <3>2, <3>3
  <2>3. Held(n)' <=> now - pendingSince >= task.For
    BY <1>2, <1>3, <1>4, <1>5, <1>8, <1>13, <2>1, <2>2, Reaches
  <2>4. task.For # 0
    <3> SUFFICES ASSUME task.For = 0 PROVE FALSE
      OBVIOUS
    <3>1. log[i].at - log[i].at >= task.For
      BY <1>1, <2>1
    <3>2. i \in i .. m
      OBVIOUS
    <3> QED BY <1>8, <1>13, <2>1, <3>1, <3>2 DEF Held
  <2>5. CASE ForReached(now)
    <3>1. Held(n)'
      BY <1>13, <2>3, <2>4, <2>5 DEF ForReached
    <3>2. alertState' = "Firing" /\ pendingSince' = 0
      BY <1>3, <1>13, <2>5 DEF NewState, NewSince
    <3> QED BY <1>6, <1>9, <1>13, <3>1, <3>2 DEF SinceRight
  <2>6. CASE ~ForReached(now)
    <3>1. ~Held(n)'
      BY <1>13, <2>3, <2>4, <2>6 DEF ForReached
    <3>2. alertState' = "Pending" /\ pendingSince' = pendingSince
      BY <1>3, <1>13, <2>6 DEF NewState, NewSince
    <3> QED BY <1>6, <1>10, <1>13, <2>1, <2>2, <3>1, <3>2 DEF SinceRight
  <2> QED BY <2>5, <2>6
<1>14. CASE isFiring /\ alertState # "Firing" /\ pendingSince = 0
  <2>1. log = <<>> \/ ~log[m].firing
    BY <1>4, <1>8, <1>14 DEF SinceRight
  <2>2. Streak(n, n)' /\ n \in 1 .. n
    <3>1. r.firing
      BY <1>2, <1>14
    <3>2. Streak(n, n)'
      BY <1>2, <1>3, <1>4, <1>5, <2>1, <3>1, Lengthened
    <3> QED BY <1>5, <3>2
  <2>3. Held(n)' <=> r.at - log'[n].at >= task.For
    BY <1>2, <1>3, <1>4, <1>5, <1>8, <1>14, <2>2, Reaches
  <2>4. Held(n)' <=> ForReached(now)
    BY <1>1, <1>2, <1>6, <1>14, <2>3 DEF ForReached
  <2>5. CASE ForReached(now)
    <3>1. alertState' = "Firing" /\ pendingSince' = 0
      BY <1>3, <1>14, <2>5 DEF NewState, NewSince
    <3> QED BY <1>6, <1>9, <1>14, <2>4, <2>5, <3>1 DEF SinceRight
  <2>6. CASE ~ForReached(now)
    <3>1. alertState' = "Pending" /\ pendingSince' = now
      BY <1>3, <1>14, <2>6 DEF NewState, NewSince
    <3>2. log'[n].at = now
      BY <1>2, <1>6
    <3> QED BY <1>1, <1>6, <1>10, <1>14, <2>2, <2>4, <2>6, <3>1, <3>2 DEF SinceRight
  <2> QED BY <2>5, <2>6
<1> QED BY <1>11, <1>12, <1>13, <1>14

(* What the two formulas are about does not change.                        *)
LEMMA AlertFrame ==
  ASSUME StateFollowsResults, SinceRight, UNCHANGED <<task, alertState, pendingSince, log>>
  PROVE  StateFollowsResults' /\ SinceRight'
BY DEF StateFollowsResults, SinceRight, Expected, Held, Streak

(* A node's first state is that of no results.                             *)
LEMMA InitRight == Init => AlertInv
<1> SUFFICES ASSUME Init PROVE StateFollowsResults /\ SinceRight
  BY InitTyped DEF AlertInv
<1>1. Len(log) = 0 /\ log = <<>> /\ alertState = "Pending" /\ pendingSince = 0
  BY DEF Init
<1>2. ~Held(Len(log))
  BY <1>1 DEF Held
<1> QED BY <1>1, <1>2 DEF StateFollowsResults, SinceRight, Expected

LEMMA AddRight ==
  ASSUME NEW t \in Task, AddTask(t)
  PROVE  StateFollowsResults' /\ SinceRight'
<1>1. Len(log') = 0 /\ log' = <<>> /\ alertState' = "Pending" /\ pendingSince' = 0
  BY DEF AddTask, ResetAlertState
<1>2. ~Held(Len(log))'
  BY <1>1 DEF Held
<1> QED BY <1>1, <1>2 DEF StateFollowsResults, SinceRight, Expected

LEMMA NextRight == AlertInv /\ [Next]_vars => AlertInv'
<1> SUFFICES ASSUME AlertInv, [Next]_vars PROVE StateFollowsResults' /\ SinceRight'
  BY NextTyped DEF AlertInv
<1>1. ASSUME NEW now \in inflight, NEW isFiring \in BOOLEAN, HandleAlertState(now, isFiring)
      PROVE  StateFollowsResults' /\ SinceRight'
  BY <1>1, HandleRight
<1>2. CASE Tick
  BY <1>2, AlertFrame DEF Tick, AlertInv, nodeVars
<1>3. ASSUME NEW now \in inflight, NoResult(now)
      PROVE  StateFollowsResults' /\ SinceRight'
  BY <1>3, AlertFrame DEF NoResult, AlertInv, nodeVars
<1>4. CASE UNCHANGED vars
  BY <1>4, AlertFrame DEF AlertInv, vars, nodeVars
<1> QED BY <1>1, <1>2, <1>3, <1>4, AddRight DEF Next

(* The alert state is a function of the results handled since the task was *)
(* added: computeAlertState with its pendingSince computes Expected.       *)
THEOREM StateIsRight == Spec => []StateFollowsResults
<1>1. AlertInv => StateFollowsResults
  BY DEF AlertInv
<1> QED BY <1>1, InitRight, NextRight, PTL DEF Spec
-----------------------------------------------------------------------------
(* Handled in order, the results between the first and the last of a       *)
(* streak are the results between their times.                             *)
LEMMA HeldInOrder == AlertInv => HeldWhenInOrder
<1> SUFFICES ASSUME AlertInv, InOrder, alertState = "Firing"
             PROVE  \E i, j \in 1 .. Len(log) :
                      /\ log[j].at - log[i].at >= task.For
                      /\ \A k \in 1 .. Len(log) :
                           log[k].at \in log[i].at .. log[j].at => log[k].firing
  BY DEF HeldWhenInOrder, HeldThroughout
<1>1. Held(Len(log)) /\ Len(log) \in Nat
  BY FiringIsHeld DEF AlertInv, TypeOK
<1>2. PICK i \in 1 .. Len(log) :
        Streak(i, Len(log)) /\ \E j \in i .. Len(log) : log[j].at - log[i].at >= task.For
  BY <1>1 DEF Held
<1>3. PICK j \in i .. Len(log) : log[j].at - log[i].at >= task.For
  BY <1>2
<1>4. \A k \in 1 .. Len(log) : log[k].at \in Nat
  <2>1. log \in Seq(Result)
    BY DEF AlertInv, TypeOK, Result
  <2>2. \A k \in 1 .. Len(log) : log[k] \in Result
    BY <2>1
  <2>3. Time \subseteq Nat
    BY AlertAssumption DEF Time
  <2> QED BY <2>2, <2>3 DEF Result
<1>5. ASSUME NEW k \in 1 .. Len(log), log[k].at \in log[i].at .. log[j].at
      PROVE  log[k].firing
  <2>1. ~(k < i)
    BY <1>1, <1>4, <1>5 DEF InOrder
  <2>2. k \in i .. Len(log)
    BY <1>1, <2>1
  <2> QED BY <1>2, <2>2 DEF Streak
<1> QED BY <1>1, <1>3, <1>5

(* A task whose results are handled in order is Firing only after its      *)
(* condition held throughout an interval of For.                           *)
THEOREM FiringHeldThroughout == Spec => []HeldWhenInOrder
BY HeldInOrder, InitRight, NextRight, PTL DEF Spec
-----------------------------------------------------------------------------
(* While the task is Firing the last record says so, and lastFiredAt is    *)
(* its time.                                                               *)
LastRight ==
  alertState = "Firing" =>
    /\ records # <<>>
    /\ records[Len(records)].new = "Firing"
    /\ records[Len(records)].at = lastFiredAt

RepeatInv == TypeOK /\ LastRight /\ RepeatsSpaced

LEMMA HandleSpaced ==
  ASSUME RepeatInv, NEW now \in inflight, NEW isFiring \in BOOLEAN,
         HandleAlertState(now, isFiring)
  PROVE  LastRight' /\ RepeatsSpaced'
<1> DEFINE new == NewState(isFiring, now)
           rec == [old |-> alertState, new |-> new, at |-> now]
<1> USE DEF RepeatInv
<1>1. alertState' = new /\ lastFiredAt' = NewLast(new, now) /\ task' = task
  BY DEF HandleAlertState
<1>2. records \in Seq(Record) /\ Len(records) \in Nat
  BY DEF TypeOK
<1>3. now \in Time /\ new \in AlertState /\ alertState \in AlertState
  BY DEF TypeOK, NewState, AlertState
<1>4. rec \in Record /\ rec.old = alertState /\ rec.new = new /\ rec.at = now
  BY <1>3 DEF Record
<1>5. CASE new # alertState \/ Repeats(new, now)
  <2>1. records' = Append(records, rec)
    BY <1>5 DEF HandleAlertState
  <2> HIDE DEF new, rec
  <2>2. /\ Len(records') = Len(records) + 1
        /\ records'[Len(records) + 1] = rec
        /\ \A k \in 1 .. Len(records) : records'[k] = records[k]
        /\ records' # <<>>
    BY <1>2, <1>4, <2>1
  <2>3. LastRight'
    BY <1>1, <1>4, <1>5, <2>2 DEF LastRight, NewLast, Repeats
  <2>4. ASSUME NEW i \in 2 .. Len(records'),
               records'[i].old = "Firing", records'[i].new = "Firing"
        PROVE  /\ records'[i - 1].new = "Firing"
               /\ records'[i].at - records'[i - 1].at >= task'.RepeatInterval
    <3>1. CASE i = Len(records) + 1
      <4>1. alertState = "Firing" /\ new = "Firing"
        BY <1>4, <2>2, <2>4, <3>1
      <4>2. Repeats(new, now)
        BY <1>5, <4>1
      <4>3. records'[i - 1] = records[Len(records)]
        BY <1>2, <2>2, <3>1
      <4> QED BY <1>1, <1>4, <2>2, <3>1, <4>1, <4>2, <4>3 DEF LastRight, Repeats
    <3>2. CASE i # Len(records) + 1
      <4>1. i \in 2 .. Len(records) /\ records'[i] = records[i] /\ records'[i - 1] = records[i - 1]
        BY <1>2, <2>2, <3>2
      <4> QED BY <1>1, <2>4, <4>1 DEF RepeatsSpaced
    <3> QED BY <3>1, <3>2
  <2> QED BY <2>3, <2>4 DEF RepeatsSpaced
<1>6. CASE ~(new # alertState \/ Repeats(new, now))
  <2>1. records' = records
    BY <1>6 DEF HandleAlertState
  <2>2. lastFiredAt' = lastFiredAt
    BY <1>1, <1>6 DEF NewLast
  <2> QED BY <1>1, <1>6, <2>1, <2>2 DEF LastRight, RepeatsSpaced
<1> QED BY <1>5, <1>6

LEMMA NextSpaced == RepeatInv /\ [Next]_vars => RepeatInv'
<1> SUFFICES ASSUME RepeatInv, [Next]_vars PROVE LastRight' /\ RepeatsSpaced'
  BY NextTyped DEF RepeatInv
<1>1. ASSUME NEW now \in inflight, NEW isFiring \in BOOLEAN, HandleAlertState(now, isFiring)
      PROVE  LastRight' /\ RepeatsSpaced'
  BY <1>1, HandleSpaced
<1>2. ASSUME NEW t \in Task, AddTask(t)
      PROVE  LastRight' /\ RepeatsSpaced'
  BY <1>2 DEF AddTask, ResetAlertState, LastRight, RepeatsSpaced
<1>3. ASSUME UNCHANGED <<task, alertState, lastFiredAt, records>>
      PROVE  LastRight' /\ RepeatsSpaced'
  BY <1>3 DEF RepeatInv, LastRight, RepeatsSpaced
<1>4. CASE Tick
  BY <1>3, <1>4 DEF Tick, nodeVars, outVars
<1>5. ASSUME NEW now \in inflight, NoResult(now)
      PROVE  LastRight' /\ RepeatsSpaced'
  BY <1>3, <1>5 DEF NoResult, nodeVars, outVars
<1>6. CASE UNCHANGED vars
  BY <1>3, <1>6 DEF vars, nodeVars, outVars
<1> QED BY <1>1, <1>2, <1>4, <1>5, <1>6 DEF Next

(* A task that stays Firing is never repeated sooner than RepeatInterval   *)
(* after the last time, in whatever order its results are handled.         *)
THEOREM RepeatsAreSpaced == Spec => []RepeatsSpaced
<1>1. Init => RepeatInv
  BY InitTyped DEF Init, RepeatInv, LastRight, RepeatsSpaced
<1>2. RepeatInv => RepeatsSpaced
  BY DEF RepeatInv
<1> QED BY <1>1, <1>2, NextSpaced, PTL DEF Spec
-----------------------------------------------------------------------------
(* A subset of the positions of a sequence, with a later position or not.  *)
LEMMA PositionsFinite ==
  ASSUME NEW n \in Nat, NEW S \in SUBSET (1 .. n)
  PROVE  /\ IsFiniteSet(S) /\ Cardinality(S) \in Nat
         /\ IsFiniteSet(S \cup {n + 1}) /\ Cardinality(S \cup {n + 1}) = Cardinality(S) + 1
         /\ \A i \in S : Cardinality({j \in S : j <= i}) \in 1 .. Cardinality(S)
<1>1. IsFiniteSet(1 .. n)
  BY FS_Interval
<1>2. IsFiniteSet(S) /\ Cardinality(S) \in Nat
  BY <1>1, FS_Subset, FS_CardinalityType
<1>3. n + 1 \notin S
  OBVIOUS
<1>4. IsFiniteSet(S \cup {n + 1}) /\ Cardinality(S \cup {n + 1}) = Cardinality(S) + 1
  BY <1>2, <1>3, FS_AddElement
<1>5. ASSUME NEW i \in S
      PROVE  Cardinality({j \in S : j <= i}) \in 1 .. Cardinality(S)
  <2> DEFINE U == {j \in S : j <= i}
  <2>1. U \subseteq S /\ {i} \subseteq U
    OBVIOUS
  <2> HIDE DEF U
  <2>2. IsFiniteSet(U) /\ Cardinality(U) <= Cardinality(S) /\ Cardinality(U) \in Nat
    BY <1>2, <2>1, FS_Subset, FS_CardinalityType
  <2>3. Cardinality({i}) <= Cardinality(U) /\ Cardinality({i}) = 1
    BY <2>1, <2>2, FS_Subset, FS_Singleton
  <2> QED BY <1>2, <2>2, <2>3 DEF U
<1> QED BY <1>2, <1>4, <1>5

HistoryInv == TypeOK /\ HistoryAgrees

(* A record that is no change leaves the places of the changes alone, one  *)
(* that is takes the place after them.                                     *)
LEMMA HandleAgrees ==
  ASSUME HistoryInv, NEW now \in inflight, NEW isFiring \in BOOLEAN,
         HandleAlertState(now, isFiring)
  PROVE  HistoryAgrees'
<1> DEFINE new == NewState(isFiring, now)
           rec == [old |-> alertState, new |-> new, at |-> now]
           n == Len(records)
<1>1. /\ records \in Seq(Record) /\ stored \in Seq(Record) /\ n \in Nat
      /\ totalAlertsFired \in Nat /\ alertState \in AlertState
  BY DEF HistoryInv, TypeOK
<1>2. rec \in Record /\ rec.old = alertState /\ rec.new = new /\ rec.at = now
  BY DEF HistoryInv, TypeOK, Record, NewState, AlertState
<1>3. /\ records' = IF new # alertState \/ Repeats(new, now) THEN Append(records, rec) ELSE records
      /\ stored' = IF new # alertState THEN Append(stored, rec) ELSE stored
      /\ totalAlertsFired' = totalAlertsFired + (IF Counts(new, now) THEN 1 ELSE 0)
  BY DEF HandleAlertState
<1>4. Repeats(new, now) => new = "Firing" /\ alertState = "Firing"
  BY DEF Repeats
<1>5. Counts(new, now) <=> new = "Firing" /\ (new # alertState \/ Repeats(new, now))
  BY DEF Counts
<1>6. /\ Changes \in SUBSET (1 .. n) /\ OfFiring \in SUBSET (1 .. n)
      /\ Len(stored) = Cardinality(Changes) /\ totalAlertsFired = Cardinality(OfFiring)
      /\ \A i \in Changes : stored[Cardinality({j \in Changes : j <= i})] = records[i]
  BY <1>1 DEF Changes, OfFiring, HistoryInv, HistoryAgrees
<1>7. /\ Cardinality(Changes) \in Nat /\ Cardinality(Changes \cup {n + 1}) = Cardinality(Changes) + 1
      /\ Cardinality(OfFiring) \in Nat /\ Cardinality(OfFiring \cup {n + 1}) = Cardinality(OfFiring) + 1
      /\ \A i \in Changes : Cardinality({j \in Changes : j <= i}) \in 1 .. Cardinality(Changes)
  <2> HIDE DEF n
  <2> QED BY <1>1, <1>6, PositionsFinite
<1> HIDE DEF new, rec
<1>8. CASE new # alertState \/ Repeats(new, now)
  <2>1. /\ DOMAIN records' = 1 .. n + 1 /\ DOMAIN records = 1 .. n
        /\ records'[n + 1] = rec /\ \A k \in 1 .. n : records'[k] = records[k]
    BY <1>1, <1>2, <1>3, <1>8
  <2>2. Changes' = IF new # alertState THEN Changes \cup {n + 1} ELSE Changes
    BY <1>1, <1>2, <2>1 DEF Changes
  <2>3. OfFiring' = IF new = "Firing" THEN OfFiring \cup {n + 1} ELSE OfFiring
    BY <1>1, <1>2, <2>1 DEF OfFiring
  <2>4. totalAlertsFired' = Cardinality(OfFiring')
    BY <1>1, <1>3, <1>5, <1>6, <1>8, <1>7, <2>3
  <2>5. Len(stored') = Cardinality(Changes')
    BY <1>1, <1>2, <1>3, <1>6, <1>7, <2>2
  <2>6. ASSUME NEW i \in Changes
        PROVE  stored'[Cardinality({j \in Changes' : j <= i})] = records'[i]
    <3>1. {j \in Changes' : j <= i} = {j \in Changes : j <= i}
      BY <1>1, <1>6, <2>2
    <3>2. Cardinality({j \in Changes : j <= i}) \in 1 .. Len(stored)
      BY <1>6, <1>7
    <3>3. \A k \in 1 .. Len(stored) : stored'[k] = stored[k]
      BY <1>1, <1>2, <1>3
    <3> QED BY <1>6, <2>1, <3>1, <3>2, <3>3
  <2>7. ASSUME new # alertState
        PROVE  stored'[Cardinality({j \in Changes' : j <= n + 1})] = records'[n + 1]
    <3>1. \A j \in Changes' : j <= n + 1
      BY <1>1, <1>6, <2>2
    <3>2. {j \in Changes' : j <= n + 1} = Changes'
      BY <3>1
    <3>3. Cardinality(Changes') = Len(stored) + 1
      BY <1>1, <1>6, <1>7, <2>2, <2>7
    <3>4. stored'[Len(stored) + 1] = rec
      BY <1>1, <1>2, <1>3, <2>7
    <3> QED BY <2>1, <3>2, <3>3, <3>4
  <2> QED BY <2>2, <2>4, <2>5, <2>6, <2>7 DEF HistoryAgrees
<1>9. CASE ~(new # alertState \/ Repeats(new, now))
  <2>1. records' = records /\ stored' = stored /\ totalAlertsFired' = totalAlertsFired
    BY <1>1, <1>3, <1>5, <1>9
  <2> QED BY <1>6, <2>1 DEF HistoryAgrees, Changes, OfFiring
<1> QED BY <1>8, <1>9

LEMMA NextAgrees == HistoryInv /\ [Next]_vars => HistoryInv'
<1> SUFFICES ASSUME HistoryInv, [Next]_vars PROVE HistoryAgrees'
  BY NextTyped DEF HistoryInv
<1>1. ASSUME NEW now \in inflight, NEW isFiring \in BOOLEAN, HandleAlertState(now, isFiring)
      PROVE  HistoryAgrees'
  BY <1>1, HandleAgrees
<1>2. ASSUME records' = <<>>, stored' = <<>>, totalAlertsFired' = 0
      PROVE  HistoryAgrees'
  BY <1>2, FS_EmptySet DEF HistoryAgrees, Changes, OfFiring
<1>3. ASSUME NEW t \in Task, AddTask(t)
      PROVE  HistoryAgrees'
  BY <1>2, <1>3 DEF AddTask
<1>4. ASSUME UNCHANGED outVars PROVE HistoryAgrees'
  BY <1>4 DEF outVars, HistoryInv, HistoryAgrees, Changes, OfFiring
<1>5. CASE Tick
  BY <1>4, <1>5 DEF Tick
<1>6. ASSUME NEW now \in inflight, NoResult(now)
      PROVE  HistoryAgrees'
  BY <1>4, <1>6 DEF NoResult
<1>7. CASE UNCHANGED vars
  BY <1>4, <1>7 DEF vars
<1> QED BY <1>1, <1>3, <1>5, <1>6, <1>7 DEF Next

(* For any number of results in any order the store has the changes of     *)
(* state, in the order the callback was told of them, and the counter the  *)
(* number of times it was told of Firing.                                  *)
THEOREM HistoryStaysInStep == Spec => []HistoryAgrees
<1>1. Init => HistoryInv
  <2> SUFFICES ASSUME Init PROVE HistoryAgrees
    BY InitTyped DEF HistoryInv
  <2> QED BY FS_EmptySet DEF Init, HistoryAgrees, Changes, OfFiring
<1>2. HistoryInv => HistoryAgrees
  BY DEF HistoryInv
<1> QED BY <1>1, <1>2, NextAgrees, PTL DEF Spec
=============================================================================
