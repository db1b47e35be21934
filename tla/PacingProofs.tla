---------------------------- MODULE PacingProofs ----------------------------
(***************************************************************************)
(* Proofs about what is handed out to many callers at a distance: the      *)
(* timestamps of signed requests (SigningTimestamps), and the reads and    *)
(* attempts of ended subscriptions (Resubscribe).                          *)
(***************************************************************************)
EXTENDS SigningTimestamps, Resubscribe, SequenceTheorems, TLAPS

-----------------------------------------------------------------------------
(* Timestamps *)

(* Increasing and LeadIsBounded for any number of tasks, keys and calls.   *)
(*                                                                         *)
(* Increasing is not inductive.  What makes it so is Registered (a key has *)
(* one allocator, shared by all its credentials and by no other key) and   *)
(* UpToLast (an allocator remembers a bound of everything handed out for   *)
(* its key): the exchange succeeds only on the value the candidate was     *)
(* computed from, so the candidate is above that bound.                    *)

\* An allocator belongs to one key, and to all credentials of that key.
Registered ==
  /\ \A t \in Tasks : at[t] = "new" => \A k \in Keys : registry[k] # t
  /\ \A t \in Tasks :
       at[t] # "new" => own[t] \in Tasks /\ own[t] = registry[key[t]]
  /\ \A j, k \in Keys :
       registry[j] # NoTask /\ registry[j] = registry[k] => j = k
  /\ \A k \in Keys : registry[k] = NoTask => issued[k] = <<>>

\* Everything handed out for a key is at or below its allocator's last value.
UpToLast ==
  \A k \in Keys : registry[k] # NoTask =>
    \A i \in DOMAIN issued[k] : issued[k][i] <= last[registry[k]]

\* No clock reading, no allocator and no candidate is ahead of its limit.
Paced ==
  setBack \/ /\ \A t \in Tasks : now[t] <= clock /\ last[t] <= clock + Skew
             /\ \A t \in Tasks : at[t] = "cas" => Candidate(t) <= now[t] + Skew

Inv == SigningTypes /\ Registered /\ UpToLast /\ Increasing /\ Paced

\* Nothing was handed out yet.
LEMMA InitInv == SigningInit => Inv
<1> SUFFICES ASSUME SigningInit PROVE Inv
  OBVIOUS
<1>1. SigningTypes
  <2>1. issued \in [Keys -> Seq(Nat)]
    BY DEF SigningInit
  <2>2. /\ at \in [Tasks -> Labels] /\ own \in [Tasks -> Tasks \cup {NoTask}]
        /\ registry \in [Keys -> Tasks \cup {NoTask}]
        /\ last \in [Tasks -> Nat] /\ gate \in [Tasks -> Tasks \cup {NoTask}]
    BY DEF SigningInit, Labels
  <2>3. clock \in Nat
    BY SigningAssumption DEF SigningInit
  <2>4. /\ async \in [Tasks -> BOOLEAN] /\ started \in [Tasks -> Nat]
        /\ now \in [Tasks -> Nat] /\ observed \in [Tasks -> Nat]
        /\ wake \in [Tasks -> Int]
    BY DEF SigningInit
  <2>5. /\ key \in [Tasks -> Keys] /\ instant \in Nat /\ calls \in Nat
        /\ setBack \in BOOLEAN
    BY DEF SigningInit
  <2> QED BY <2>1, <2>2, <2>3, <2>4, <2>5 DEF SigningTypes
<1>2. Registered
  BY SigningAssumption DEF SigningInit, Registered
<1>3. UpToLast /\ Increasing
  BY DEF SigningInit, UpToLast, Increasing
<1>4. Paced
  BY SigningAssumption DEF SigningInit, Paced
<1> QED BY <1>1, <1>2, <1>3, <1>4 DEF Inv

-----------------------------------------------------------------------------
(* Types *)

\* The next timestamp is a number.
LEMMA NextAfterIsNat ==
  ASSUME NEW seen \in Nat, NEW n \in Nat
  PROVE  NextAfter(seen, n) \in Nat /\ seen < NextAfter(seen, n)
BY DEF NextAfter

\* A call that returns stays well typed.
LEMMA LeaveType ==
  ASSUME SigningTypes, NEW t \in Tasks, Leave(t)
  PROVE  at' \in [Tasks -> Labels] /\ gate' \in [Tasks -> Tasks \cup {NoTask}]
BY DEF SigningTypes, Leave, Goto, Labels

\* A task that moves stays well typed.
LEMMA GotoType ==
  ASSUME SigningTypes, NEW t \in Tasks, NEW label \in Labels, Goto(t, label)
  PROVE  at' \in [Tasks -> Labels]
BY DEF SigningTypes, Goto

\* Every step of a task keeps the types.
LEMMA TaskStepType ==
  ASSUME SigningTypes, Registered, NEW t \in Tasks, TaskStep(t)
  PROVE  SigningTypes'
<1> USE DEF Labels
<1>1. CASE Construct(t)
  BY <1>1, GotoType DEF SigningTypes, Construct, Found, credVars, chainVars, timeVars
<1>2. CASE Sign(t)
  <2>1. at' \in [Tasks -> Labels]
    BY <1>2, GotoType DEF Sign
  <2>2. async' \in [Tasks -> BOOLEAN]
    BY <1>2 DEF Sign, SigningTypes
  <2>3. started' \in [Tasks -> Nat] /\ calls' \in Nat
    BY <1>2 DEF Sign, SigningTypes
  <2> QED BY <1>2, <2>1, <2>2, <2>3
            DEF SigningTypes, Sign, sharedVars, credVars, chainVars, timeVars
<1>3. CASE AcquireGate(t)
  BY <1>3, GotoType DEF SigningTypes, AcquireGate, credVars, chainVars, timeVars
<1>4. CASE GateTimesOut(t)
  BY <1>4, LeaveType DEF SigningTypes, GateTimesOut, credVars, chainVars, timeVars
<1>5. CASE Cancel(t)
  BY <1>5, LeaveType DEF SigningTypes, Cancel, credVars, chainVars, timeVars
<1>6. CASE ReadClock(t)
  BY <1>6, GotoType, LeaveType DEF SigningTypes, ReadClock, credVars, chainVars, timeVars
<1>7. CASE Load(t)
  <2>1. at' \in [Tasks -> Labels] /\ gate' \in [Tasks -> Tasks \cup {NoTask}]
    BY <1>7, GotoType, LeaveType DEF Load, SigningTypes
  <2>2. own[t] \in Tasks /\ last[own[t]] \in Nat
    BY <1>7 DEF Load, SigningTypes, Registered
  <2>3. observed' \in [Tasks -> Nat]
    BY <1>7, <2>2 DEF Load, SigningTypes
  <2>4. /\ NextAfter(last[own[t]], now[t]) \in Nat /\ now[t] \in Nat
        /\ Elapsed(t) \in Int
    <3>1. started[t] \in Nat /\ instant \in Nat /\ now[t] \in Nat
      BY DEF SigningTypes
    <3>2. NextAfter(last[own[t]], now[t]) \in Nat
      BY <2>2, <3>1, NextAfterIsNat
    <3>3. instant - started[t] \in Int
      BY <3>1
    <3> QED BY <3>1, <3>2, <3>3, Zenon DEF Elapsed
  <2>5. wake' \in [Tasks -> Int]
    <3> DEFINE ts == NextAfter(last[own[t]], now[t])
               wait == IF ts - (now[t] + Skew) < Backpressure - Elapsed(t)
                       THEN ts - (now[t] + Skew) ELSE Backpressure - Elapsed(t)
    <3>1. wait \in Int /\ instant + wait \in Int
      BY <2>4, SigningAssumption, SMTT(30) DEF SigningTypes
    <3>2. wake' = wake \/ wake' = [wake EXCEPT ![t] = instant + wait]
      BY <1>7 DEF Load
    <3> QED BY <3>1, <3>2 DEF SigningTypes
  <2> QED BY <1>7, <2>1, <2>3, <2>5 DEF SigningTypes, Load, credVars, chainVars, timeVars
<1>8. CASE Cas(t)
  <2>1. Candidate(t) \in Nat
    BY NextAfterIsNat DEF SigningTypes, Candidate
  <2>2. last' \in [Tasks -> Nat]
    BY <1>8, <2>1 DEF SigningTypes, Cas
  <2>3. issued' \in [Keys -> Seq(Nat)]
    <3>1. key[t] \in Keys /\ Append(issued[key[t]], Candidate(t)) \in Seq(Nat)
      BY <2>1, AppendProperties DEF SigningTypes
    <3> QED BY <1>8, <3>1 DEF SigningTypes, Cas
  <2>4. at' \in [Tasks -> Labels] /\ gate' \in [Tasks -> Tasks \cup {NoTask}]
    BY <1>8, LeaveType DEF Cas
  <2> QED BY <1>8, <2>2, <2>3, <2>4
            DEF SigningTypes, Cas, credVars, timeVars
<1>9. CASE CasFails(t)
  BY <1>9, GotoType DEF SigningTypes, CasFails, sharedVars, credVars, chainVars, timeVars
<1>10. CASE SleepEnds(t)
  BY <1>10, GotoType DEF SigningTypes, SleepEnds, sharedVars, credVars, chainVars, timeVars
<1> QED BY <1>1, <1>2, <1>3, <1>4, <1>5, <1>6, <1>7, <1>8, <1>9, <1>10
          DEF TaskStep

-----------------------------------------------------------------------------
(* One step of a task *)

\* Where a task may go, and that no other task moves.
LEMMA Moves ==
  ASSUME SigningTypes, NEW t \in Tasks, TaskStep(t)
  PROVE  /\ \A s \in Tasks : s # t => at'[s] = at[s]
         /\ at'[t] # "new"
         /\ at'[t] = "cas" => Load(t)
         /\ at[t] = "new" => Construct(t)
BY DEF SigningTypes, TaskStep, Construct, Sign, AcquireGate, GateTimesOut, Cancel,
       ReadClock, Load, Cas, CasFails, SleepEnds, Leave, Goto

\* Everything but the construction of credentials leaves the registry alone.
LEMMA RegistryKept ==
  ASSUME NEW t \in Tasks, TaskStep(t), ~Construct(t)
  PROVE  UNCHANGED <<registry, key, own>>
BY DEF TaskStep, Sign, AcquireGate, GateTimesOut, Cancel, ReadClock, Load,
       Cas, CasFails, SleepEnds, sharedVars, credVars

\* Everything but a successful exchange leaves the timestamps alone.
LEMMA ChainKept ==
  ASSUME NEW t \in Tasks, TaskStep(t), ~Cas(t)
  PROVE  UNCHANGED <<last, issued>>
BY DEF TaskStep, Construct, Sign, AcquireGate, GateTimesOut, Cancel, ReadClock,
       Load, CasFails, SleepEnds, sharedVars, chainVars

\* What a successful exchange hands out is above all that went before.
LEMMA CasEffect ==
  ASSUME SigningTypes, Registered, UpToLast, NEW t \in Tasks, Cas(t)
  PROVE  LET k == key[t]
             a == registry[k]
             ts == Candidate(t)
         IN  /\ k \in Keys /\ a \in Tasks /\ ts \in Nat
             /\ last' = [last EXCEPT ![a] = ts] /\ last[a] < ts
             /\ issued' = [issued EXCEPT ![k] = Append(@, ts)]
             /\ \A i \in DOMAIN issued[k] : issued[k][i] < ts
             /\ UNCHANGED <<registry, key, own>>
<1> DEFINE k == key[t]
           a == registry[k]
           ts == Candidate(t)
<1>1. k \in Keys /\ a \in Tasks /\ a = own[t] /\ a # NoTask
  BY SigningAssumption DEF SigningTypes, Registered, Cas
<1>2. ts \in Nat /\ observed[t] < ts
  BY NextAfterIsNat DEF SigningTypes, Candidate
<1>3. last[a] < ts /\ last[a] \in Nat
  BY <1>1, <1>2 DEF Cas, Exchanges, SigningTypes
<1>4. \A i \in DOMAIN issued[k] : issued[k][i] <= last[a] /\ issued[k][i] \in Nat
  <2>1. issued[k] \in Seq(Nat)
    BY <1>1 DEF SigningTypes
  <2> QED BY <1>1, <2>1 DEF UpToLast
<1> QED BY <1>1, <1>2, <1>3, <1>4 DEF Cas, credVars

\* Every step of a task keeps the credentials of a key on one allocator.
LEMMA TaskStepRegistered ==
  ASSUME SigningTypes, Registered, UpToLast, NEW t \in Tasks, TaskStep(t)
  PROVE  Registered'
<1>1. CASE Construct(t)
  <2>1. /\ key[t] \in Keys /\ key' = key /\ at[t] = "new"
        /\ registry' = [registry EXCEPT ![key[t]] = Found(t)]
        /\ own' = [own EXCEPT ![t] = Found(t)]
        /\ issued' = issued
    BY <1>1 DEF Construct, SigningTypes
  <2>2. Found(t) \in Tasks
    BY <2>1 DEF Found, SigningTypes
  <2>3. \A k \in Keys : registry[k] # t
    BY <2>1 DEF Registered
  <2>4. \A k \in Keys : k # key[t] => registry[k] # Found(t)
    BY <2>1, <2>3 DEF Found, Registered
  <2>5. \A k \in Keys : registry'[k] = IF k = key[t] THEN Found(t) ELSE registry[k]
    BY <2>1 DEF SigningTypes
  <2>6. \A s \in Tasks : own'[s] = IF s = t THEN Found(t) ELSE own[s]
    BY <2>1 DEF SigningTypes
  <2>7. \A s \in Tasks :
          at'[s] = "new" => s # t /\ at[s] = "new" /\ \A k \in Keys : registry'[k] # s
    BY <2>1, <2>5, Moves DEF Found, Registered
  <2>8. \A s \in Tasks :
          at'[s] # "new" => own'[s] \in Tasks /\ own'[s] = registry'[key[s]]
    <3> SUFFICES ASSUME NEW s \in Tasks, at'[s] # "new"
                 PROVE  own'[s] \in Tasks /\ own'[s] = registry'[key[s]]
      OBVIOUS
    <3>1. CASE s = t
      BY <2>1, <2>2, <2>5, <2>6, <3>1
    <3>2. CASE s # t
      <4>1. own[s] \in Tasks /\ own[s] = registry[key[s]] /\ key[s] \in Keys
        BY <3>2, Moves DEF Registered, SigningTypes
      <4>2. registry[key[s]] # NoTask
        BY <4>1, SigningAssumption
      <4>3. key[s] = key[t] => Found(t) = registry[key[s]]
        BY <4>2 DEF Found
      <4> QED BY <2>5, <2>6, <3>2, <4>1, <4>3
    <3> QED BY <3>1, <3>2
  <2>9. \A j, k \in Keys :
          registry'[j] # NoTask /\ registry'[j] = registry'[k] => j = k
    BY <2>4, <2>5 DEF Registered
  <2>10. \A k \in Keys : registry'[k] = NoTask => issued[k] = <<>>
    BY <2>2, <2>5, SigningAssumption DEF Registered
  <2> QED BY <2>1, <2>7, <2>8, <2>9, <2>10 DEF Registered
<1>2. CASE Cas(t)
  <2>1. \A k \in Keys : registry[k] = NoTask => issued'[k] = issued[k]
    BY <1>2, CasEffect, SigningAssumption DEF SigningTypes
  <2>2. registry' = registry /\ key' = key /\ own' = own
    BY <1>2, CasEffect
  <2>3. at[t] # "new" /\ at'[t] # "new" /\ \A s \in Tasks : s # t => at'[s] = at[s]
    BY <1>2, Moves DEF Cas
  <2> QED BY <2>1, <2>2, <2>3 DEF Registered
<1>3. CASE ~Construct(t) /\ ~Cas(t)
  BY <1>3, RegistryKept, ChainKept, Moves DEF Registered
<1> QED BY <1>1, <1>2, <1>3

\* Every step of a task keeps what was handed out at or below the last.
LEMMA TaskStepUpToLast ==
  ASSUME SigningTypes, Registered, UpToLast, NEW t \in Tasks, TaskStep(t)
  PROVE  UpToLast'
<1>1. CASE Construct(t)
  <2>1. /\ key[t] \in Keys /\ last' = last /\ issued' = issued
        /\ \A k \in Keys : registry'[k] = IF k = key[t] THEN Found(t) ELSE registry[k]
    BY <1>1 DEF Construct, SigningTypes, chainVars
  <2> QED BY <2>1 DEF UpToLast, Registered, Found
<1>2. CASE Cas(t)
  <2> DEFINE k == key[t]
             a == registry[k]
             ts == Candidate(t)
  <2>1. /\ k \in Keys /\ a \in Tasks /\ ts \in Nat /\ registry' = registry
        /\ last' = [last EXCEPT ![a] = ts]
        /\ issued' = [issued EXCEPT ![k] = Append(@, ts)]
        /\ \A i \in DOMAIN issued[k] : issued[k][i] < ts
    BY <1>2, CasEffect
  <2>2. issued[k] \in Seq(Nat) /\ last'[a] = ts
    BY <2>1 DEF SigningTypes
  <2>3. issued'[k] = Append(issued[k], ts)
    BY <2>1 DEF SigningTypes
  <2>4. \A i \in DOMAIN issued'[k] : issued'[k][i] <= ts
    BY <2>1, <2>2, <2>3
  <2>5. ASSUME NEW j \in Keys, registry[j] # NoTask, j # k
        PROVE  issued'[j] = issued[j] /\ last'[registry[j]] = last[registry[j]]
    <3>1. registry[j] # a
      BY <2>1, <2>5 DEF Registered
    <3> QED BY <2>1, <2>5, <3>1 DEF SigningTypes
  <2> QED BY <2>1, <2>2, <2>4, <2>5 DEF UpToLast
<1>3. CASE ~Construct(t) /\ ~Cas(t)
  BY <1>3, RegistryKept, ChainKept DEF UpToLast
<1> QED BY <1>1, <1>2, <1>3

\* Every step of a task keeps the timestamps growing.
LEMMA TaskStepIncreasing ==
  ASSUME SigningTypes, Registered, UpToLast, Increasing, NEW t \in Tasks, TaskStep(t)
  PROVE  Increasing'
<1>1. CASE Cas(t)
  <2> DEFINE k == key[t]
             ts == Candidate(t)
  <2>1. /\ k \in Keys /\ ts \in Nat
        /\ issued' = [issued EXCEPT ![k] = Append(@, ts)]
        /\ \A i \in DOMAIN issued[k] : issued[k][i] < ts
    BY <1>1, CasEffect
  <2>2. issued[k] \in Seq(Nat) /\ issued'[k] = Append(issued[k], ts)
    BY <2>1 DEF SigningTypes
  <2>3. \A i, j \in DOMAIN issued'[k] : i < j => issued'[k][i] < issued'[k][j]
    <3> SUFFICES ASSUME NEW i \in DOMAIN issued'[k], NEW j \in DOMAIN issued'[k],
                        i < j
                 PROVE  issued'[k][i] < issued'[k][j]
      OBVIOUS
    <3>1. i \in 1..Len(issued[k]) + 1 /\ j \in 1..Len(issued[k]) + 1
      BY <2>1, <2>2
    <3>2. i \in DOMAIN issued[k] /\ issued'[k][i] = issued[k][i]
      BY <2>1, <2>2, <3>1
    <3>3. CASE j = Len(issued[k]) + 1
      BY <2>1, <2>2, <3>2, <3>3
    <3>4. CASE j \in DOMAIN issued[k]
      <4>1. issued'[k][j] = issued[k][j]
        BY <2>1, <2>2, <3>4
      <4> QED BY <2>1, <3>2, <3>4, <4>1 DEF Increasing
    <3> QED BY <2>1, <2>2, <3>1, <3>3, <3>4
  <2>4. \A j \in Keys : j # k => issued'[j] = issued[j]
    BY <2>1 DEF SigningTypes
  <2> QED BY <2>3, <2>4 DEF Increasing
<1>2. CASE ~Cas(t)
  BY <1>2, ChainKept DEF Increasing
<1> QED BY <1>1, <1>2

\* Every step of a task keeps the timestamps inside the window.
LEMMA TaskStepPaced ==
  ASSUME SigningTypes, Registered, UpToLast, Paced, NEW t \in Tasks, TaskStep(t)
  PROVE  Paced'
<1> SUFFICES ASSUME ~setBack PROVE Paced'
  BY DEF Paced, TaskStep, Construct, Sign, AcquireGate, GateTimesOut, Cancel,
         ReadClock, Load, Cas, CasFails, SleepEnds, timeVars
<1>1. clock' = clock /\ clock \in Nat /\ Skew \in Nat
  BY SigningAssumption
    DEF SigningTypes, TaskStep, Construct, Sign, AcquireGate, GateTimesOut, Cancel,
        ReadClock, Load, Cas, CasFails, SleepEnds, timeVars
<1>2. \A s \in Tasks : now[s] <= clock /\ last[s] <= clock + Skew
  BY DEF Paced
<1>3. \A s \in Tasks : now'[s] <= clock
  <2>1. now' = now \/ now' = [now EXCEPT ![t] = clock]
    BY DEF TaskStep, Construct, Sign, AcquireGate, GateTimesOut, Cancel,
           ReadClock, Load, Cas, CasFails, SleepEnds
  <2>2. \A s \in Tasks : now'[s] = now[s] \/ now'[s] = clock
    BY <2>1 DEF SigningTypes
  <2> QED BY <1>1, <1>2, <2>2
<1>4. \A s \in Tasks : last'[s] <= clock + Skew
  <2>1. CASE Cas(t)
    <3>1. Candidate(t) <= now[t] + Skew /\ now[t] <= clock /\ now[t] \in Nat
      BY <1>2, <2>1 DEF Paced, Cas, SigningTypes
    <3>2. Candidate(t) <= clock + Skew
      <4>1. Candidate(t) \in Nat
        BY <2>1, CasEffect
      <4> QED BY <1>1, <3>1, <4>1
    <3>3. \A s \in Tasks : last'[s] = last[s] \/ last'[s] = Candidate(t)
      BY <2>1, CasEffect, Zenon DEF SigningTypes
    <3> QED BY <1>2, <3>2, <3>3, Zenon
  <2>2. CASE ~Cas(t)
    BY <1>2, <2>2, ChainKept
  <2> QED BY <2>1, <2>2
<1>5. \A s \in Tasks : at'[s] = "cas" => Candidate(s)' <= now'[s] + Skew
  <2> SUFFICES ASSUME NEW s \in Tasks, at'[s] = "cas"
               PROVE  Candidate(s)' <= now'[s] + Skew
    OBVIOUS
  <2>1. CASE s = t
    <3>1. Load(t)
      BY <2>1, Moves
    <3>2. /\ observed'[t] = last[own[t]] /\ now' = now
          /\ InWindow(NextAfter(last[own[t]], now[t]), now[t])
      BY <2>1, <3>1 DEF Load, Goto, Leave, SigningTypes
    <3> QED BY <2>1, <3>2 DEF Candidate, InWindow
  <2>2. CASE s # t
    <3>1. at[s] = "cas" /\ observed'[s] = observed[s] /\ now'[s] = now[s]
      BY <2>2, Moves
        DEF SigningTypes, TaskStep, Construct, Sign, AcquireGate, GateTimesOut,
            Cancel, ReadClock, Load, Cas, CasFails, SleepEnds
    <3> QED BY <3>1 DEF Paced, Candidate
  <2> QED BY <2>1, <2>2
<1> QED BY <1>1, <1>3, <1>4, <1>5 DEF Paced

-----------------------------------------------------------------------------
(* Every step *)

\* Time passes.
LEMMA TickInv == Inv /\ ClockTicks => Inv'
<1> SUFFICES ASSUME Inv, ClockTicks PROVE Inv'
  OBVIOUS
<1> USE DEF ClockTicks, taskVars, sharedVars, credVars, chainVars
<1>1. SigningTypes'
  BY DEF Inv, SigningTypes
<1>2. Registered' /\ UpToLast' /\ Increasing'
  BY DEF Inv, Registered, UpToLast, Increasing
<1>3. Paced'
  BY SigningAssumption DEF Inv, SigningTypes, Paced, Candidate
<1> QED BY <1>1, <1>2, <1>3 DEF Inv

\* The clock is set back.
LEMMA SetClockBackInv == Inv /\ SetClockBack => Inv'
<1> SUFFICES ASSUME Inv, SetClockBack PROVE Inv'
  OBVIOUS
<1> USE DEF SetClockBack, taskVars, sharedVars, credVars, chainVars
<1>1. SigningTypes'
  BY DEF Inv, SigningTypes
<1>2. Registered' /\ UpToLast' /\ Increasing' /\ Paced'
  BY DEF Inv, Registered, UpToLast, Increasing, Paced
<1> QED BY <1>1, <1>2 DEF Inv

\* No step, no change.
LEMMA StutterInv == Inv /\ UNCHANGED signingVars => Inv'
BY DEF signingVars, taskVars, sharedVars, credVars, chainVars, timeVars, Inv, SigningTypes,
       Registered, UpToLast, Increasing, Paced, Candidate

\* The invariant is inductive.
LEMMA NextInv == Inv /\ [SigningNext]_signingVars => Inv'
<1>1. ASSUME Inv, NEW t \in Tasks, TaskStep(t) PROVE Inv'
  BY <1>1, TaskStepType, TaskStepRegistered, TaskStepUpToLast,
     TaskStepIncreasing, TaskStepPaced DEF Inv
<1> QED BY <1>1, TickInv, SetClockBackInv, StutterInv DEF SigningNext

\* No task, allocator or history ever leaves its declared range.
THEOREM SigningTypeCorrect == SigningSpec => []SigningTypes
<1>1. Inv => SigningTypes
  BY DEF Inv
<1> QED BY <1>1, InitInv, NextInv, PTL DEF SigningSpec

\* The timestamps handed out for a key only grow.
THEOREM TimestampsIncrease == SigningSpec => []Increasing
<1>1. Inv => Increasing
  BY DEF Inv
<1> QED BY <1>1, InitInv, NextInv, PTL DEF SigningSpec

\* Unless the clock was set back, no timestamp leads it by more than Skew.
THEOREM TimestampsStayInWindow == SigningSpec => []LeadIsBounded
<1>1. Inv => LeadIsBounded
  <2> SUFFICES ASSUME Inv, ~setBack, NEW k \in Keys, NEW i \in DOMAIN issued[k]
               PROVE  issued[k][i] <= clock + Skew
    BY DEF LeadIsBounded
  <2>1. issued[k] # <<>> /\ issued[k] \in Seq(Nat)
    BY DEF Inv, SigningTypes
  <2>2. registry[k] # NoTask
    BY <2>1 DEF Inv, Registered
  <2>3. registry[k] \in Tasks
    BY <2>2 DEF Inv, SigningTypes
  <2>4. issued[k][i] <= last[registry[k]] /\ last[registry[k]] <= clock + Skew
    BY <2>2, <2>3 DEF Inv, UpToLast, Paced
  <2>5. /\ issued[k][i] \in Nat /\ last[registry[k]] \in Nat
        /\ clock + Skew \in Nat
    BY <2>1, <2>3, SigningAssumption DEF Inv, SigningTypes
  <2> QED BY <2>4, <2>5
<1> QED BY <1>1, InitInv, NextInv, PTL DEF SigningSpec

-----------------------------------------------------------------------------
(* Reads and attempts *)

(* Proofs about Resubscribe: the invariant IInv, with the pacing of reads  *)
(* and attempts and the decision of an answer that is shared, and that a   *)
(* removal the client was told of wins over an answer.                     *)

\* Assigning a member of the range keeps a function in its function set.
LEMMA UpdateType ==
  ASSUME NEW D, NEW E, NEW f \in [D -> E], NEW d, NEW e \in E
  PROVE  [f EXCEPT ![d] = e] \in [D -> E]
OBVIOUS

\* A read that is scheduled is a read.
LEMMA NewReadType ==
  ASSUME NEW wait \in Nat
  PROVE  /\ NewRead(wait) \in Read
         /\ NewRead(wait).phase = "waiting" /\ NewRead(wait).wait = wait
BY DEF NewRead, Read

\* A type for the reads after one of them changed.
LEMMA ReadsType ==
  ASSUME TypeOK, NEW r \in Reads, NEW read \in Read, reads' = [reads EXCEPT ![r] = read]
  PROVE  reads' \in [Reads -> Read]
BY UpdateType DEF TypeOK

\* The head of the loop spends one attempt, if there is one left.
LEMMA RetryFacts ==
  ASSUME TypeOK, Tries, FlappingIsBounded, NEW s \in Subs, NEW spent \in Nat,
         Retry(s, spent, spent)
  PROVE  /\ attempts' \in [Subs -> Nat] /\ tries' \in [Subs -> Nat]
         /\ Tries' /\ FlappingIsBounded'
<1> USE ResubscribeAssumption DEF TypeOK, Tries, FlappingIsBounded
<1>1. CASE UNCHANGED <<attempts, tries>>
  BY <1>1
<1>2. CASE /\ spent < MaxAttempts
           /\ attempts' = [attempts EXCEPT ![s] = spent + 1]
           /\ tries' = [tries EXCEPT ![s] = spent + 1]
  <2>1. spent + 1 \in Nat /\ spent + 1 <= MaxAttempts
    BY <1>2
  <2>2. attempts' \in [Subs -> Nat] /\ tries' \in [Subs -> Nat]
    BY <1>2, <2>1, UpdateType
  <2>3. \A t \in Subs : tries'[t] = attempts'[t]
    BY <1>2
  <2>4. \A t \in Subs : tries'[t] = IF t = s THEN spent + 1 ELSE tries[t]
    BY <1>2
  <2> QED
    BY <2>1, <2>2, <2>3, <2>4
<1> QED
  BY <1>1, <1>2 DEF Retry

\* The initial states satisfy the invariant.
LEMMA InitIInv == Init => IInv
<1> SUFFICES ASSUME Init PROVE IInv
  OBVIOUS
<1> USE ResubscribeAssumption DEF Init
<1>1. TypeOK
  <2>1. pc \in [Subs -> Places] /\ resume \in [Subs -> {"none", "resuming", "ready"}]
    BY DEF Places
  <2>11. reason \in [Subs -> Reasons]
    BY DEF Reasons
  <2>2. attempts \in [Subs -> Nat] /\ tries \in [Subs -> Nat]
    BY DEF Places
  <2>3. announced \subseteq Subs
    BY DEF Places
  <2>4. readOf \in [Subs -> Reads \cup {NoRead}] /\ nextRead \in Reads \cup {NoRead}
    BY DEF Places
  <2>5. slotIn \in [Subs -> Nat] /\ nextAttempt \in Nat
    BY DEF Places
  <2>6. reads \in [Reads -> Read]
    <3>1. [NewRead(0) EXCEPT !.phase = "idle"] \in Read
      BY DEF NewRead, Read
    <3> QED
      BY <3>1
  <2>7. sinceRead \in 0..Interval
    BY DEF Places
  <2>8. removed \subseteq Ids /\ granted \subseteq Ids
    BY DEF Places
  <2>9. updates \in Seq(Update)
    BY DEF Update
  <2>10. grantedSince \in [Subs -> BOOLEAN]
    BY DEF Places
  <2> QED
    BY <2>1, <2>2, <2>3, <2>4, <2>5, <2>6, <2>7, <2>8, <2>9, <2>10, <2>11 DEF TypeOK
<1>2. NextRead
  <2>1. \A r \in Reads : reads[r].phase = "idle"
    BY DEF NewRead
  <2> QED
    BY <2>1 DEF NextRead
<1>3. Readers /\ Resuming /\ Slots /\ Tries
  BY DEF Readers, Resuming, Slots, Tries
<1>4. ResumesOnlyWhenGranted /\ SlotsAreSpaced /\ FlappingIsBounded
  BY DEF ResumesOnlyWhenGranted, SlotsAreSpaced, FlappingIsBounded
<1> QED
  BY <1>1, <1>2, <1>3, <1>4 DEF IInv

\* A connection resumes at most what waits for one.
LEMMA ConnectedIInv ==
  ASSUME IInv, NEW s \in Subs, Connected(s)
  PROVE  IInv'
<1> USE DEF Connected, GoOn, End, loops, access, world
<1>0. TypeOK
  BY DEF IInv
<1>1. TypeOK'
  <2>1. pc' \in [Subs -> Places] /\ resume' \in [Subs -> {"none", "resuming", "ready"}]
    BY <1>0, UpdateType DEF TypeOK, Places
  <2>11. reason' \in [Subs -> Reasons]
    BY <1>0, UpdateType DEF TypeOK, Reasons
  <2>2. attempts' \in [Subs -> Nat] /\ tries' \in [Subs -> Nat]
    BY <1>0, UpdateType DEF TypeOK
  <2>3. announced' \subseteq Subs
    BY <1>0 DEF TypeOK
  <2>4. readOf' \in [Subs -> Reads \cup {NoRead}] /\ nextRead' \in Reads \cup {NoRead}
    BY <1>0, UpdateType DEF TypeOK
  <2>5. slotIn' \in [Subs -> Nat] /\ nextAttempt' \in Nat
    BY <1>0, UpdateType, ResubscribeAssumption DEF TypeOK
  <2>6. reads' \in [Reads -> Read]
    BY <1>0, UpdateType DEF TypeOK
  <2>7. sinceRead' \in 0..Interval
    BY <1>0, ResubscribeAssumption DEF TypeOK
  <2>8. removed' \subseteq Ids /\ granted' \subseteq Ids
    BY <1>0, ResubscribeAssumption DEF TypeOK
  <2>9. updates' \in Seq(Update)
    BY <1>0 DEF TypeOK, Update
  <2>10. grantedSince' \in [Subs -> BOOLEAN]
    BY <1>0, UpdateType DEF TypeOK
  <2> QED
    BY <2>1, <2>2, <2>3, <2>4, <2>5, <2>6, <2>7, <2>8, <2>9, <2>10, <2>11 DEF TypeOK
<1>2. NextRead'
  BY <1>0, ResubscribeAssumption DEF IInv, TypeOK, NextRead, Read
<1>3. Readers'
  BY <1>0, ResubscribeAssumption DEF IInv, TypeOK, NextRead, Readers, Read
<1>4. Resuming' /\ ResumesOnlyWhenGranted'
  BY <1>0 DEF IInv, TypeOK, Readers, Resuming, ResumesOnlyWhenGranted
<1>5. Slots' /\ SlotsAreSpaced'
  BY <1>0, ResubscribeAssumption DEF IInv, TypeOK, Slots, SlotsAreSpaced
<1>6. Tries' /\ FlappingIsBounded'
  BY <1>0, ResubscribeAssumption DEF IInv, TypeOK, Tries, FlappingIsBounded
<1> QED
  BY <1>1, <1>2, <1>3, <1>4, <1>5, <1>6 DEF IInv

\* A failed attempt is retried within its budget, or the loop ends.
LEMMA ConnectFailsIInv ==
  ASSUME IInv, NEW s \in Subs, NEW refused \in BOOLEAN, ConnectFails(s, refused)
  PROVE  IInv'
<1> USE DEF ConnectFails, Retry, GoOn, End, loops, access, world
<1>0. TypeOK
  BY DEF IInv
<1>a. \/ UNCHANGED <<attempts, tries>>
      \/ Retry(s, attempts[s], attempts[s])
  BY DEF IInv, Tries
<1>b. /\ attempts' \in [Subs -> Nat] /\ tries' \in [Subs -> Nat]
      /\ Tries' /\ FlappingIsBounded'
  <2>1. attempts[s] \in Nat
    BY <1>0 DEF TypeOK
  <2>2. CASE UNCHANGED <<attempts, tries>>
    BY <1>0, <2>2 DEF IInv, TypeOK, Tries, FlappingIsBounded
  <2> QED
    BY <1>0, <1>a, <2>1, <2>2, RetryFacts DEF IInv
<1>1. TypeOK'
  <2>1. pc' \in [Subs -> Places] /\ resume' \in [Subs -> {"none", "resuming", "ready"}]
    BY <1>0, UpdateType DEF TypeOK, Places
  <2>11. reason' \in [Subs -> Reasons]
    BY <1>0, UpdateType DEF TypeOK, Reasons
  <2>2. attempts' \in [Subs -> Nat] /\ tries' \in [Subs -> Nat]
    BY <1>b
  <2>3. announced' \subseteq Subs
    BY <1>0 DEF TypeOK
  <2>4. readOf' \in [Subs -> Reads \cup {NoRead}] /\ nextRead' \in Reads \cup {NoRead}
    BY <1>0, UpdateType DEF TypeOK
  <2>5. slotIn' \in [Subs -> Nat] /\ nextAttempt' \in Nat
    BY <1>0, UpdateType, ResubscribeAssumption DEF TypeOK
  <2>6. reads' \in [Reads -> Read]
    BY <1>0, UpdateType DEF TypeOK
  <2>7. sinceRead' \in 0..Interval
    BY <1>0, ResubscribeAssumption DEF TypeOK
  <2>8. removed' \subseteq Ids /\ granted' \subseteq Ids
    BY <1>0, ResubscribeAssumption DEF TypeOK
  <2>9. updates' \in Seq(Update)
    BY <1>0 DEF TypeOK, Update
  <2>10. grantedSince' \in [Subs -> BOOLEAN]
    BY <1>0, UpdateType DEF TypeOK
  <2> QED
    BY <2>1, <2>2, <2>3, <2>4, <2>5, <2>6, <2>7, <2>8, <2>9, <2>10, <2>11 DEF TypeOK
<1>2. NextRead'
  BY <1>0, ResubscribeAssumption DEF IInv, TypeOK, NextRead, Read
<1>3. Readers'
  BY <1>0, ResubscribeAssumption DEF IInv, TypeOK, NextRead, Readers, Read
<1>4. Resuming' /\ ResumesOnlyWhenGranted'
  BY <1>0 DEF IInv, TypeOK, Readers, Resuming, ResumesOnlyWhenGranted
<1>5. Slots' /\ SlotsAreSpaced'
  BY <1>0, ResubscribeAssumption DEF IInv, TypeOK, Slots, SlotsAreSpaced
<1>6. Tries' /\ FlappingIsBounded'
  BY <1>b
<1> QED
  BY <1>1, <1>2, <1>3, <1>4, <1>5, <1>6 DEF IInv

\* An ordinary reconnect is no attempt to resume.
LEMMA ConnectionLostIInv ==
  ASSUME IInv, NEW s \in Subs, ConnectionLost(s)
  PROVE  IInv'
<1> USE DEF ConnectionLost, GoOn, End, loops, access, world
<1>0. TypeOK
  BY DEF IInv
<1>1. TypeOK'
  <2>1. pc' \in [Subs -> Places] /\ resume' \in [Subs -> {"none", "resuming", "ready"}]
    BY <1>0, UpdateType DEF TypeOK, Places
  <2>11. reason' \in [Subs -> Reasons]
    BY <1>0, UpdateType DEF TypeOK, Reasons
  <2>2. attempts' \in [Subs -> Nat] /\ tries' \in [Subs -> Nat]
    BY <1>0, UpdateType DEF TypeOK
  <2>3. announced' \subseteq Subs
    BY <1>0 DEF TypeOK
  <2>4. readOf' \in [Subs -> Reads \cup {NoRead}] /\ nextRead' \in Reads \cup {NoRead}
    BY <1>0, UpdateType DEF TypeOK
  <2>5. slotIn' \in [Subs -> Nat] /\ nextAttempt' \in Nat
    BY <1>0, UpdateType, ResubscribeAssumption DEF TypeOK
  <2>6. reads' \in [Reads -> Read]
    BY <1>0, UpdateType DEF TypeOK
  <2>7. sinceRead' \in 0..Interval
    BY <1>0, ResubscribeAssumption DEF TypeOK
  <2>8. removed' \subseteq Ids /\ granted' \subseteq Ids
    BY <1>0, ResubscribeAssumption DEF TypeOK
  <2>9. updates' \in Seq(Update)
    BY <1>0 DEF TypeOK, Update
  <2>10. grantedSince' \in [Subs -> BOOLEAN]
    BY <1>0, UpdateType DEF TypeOK
  <2> QED
    BY <2>1, <2>2, <2>3, <2>4, <2>5, <2>6, <2>7, <2>8, <2>9, <2>10, <2>11 DEF TypeOK
<1>2. NextRead'
  BY <1>0, ResubscribeAssumption DEF IInv, TypeOK, NextRead, Read
<1>3. Readers'
  BY <1>0, ResubscribeAssumption DEF IInv, TypeOK, NextRead, Readers, Read
<1>4. Resuming' /\ ResumesOnlyWhenGranted'
  BY <1>0 DEF IInv, TypeOK, Readers, Resuming, ResumesOnlyWhenGranted
<1>5. Slots' /\ SlotsAreSpaced'
  BY <1>0, ResubscribeAssumption DEF IInv, TypeOK, Slots, SlotsAreSpaced
<1>6. Tries' /\ FlappingIsBounded'
  BY <1>0, ResubscribeAssumption DEF IInv, TypeOK, Tries, FlappingIsBounded
<1> QED
  BY <1>1, <1>2, <1>3, <1>4, <1>5, <1>6 DEF IInv

\* A full queue ends the loop.
LEMMA OverflowIInv ==
  ASSUME IInv, NEW s \in Subs, Overflow(s)
  PROVE  IInv'
<1> USE DEF Overflow, GoOn, End, loops, access, world
<1>0. TypeOK
  BY DEF IInv
<1>1. TypeOK'
  <2>1. pc' \in [Subs -> Places] /\ resume' \in [Subs -> {"none", "resuming", "ready"}]
    BY <1>0, UpdateType DEF TypeOK, Places
  <2>11. reason' \in [Subs -> Reasons]
    BY <1>0, UpdateType DEF TypeOK, Reasons
  <2>2. attempts' \in [Subs -> Nat] /\ tries' \in [Subs -> Nat]
    BY <1>0, UpdateType DEF TypeOK
  <2>3. announced' \subseteq Subs
    BY <1>0 DEF TypeOK
  <2>4. readOf' \in [Subs -> Reads \cup {NoRead}] /\ nextRead' \in Reads \cup {NoRead}
    BY <1>0, UpdateType DEF TypeOK
  <2>5. slotIn' \in [Subs -> Nat] /\ nextAttempt' \in Nat
    BY <1>0, UpdateType, ResubscribeAssumption DEF TypeOK
  <2>6. reads' \in [Reads -> Read]
    BY <1>0, UpdateType DEF TypeOK
  <2>7. sinceRead' \in 0..Interval
    BY <1>0, ResubscribeAssumption DEF TypeOK
  <2>8. removed' \subseteq Ids /\ granted' \subseteq Ids
    BY <1>0, ResubscribeAssumption DEF TypeOK
  <2>9. updates' \in Seq(Update)
    BY <1>0 DEF TypeOK, Update
  <2>10. grantedSince' \in [Subs -> BOOLEAN]
    BY <1>0, UpdateType DEF TypeOK
  <2> QED
    BY <2>1, <2>2, <2>3, <2>4, <2>5, <2>6, <2>7, <2>8, <2>9, <2>10, <2>11 DEF TypeOK
<1>2. NextRead'
  BY <1>0, ResubscribeAssumption DEF IInv, TypeOK, NextRead, Read
<1>3. Readers'
  BY <1>0, ResubscribeAssumption DEF IInv, TypeOK, NextRead, Readers, Read
<1>4. Resuming' /\ ResumesOnlyWhenGranted'
  BY <1>0 DEF IInv, TypeOK, Readers, Resuming, ResumesOnlyWhenGranted
<1>5. Slots' /\ SlotsAreSpaced'
  BY <1>0, ResubscribeAssumption DEF IInv, TypeOK, Slots, SlotsAreSpaced
<1>6. Tries' /\ FlappingIsBounded'
  BY <1>0, ResubscribeAssumption DEF IInv, TypeOK, Tries, FlappingIsBounded
<1> QED
  BY <1>1, <1>2, <1>3, <1>4, <1>5, <1>6 DEF IInv

\* The server's unsubscribe keeps the budget, or renews it after a long enough stay.
LEMMA ServerEndsIInv ==
  ASSUME IInv, NEW s \in Subs, NEW stayed \in BOOLEAN, ServerEnds(s, stayed)
  PROVE  IInv'
<1> USE DEF ServerEnds, Retry, Budget, GoOn, End, loops, access, world
<1>0. TypeOK
  BY DEF IInv
<1>a. /\ Budget(s, stayed) \in Nat
      /\ Retry(s, Budget(s, stayed), Budget(s, stayed))
  BY <1>0 DEF IInv, TypeOK, Tries
<1>b. /\ attempts' \in [Subs -> Nat] /\ tries' \in [Subs -> Nat]
      /\ Tries' /\ FlappingIsBounded'
  BY <1>0, <1>a, RetryFacts DEF IInv
<1>1. TypeOK'
  <2>1. pc' \in [Subs -> Places] /\ resume' \in [Subs -> {"none", "resuming", "ready"}]
    BY <1>0, UpdateType DEF TypeOK, Places
  <2>11. reason' \in [Subs -> Reasons]
    BY <1>0, UpdateType DEF TypeOK, Reasons
  <2>2. attempts' \in [Subs -> Nat] /\ tries' \in [Subs -> Nat]
    BY <1>b
  <2>3. announced' \subseteq Subs
    BY <1>0 DEF TypeOK
  <2>4. readOf' \in [Subs -> Reads \cup {NoRead}] /\ nextRead' \in Reads \cup {NoRead}
    BY <1>0, UpdateType DEF TypeOK
  <2>5. slotIn' \in [Subs -> Nat] /\ nextAttempt' \in Nat
    BY <1>0, UpdateType, ResubscribeAssumption DEF TypeOK
  <2>6. reads' \in [Reads -> Read]
    BY <1>0, UpdateType DEF TypeOK
  <2>7. sinceRead' \in 0..Interval
    BY <1>0, ResubscribeAssumption DEF TypeOK
  <2>8. removed' \subseteq Ids /\ granted' \subseteq Ids
    BY <1>0, ResubscribeAssumption DEF TypeOK
  <2>9. updates' \in Seq(Update)
    BY <1>0 DEF TypeOK, Update
  <2>10. grantedSince' \in [Subs -> BOOLEAN]
    BY <1>0, UpdateType DEF TypeOK
  <2> QED
    BY <2>1, <2>2, <2>3, <2>4, <2>5, <2>6, <2>7, <2>8, <2>9, <2>10, <2>11 DEF TypeOK
<1>2. NextRead'
  BY <1>0, ResubscribeAssumption DEF IInv, TypeOK, NextRead, Read
<1>3. Readers'
  BY <1>0, ResubscribeAssumption DEF IInv, TypeOK, NextRead, Readers, Read
<1>4. Resuming' /\ ResumesOnlyWhenGranted'
  BY <1>0 DEF IInv, TypeOK, Readers, Resuming, ResumesOnlyWhenGranted
<1>5. Slots' /\ SlotsAreSpaced'
  BY <1>0, ResubscribeAssumption DEF IInv, TypeOK, Slots, SlotsAreSpaced
<1>6. Tries' /\ FlappingIsBounded'
  BY <1>b
<1> QED
  BY <1>1, <1>2, <1>3, <1>4, <1>5, <1>6 DEF IInv

\* A stop ends the loop and leaves its read alone.
LEMMA StopIInv ==
  ASSUME IInv, NEW s \in Subs, Stop(s)
  PROVE  IInv'
<1> USE DEF Stop, GoOn, End, loops, access, world
<1>0. TypeOK
  BY DEF IInv
<1>1. TypeOK'
  <2>1. pc' \in [Subs -> Places] /\ resume' \in [Subs -> {"none", "resuming", "ready"}]
    BY <1>0, UpdateType DEF TypeOK, Places
  <2>11. reason' \in [Subs -> Reasons]
    BY <1>0, UpdateType DEF TypeOK, Reasons
  <2>2. attempts' \in [Subs -> Nat] /\ tries' \in [Subs -> Nat]
    BY <1>0, UpdateType DEF TypeOK
  <2>3. announced' \subseteq Subs
    BY <1>0 DEF TypeOK
  <2>4. readOf' \in [Subs -> Reads \cup {NoRead}] /\ nextRead' \in Reads \cup {NoRead}
    BY <1>0, UpdateType DEF TypeOK
  <2>5. slotIn' \in [Subs -> Nat] /\ nextAttempt' \in Nat
    BY <1>0, UpdateType, ResubscribeAssumption DEF TypeOK
  <2>6. reads' \in [Reads -> Read]
    BY <1>0, UpdateType DEF TypeOK
  <2>7. sinceRead' \in 0..Interval
    BY <1>0, ResubscribeAssumption DEF TypeOK
  <2>8. removed' \subseteq Ids /\ granted' \subseteq Ids
    BY <1>0, ResubscribeAssumption DEF TypeOK
  <2>9. updates' \in Seq(Update)
    BY <1>0 DEF TypeOK, Update
  <2>10. grantedSince' \in [Subs -> BOOLEAN]
    BY <1>0, UpdateType DEF TypeOK
  <2> QED
    BY <2>1, <2>2, <2>3, <2>4, <2>5, <2>6, <2>7, <2>8, <2>9, <2>10, <2>11 DEF TypeOK
<1>2. NextRead'
  BY <1>0, ResubscribeAssumption DEF IInv, TypeOK, NextRead, Read
<1>3. Readers'
  BY <1>0, ResubscribeAssumption DEF IInv, TypeOK, NextRead, Readers, Read
<1>4. Resuming' /\ ResumesOnlyWhenGranted'
  BY <1>0 DEF IInv, TypeOK, Readers, Resuming, ResumesOnlyWhenGranted
<1>5. Slots' /\ SlotsAreSpaced'
  BY <1>0, ResubscribeAssumption DEF IInv, TypeOK, Slots, SlotsAreSpaced
<1>6. Tries' /\ FlappingIsBounded'
  BY <1>0, ResubscribeAssumption DEF IInv, TypeOK, Tries, FlappingIsBounded
<1> QED
  BY <1>1, <1>2, <1>3, <1>4, <1>5, <1>6 DEF IInv

\* Joining a read: one that has not begun and that nobody else's answer is.
LEMMA JoinFacts ==
  ASSUME TypeOK, NextRead, NEW s \in Subs, Join(s)
  PROVE  \E r \in Reads :
           /\ readOf' = [readOf EXCEPT ![s] = r]
           /\ nextRead' = r
           /\ reads' \in [Reads -> Read]
           /\ reads'[r].phase = "waiting" /\ reads'[r].wait + sinceRead >= Interval
           /\ \A q \in Reads : q # r => /\ reads'[q] = reads[q]
                                        /\ reads[q].phase # "waiting"
           /\ \A t \in Subs : readOf[t] # NoRead => reads'[readOf[t]] = reads[readOf[t]]
<1> USE ResubscribeAssumption
<1>1. CASE nextRead # NoRead
  <2>1. nextRead \in Reads
    BY <1>1 DEF TypeOK
  <2>2. UNCHANGED <<reads, nextRead>> /\ readOf' = [readOf EXCEPT ![s] = nextRead]
    BY <1>1 DEF Join
  <2>3. reads[nextRead].phase = "waiting" /\ reads[nextRead].wait + sinceRead >= Interval
    BY <2>1 DEF NextRead
  <2>4. \A q \in Reads : q # nextRead => reads[q].phase # "waiting"
    BY DEF NextRead
  <2>5. reads' \in [Reads -> Read]
    BY <2>2 DEF TypeOK
  <2> QED
    BY <2>1, <2>2, <2>3, <2>4, <2>5
<1>2. CASE nextRead = NoRead
  <2>1. PICK r \in FreeReads :
          /\ reads' = [reads EXCEPT ![r] = NewRead(Interval - sinceRead)]
          /\ nextRead' = r
          /\ readOf' = [readOf EXCEPT ![s] = r]
    BY <1>2 DEF Join
  <2>2. r \in Reads /\ \A t \in Subs : readOf[t] # r
    BY DEF FreeReads
  <2>3. Interval - sinceRead \in Nat /\ (Interval - sinceRead) + sinceRead >= Interval
    BY DEF TypeOK
  <2>4. reads' \in [Reads -> Read]
    BY <2>1, <2>2, <2>3, NewReadType, ReadsType
  <2>5. reads'[r] = NewRead(Interval - sinceRead)
    BY <2>1, <2>2 DEF TypeOK
  <2>6. \A q \in Reads : q # r => reads'[q] = reads[q] /\ reads[q].phase # "waiting"
    BY <1>2, <2>1, <2>2 DEF TypeOK, NextRead
  <2>7. \A t \in Subs : readOf[t] # NoRead => reads'[readOf[t]] = reads[readOf[t]]
    BY <2>2, <2>6 DEF TypeOK
  <2>8. reads'[r].phase = "waiting" /\ reads'[r].wait + sinceRead >= Interval
    BY <2>3, <2>5, NewReadType
  <2> QED
    BY <2>1, <2>2, <2>4, <2>6, <2>7, <2>8
<1> QED
  BY <1>1, <1>2

\* A subscription that wakes joins a read that has not begun.
LEMMA WakeIInv ==
  ASSUME IInv, NEW s \in Subs, Wake(s)
  PROVE  IInv'
<1> USE DEF Wake, GoOn, End, loops, access, world
<1>0. TypeOK
  BY DEF IInv
<1>a. \/ UNCHANGED <<readOf, reads, nextRead, grantedSince>> /\ pc' = [pc EXCEPT ![s] = "done"]
      \/ /\ Join(s) /\ pc' = [pc EXCEPT ![s] = "reading"]
         /\ grantedSince' = [grantedSince EXCEPT ![s] = IdOf[s] \in granted]
  OBVIOUS
<1>b. reads' \in [Reads -> Read] /\ nextRead' \in Reads \cup {NoRead}
      /\ readOf' \in [Subs -> Reads \cup {NoRead}]
  <2>1. CASE UNCHANGED <<readOf, reads, nextRead, grantedSince>>
    BY <1>0, <2>1 DEF TypeOK
  <2>2. CASE Join(s)
    <3>1. PICK r \in Reads :
            /\ readOf' = [readOf EXCEPT ![s] = r]
            /\ nextRead' = r
            /\ reads' \in [Reads -> Read]
      BY <1>0, <2>2, JoinFacts DEF IInv
    <3>2. readOf' \in [Subs -> Reads \cup {NoRead}]
      BY <1>0, <3>1, UpdateType DEF TypeOK
    <3> QED
      BY <3>1, <3>2
  <2> QED
    BY <1>a, <2>1, <2>2
<1>1. TypeOK'
  <2>1. pc' \in [Subs -> Places] /\ resume' \in [Subs -> {"none", "resuming", "ready"}]
    BY <1>0, UpdateType DEF TypeOK, Places
  <2>11. reason' \in [Subs -> Reasons]
    BY <1>0, UpdateType DEF TypeOK, Reasons
  <2>2. attempts' \in [Subs -> Nat] /\ tries' \in [Subs -> Nat]
    BY <1>0, UpdateType DEF TypeOK
  <2>3. announced' \subseteq Subs
    BY <1>0 DEF TypeOK
  <2>4. readOf' \in [Subs -> Reads \cup {NoRead}] /\ nextRead' \in Reads \cup {NoRead}
    BY <1>b
  <2>5. slotIn' \in [Subs -> Nat] /\ nextAttempt' \in Nat
    BY <1>0, UpdateType, ResubscribeAssumption DEF TypeOK
  <2>6. reads' \in [Reads -> Read]
    BY <1>b
  <2>7. sinceRead' \in 0..Interval
    BY <1>0, ResubscribeAssumption DEF TypeOK
  <2>8. removed' \subseteq Ids /\ granted' \subseteq Ids
    BY <1>0, ResubscribeAssumption DEF TypeOK
  <2>9. updates' \in Seq(Update)
    BY <1>0 DEF TypeOK, Update
  <2>10. grantedSince' \in [Subs -> BOOLEAN]
    <3>1. CASE UNCHANGED grantedSince
      BY <1>0, <3>1 DEF TypeOK
    <3>2. CASE grantedSince' = [grantedSince EXCEPT ![s] = IdOf[s] \in granted]
      <4>1. (IdOf[s] \in granted) \in BOOLEAN
        OBVIOUS
      <4> QED
        BY <1>0, <3>2, <4>1, UpdateType DEF TypeOK
    <3> QED
      BY <1>a, <3>1, <3>2
  <2> QED
    BY <2>1, <2>2, <2>3, <2>4, <2>5, <2>6, <2>7, <2>8, <2>9, <2>10, <2>11 DEF TypeOK
<1>2. NextRead'
  <2>1. CASE UNCHANGED <<readOf, reads, nextRead, grantedSince>>
    BY <2>1 DEF IInv, NextRead
  <2>2. CASE Join(s)
    <3>1. PICK r \in Reads :
            /\ nextRead' = r
            /\ reads'[r].phase = "waiting" /\ reads'[r].wait + sinceRead >= Interval
            /\ \A q \in Reads : q # r => reads'[q] = reads[q] /\ reads[q].phase # "waiting"
      BY <1>0, <2>2, JoinFacts DEF IInv
    <3> QED
      BY <3>1 DEF NextRead
  <2> QED
    BY <1>a, <2>1, <2>2
<1>3. Readers'
  <2>1. CASE /\ UNCHANGED <<readOf, reads, nextRead, grantedSince>>
             /\ pc' = [pc EXCEPT ![s] = "done"]
    BY <1>0, <2>1 DEF IInv, TypeOK, Readers
  <2>2. CASE /\ Join(s) /\ pc' = [pc EXCEPT ![s] = "reading"]
             /\ grantedSince' = [grantedSince EXCEPT ![s] = IdOf[s] \in granted]
    <3>1. PICK r \in Reads :
            /\ readOf' = [readOf EXCEPT ![s] = r]
            /\ reads'[r].phase = "waiting"
            /\ \A t \in Subs : readOf[t] # NoRead => reads'[readOf[t]] = reads[readOf[t]]
      BY <1>0, <2>2, JoinFacts DEF IInv
    <3>2. pc'[s] = "reading" /\ readOf'[s] = r /\ r # NoRead
          /\ (IdOf[s] \in granted => grantedSince'[s])
      BY <1>0, <2>2, <3>1, ResubscribeAssumption DEF TypeOK
    <3>3. \A t \in Subs : t # s => /\ pc'[t] = pc[t] /\ readOf'[t] = readOf[t]
                                  /\ grantedSince'[t] = grantedSince[t]
      BY <1>0, <2>2, <3>1 DEF TypeOK
    <3>4. granted' = granted
      OBVIOUS
    <3> QED
      BY <3>1, <3>2, <3>3, <3>4 DEF IInv, Readers
  <2> QED
    BY <1>a, <2>1, <2>2
<1>4. Resuming' /\ ResumesOnlyWhenGranted'
  <2>1. pc'[s] \in {"done", "reading"}
    BY <1>0, <1>a DEF TypeOK
  <2>2. \A t \in Subs : t # s => pc'[t] = pc[t] /\ grantedSince'[t] = grantedSince[t]
    BY <1>0, <1>a DEF TypeOK
  <2>3. UNCHANGED resume
    OBVIOUS
  <2> QED
    BY <2>1, <2>2, <2>3 DEF IInv, Resuming, ResumesOnlyWhenGranted
<1>5. Slots' /\ SlotsAreSpaced'
  BY <1>0, ResubscribeAssumption DEF IInv, TypeOK, Slots, SlotsAreSpaced
<1>6. Tries' /\ FlappingIsBounded'
  BY <1>0, ResubscribeAssumption DEF IInv, TypeOK, Tries, FlappingIsBounded
<1> QED
  BY <1>1, <1>2, <1>3, <1>4, <1>5, <1>6 DEF IInv

\* Only an answer that lists the sub-account gets a slot, behind those before it.
LEMMA DecideIInv ==
  ASSUME IInv, NEW s \in Subs, Decide(s)
  PROVE  IInv'
<1> USE DEF Decide, Retry, ReserveAttempt, GoOn, End, loops, access, world
<1>0. TypeOK
  BY DEF IInv
<1>a. \/ UNCHANGED <<attempts, tries>>
      \/ Retry(s, attempts[s], attempts[s])
  BY DEF IInv, Tries
<1>b. /\ attempts' \in [Subs -> Nat] /\ tries' \in [Subs -> Nat]
      /\ Tries' /\ FlappingIsBounded'
  <2>1. attempts[s] \in Nat
    BY <1>0 DEF TypeOK
  <2>2. CASE UNCHANGED <<attempts, tries>>
    BY <1>0, <2>2 DEF IInv, TypeOK, Tries, FlappingIsBounded
  <2> QED
    BY <1>0, <1>a, <2>1, <2>2, RetryFacts DEF IInv
<1>c. \/ UNCHANGED <<slotIn, nextAttempt>> /\ pc'[s] # "slot"
      \/ /\ slotIn' = [slotIn EXCEPT ![s] = nextAttempt]
         /\ nextAttempt' = nextAttempt + Spacing
  BY <1>0 DEF TypeOK
<1>1. TypeOK'
  <2>1. pc' \in [Subs -> Places] /\ resume' \in [Subs -> {"none", "resuming", "ready"}]
    BY <1>0, UpdateType DEF TypeOK, Places
  <2>11. reason' \in [Subs -> Reasons]
    BY <1>0, UpdateType DEF TypeOK, Reasons
  <2>2. attempts' \in [Subs -> Nat] /\ tries' \in [Subs -> Nat]
    BY <1>b
  <2>3. announced' \subseteq Subs
    BY <1>0 DEF TypeOK
  <2>4. readOf' \in [Subs -> Reads \cup {NoRead}] /\ nextRead' \in Reads \cup {NoRead}
    BY <1>0, UpdateType DEF TypeOK
  <2>5. slotIn' \in [Subs -> Nat] /\ nextAttempt' \in Nat
    <3>1. nextAttempt \in Nat /\ nextAttempt + Spacing \in Nat
      BY <1>0, ResubscribeAssumption DEF TypeOK
    <3> QED
      BY <1>0, <1>c, <3>1, UpdateType DEF TypeOK
  <2>6. reads' \in [Reads -> Read]
    BY <1>0, UpdateType DEF TypeOK
  <2>7. sinceRead' \in 0..Interval
    BY <1>0, ResubscribeAssumption DEF TypeOK
  <2>8. removed' \subseteq Ids /\ granted' \subseteq Ids
    BY <1>0, ResubscribeAssumption DEF TypeOK
  <2>9. updates' \in Seq(Update)
    BY <1>0 DEF TypeOK, Update
  <2>10. grantedSince' \in [Subs -> BOOLEAN]
    BY <1>0, UpdateType DEF TypeOK
  <2> QED
    BY <2>1, <2>2, <2>3, <2>4, <2>5, <2>6, <2>7, <2>8, <2>9, <2>10, <2>11 DEF TypeOK
<1>2. NextRead'
  BY <1>0, ResubscribeAssumption DEF IInv, TypeOK, NextRead, Read
<1>3. Readers'
  BY <1>0, ResubscribeAssumption DEF IInv, TypeOK, NextRead, Readers, Read
<1>4. Resuming' /\ ResumesOnlyWhenGranted'
  <2>1. /\ pc'[s] \in {"done", "backoff", "slot"}
        /\ pc'[s] = "slot" => reads[readOf[s]].phase = "answered" /\ IdOf[s] \in reads[readOf[s]].ids
    BY <1>0 DEF TypeOK
  <2>2. pc'[s] = "slot" => grantedSince[s]
    BY <2>1 DEF IInv, Readers
  <2>3. \A t \in Subs : t # s => pc'[t] = pc[t]
    BY <1>0 DEF TypeOK
  <2>4. UNCHANGED <<resume, grantedSince>>
    OBVIOUS
  <2> QED
    BY <2>1, <2>2, <2>3, <2>4 DEF IInv, Resuming, ResumesOnlyWhenGranted
<1>5. Slots' /\ SlotsAreSpaced'
  <2>1. \A t \in Subs : t # s => pc'[t] = pc[t]
    BY <1>0 DEF TypeOK
  <2>2. nextAttempt \in Nat /\ Spacing \in Nat /\ slotIn \in [Subs -> Nat]
    BY <1>0, ResubscribeAssumption DEF TypeOK
  <2>3. CASE UNCHANGED <<slotIn, nextAttempt>> /\ pc'[s] # "slot"
    BY <2>1, <2>3 DEF IInv, Slots, SlotsAreSpaced
  <2>4. CASE /\ slotIn' = [slotIn EXCEPT ![s] = nextAttempt]
             /\ nextAttempt' = nextAttempt + Spacing
    <3>1. \A t \in Subs : slotIn'[t] = IF t = s THEN nextAttempt ELSE slotIn[t]
      BY <2>2, <2>4
    <3>2. \A t \in Subs : t # s /\ pc'[t] = "slot" /\ slotIn[t] > 0
                             => slotIn[t] + Spacing <= nextAttempt
      BY <2>1 DEF IInv, Slots
    <3>3. Slots'
      BY <2>2, <2>4, <3>1, <3>2 DEF Slots
    <3>4. SlotsAreSpaced'
      BY <2>1, <2>2, <3>1, <3>2 DEF IInv, SlotsAreSpaced
    <3> QED
      BY <3>3, <3>4
  <2> QED
    BY <1>c, <2>3, <2>4
<1>6. Tries' /\ FlappingIsBounded'
  BY <1>b
<1> QED
  BY <1>1, <1>2, <1>3, <1>4, <1>5, <1>6 DEF IInv

\* An attempt follows its slot.
LEMMA SlotOpensIInv ==
  ASSUME IInv, NEW s \in Subs, SlotOpens(s)
  PROVE  IInv'
<1> USE DEF SlotOpens, GoOn, End, loops, access, world
<1>0. TypeOK
  BY DEF IInv
<1>1. TypeOK'
  <2>1. pc' \in [Subs -> Places] /\ resume' \in [Subs -> {"none", "resuming", "ready"}]
    BY <1>0, UpdateType DEF TypeOK, Places
  <2>11. reason' \in [Subs -> Reasons]
    BY <1>0, UpdateType DEF TypeOK, Reasons
  <2>2. attempts' \in [Subs -> Nat] /\ tries' \in [Subs -> Nat]
    BY <1>0, UpdateType DEF TypeOK
  <2>3. announced' \subseteq Subs
    BY <1>0 DEF TypeOK
  <2>4. readOf' \in [Subs -> Reads \cup {NoRead}] /\ nextRead' \in Reads \cup {NoRead}
    BY <1>0, UpdateType DEF TypeOK
  <2>5. slotIn' \in [Subs -> Nat] /\ nextAttempt' \in Nat
    BY <1>0, UpdateType, ResubscribeAssumption DEF TypeOK
  <2>6. reads' \in [Reads -> Read]
    BY <1>0, UpdateType DEF TypeOK
  <2>7. sinceRead' \in 0..Interval
    BY <1>0, ResubscribeAssumption DEF TypeOK
  <2>8. removed' \subseteq Ids /\ granted' \subseteq Ids
    BY <1>0, ResubscribeAssumption DEF TypeOK
  <2>9. updates' \in Seq(Update)
    BY <1>0 DEF TypeOK, Update
  <2>10. grantedSince' \in [Subs -> BOOLEAN]
    BY <1>0, UpdateType DEF TypeOK
  <2> QED
    BY <2>1, <2>2, <2>3, <2>4, <2>5, <2>6, <2>7, <2>8, <2>9, <2>10, <2>11 DEF TypeOK
<1>2. NextRead'
  BY <1>0, ResubscribeAssumption DEF IInv, TypeOK, NextRead, Read
<1>3. Readers'
  BY <1>0, ResubscribeAssumption DEF IInv, TypeOK, NextRead, Readers, Read
<1>4. Resuming' /\ ResumesOnlyWhenGranted'
  BY <1>0 DEF IInv, TypeOK, Readers, Resuming, ResumesOnlyWhenGranted
<1>5. Slots' /\ SlotsAreSpaced'
  BY <1>0, ResubscribeAssumption DEF IInv, TypeOK, Slots, SlotsAreSpaced
<1>6. Tries' /\ FlappingIsBounded'
  BY <1>0, ResubscribeAssumption DEF IInv, TypeOK, Tries, FlappingIsBounded
<1> QED
  BY <1>1, <1>2, <1>3, <1>4, <1>5, <1>6 DEF IInv

\* A read begins no earlier than its interval, and nobody joins it afterwards.
LEMMA StartReadIInv ==
  ASSUME IInv, NEW r \in Reads, StartRead(r)
  PROVE  IInv'
<1> USE DEF StartRead, GoOn, End, loops, access, world
<1>0. TypeOK
  BY DEF IInv
<1>1. TypeOK'
  <2>1. pc' \in [Subs -> Places] /\ resume' \in [Subs -> {"none", "resuming", "ready"}]
    BY <1>0, UpdateType DEF TypeOK, Places
  <2>11. reason' \in [Subs -> Reasons]
    BY <1>0, UpdateType DEF TypeOK, Reasons
  <2>2. attempts' \in [Subs -> Nat] /\ tries' \in [Subs -> Nat]
    BY <1>0, UpdateType DEF TypeOK
  <2>3. announced' \subseteq Subs
    BY <1>0 DEF TypeOK
  <2>4. readOf' \in [Subs -> Reads \cup {NoRead}] /\ nextRead' \in Reads \cup {NoRead}
    BY <1>0, UpdateType DEF TypeOK
  <2>5. slotIn' \in [Subs -> Nat] /\ nextAttempt' \in Nat
    BY <1>0, UpdateType, ResubscribeAssumption DEF TypeOK
  <2>6. reads' \in [Reads -> Read]
    <3>1. reads[r] \in Read
      BY <1>0 DEF TypeOK
    <3>2. [reads[r] EXCEPT !.phase = "asked"] \in Read
      BY <3>1 DEF Read
    <3>3. reads' = [reads EXCEPT ![r] = [reads[r] EXCEPT !.phase = "asked"]]
      OBVIOUS
    <3> QED
      BY <1>0, <3>2, <3>3, ReadsType
  <2>7. sinceRead' \in 0..Interval
    BY <1>0, ResubscribeAssumption DEF TypeOK
  <2>8. removed' \subseteq Ids /\ granted' \subseteq Ids
    BY <1>0, ResubscribeAssumption DEF TypeOK
  <2>9. updates' \in Seq(Update)
    BY <1>0 DEF TypeOK, Update
  <2>10. grantedSince' \in [Subs -> BOOLEAN]
    BY <1>0, UpdateType DEF TypeOK
  <2> QED
    BY <2>1, <2>2, <2>3, <2>4, <2>5, <2>6, <2>7, <2>8, <2>9, <2>10, <2>11 DEF TypeOK
<1>2. NextRead'
  BY <1>0, ResubscribeAssumption DEF IInv, TypeOK, NextRead, Read
<1>3. Readers'
  BY <1>0, ResubscribeAssumption DEF IInv, TypeOK, NextRead, Readers, Read
<1>4. Resuming' /\ ResumesOnlyWhenGranted'
  BY <1>0 DEF IInv, TypeOK, Readers, Resuming, ResumesOnlyWhenGranted
<1>5. Slots' /\ SlotsAreSpaced'
  BY <1>0, ResubscribeAssumption DEF IInv, TypeOK, Slots, SlotsAreSpaced
<1>6. Tries' /\ FlappingIsBounded'
  BY <1>0, ResubscribeAssumption DEF IInv, TypeOK, Tries, FlappingIsBounded
<1> QED
  BY <1>1, <1>2, <1>3, <1>4, <1>5, <1>6 DEF IInv

\* What an answer lists is granted at that moment, when its readers wait already.
LEMMA ReadAnsweredIInv ==
  ASSUME IInv, NEW r \in Reads, NEW answer \in {"listed", "refused", "failed"}, ReadAnswered(r, answer)
  PROVE  IInv'
<1> USE DEF ReadAnswered, GoOn, End, loops, access, world
<1>0. TypeOK
  BY DEF IInv
<1>1. TypeOK'
  <2>1. pc' \in [Subs -> Places] /\ resume' \in [Subs -> {"none", "resuming", "ready"}]
    BY <1>0, UpdateType DEF TypeOK, Places
  <2>11. reason' \in [Subs -> Reasons]
    BY <1>0, UpdateType DEF TypeOK, Reasons
  <2>2. attempts' \in [Subs -> Nat] /\ tries' \in [Subs -> Nat]
    BY <1>0, UpdateType DEF TypeOK
  <2>3. announced' \subseteq Subs
    BY <1>0 DEF TypeOK
  <2>4. readOf' \in [Subs -> Reads \cup {NoRead}] /\ nextRead' \in Reads \cup {NoRead}
    BY <1>0, UpdateType DEF TypeOK
  <2>5. slotIn' \in [Subs -> Nat] /\ nextAttempt' \in Nat
    BY <1>0, UpdateType, ResubscribeAssumption DEF TypeOK
  <2>6. reads' \in [Reads -> Read]
    <3> DEFINE read == [reads[r] EXCEPT !.phase = "answered", !.answer = answer,
                                        !.ids = IF answer = "listed" THEN granted ELSE {}]
    <3>1. reads[r] \in Read /\ granted \in SUBSET Ids
      BY <1>0 DEF TypeOK
    <3>2. read \in Read
      BY <3>1 DEF Read
    <3>3. reads' = [reads EXCEPT ![r] = read]
      BY <1>0 DEF TypeOK
    <3> HIDE DEF read
    <3> QED
      BY <1>0, <3>2, <3>3, ReadsType
  <2>7. sinceRead' \in 0..Interval
    BY <1>0, ResubscribeAssumption DEF TypeOK
  <2>8. removed' \subseteq Ids /\ granted' \subseteq Ids
    BY <1>0, ResubscribeAssumption DEF TypeOK
  <2>9. updates' \in Seq(Update)
    BY <1>0 DEF TypeOK, Update
  <2>10. grantedSince' \in [Subs -> BOOLEAN]
    BY <1>0, UpdateType DEF TypeOK
  <2> QED
    BY <2>1, <2>2, <2>3, <2>4, <2>5, <2>6, <2>7, <2>8, <2>9, <2>10, <2>11 DEF TypeOK
<1>2. NextRead'
  BY <1>0, ResubscribeAssumption DEF IInv, TypeOK, NextRead, Read
<1>3. Readers'
  BY <1>0, ResubscribeAssumption DEF IInv, TypeOK, NextRead, Readers, Read
<1>4. Resuming' /\ ResumesOnlyWhenGranted'
  BY <1>0 DEF IInv, TypeOK, Readers, Resuming, ResumesOnlyWhenGranted
<1>5. Slots' /\ SlotsAreSpaced'
  BY <1>0, ResubscribeAssumption DEF IInv, TypeOK, Slots, SlotsAreSpaced
<1>6. Tries' /\ FlappingIsBounded'
  BY <1>0, ResubscribeAssumption DEF IInv, TypeOK, Tries, FlappingIsBounded
<1> QED
  BY <1>1, <1>2, <1>3, <1>4, <1>5, <1>6 DEF IInv

\* Access that is granted is remembered by those who wait.
LEMMA GrantIInv ==
  ASSUME IInv, NEW i \in Ids, Grant(i)
  PROVE  IInv'
<1> USE DEF Grant, Announce, GoOn, End, loops, access, world
<1>0. TypeOK
  BY DEF IInv
<1>1. TypeOK'
  <2>1. pc' \in [Subs -> Places] /\ resume' \in [Subs -> {"none", "resuming", "ready"}]
    BY <1>0, UpdateType DEF TypeOK, Places
  <2>11. reason' \in [Subs -> Reasons]
    BY <1>0, UpdateType DEF TypeOK, Reasons
  <2>2. attempts' \in [Subs -> Nat] /\ tries' \in [Subs -> Nat]
    BY <1>0, UpdateType DEF TypeOK
  <2>3. announced' \subseteq Subs
    BY <1>0 DEF TypeOK
  <2>4. readOf' \in [Subs -> Reads \cup {NoRead}] /\ nextRead' \in Reads \cup {NoRead}
    BY <1>0, UpdateType DEF TypeOK
  <2>5. slotIn' \in [Subs -> Nat] /\ nextAttempt' \in Nat
    BY <1>0, UpdateType, ResubscribeAssumption DEF TypeOK
  <2>6. reads' \in [Reads -> Read]
    BY <1>0, UpdateType DEF TypeOK
  <2>7. sinceRead' \in 0..Interval
    BY <1>0, ResubscribeAssumption DEF TypeOK
  <2>8. removed' \subseteq Ids /\ granted' \subseteq Ids
    BY <1>0, ResubscribeAssumption DEF TypeOK
  <2>9. updates' \in Seq(Update)
    BY <1>0 DEF TypeOK, Update
  <2>10. grantedSince' \in [Subs -> BOOLEAN]
    BY <1>0, UpdateType DEF TypeOK
  <2> QED
    BY <2>1, <2>2, <2>3, <2>4, <2>5, <2>6, <2>7, <2>8, <2>9, <2>10, <2>11 DEF TypeOK
<1>2. NextRead'
  BY <1>0, ResubscribeAssumption DEF IInv, TypeOK, NextRead, Read
<1>3. Readers'
  BY <1>0, ResubscribeAssumption DEF IInv, TypeOK, NextRead, Readers, Read
<1>4. Resuming' /\ ResumesOnlyWhenGranted'
  BY <1>0 DEF IInv, TypeOK, Readers, Resuming, ResumesOnlyWhenGranted
<1>5. Slots' /\ SlotsAreSpaced'
  BY <1>0, ResubscribeAssumption DEF IInv, TypeOK, Slots, SlotsAreSpaced
<1>6. Tries' /\ FlappingIsBounded'
  BY <1>0, ResubscribeAssumption DEF IInv, TypeOK, Tries, FlappingIsBounded
<1> QED
  BY <1>1, <1>2, <1>3, <1>4, <1>5, <1>6 DEF IInv

\* Access that is removed decides nothing before it is known.
LEMMA RemoveIInv ==
  ASSUME IInv, NEW i \in Ids, Remove(i)
  PROVE  IInv'
<1> USE DEF Remove, Announce, GoOn, End, loops, access, world
<1>0. TypeOK
  BY DEF IInv
<1>1. TypeOK'
  <2>1. pc' \in [Subs -> Places] /\ resume' \in [Subs -> {"none", "resuming", "ready"}]
    BY <1>0, UpdateType DEF TypeOK, Places
  <2>11. reason' \in [Subs -> Reasons]
    BY <1>0, UpdateType DEF TypeOK, Reasons
  <2>2. attempts' \in [Subs -> Nat] /\ tries' \in [Subs -> Nat]
    BY <1>0, UpdateType DEF TypeOK
  <2>3. announced' \subseteq Subs
    BY <1>0 DEF TypeOK
  <2>4. readOf' \in [Subs -> Reads \cup {NoRead}] /\ nextRead' \in Reads \cup {NoRead}
    BY <1>0, UpdateType DEF TypeOK
  <2>5. slotIn' \in [Subs -> Nat] /\ nextAttempt' \in Nat
    BY <1>0, UpdateType, ResubscribeAssumption DEF TypeOK
  <2>6. reads' \in [Reads -> Read]
    BY <1>0, UpdateType DEF TypeOK
  <2>7. sinceRead' \in 0..Interval
    BY <1>0, ResubscribeAssumption DEF TypeOK
  <2>8. removed' \subseteq Ids /\ granted' \subseteq Ids
    BY <1>0, ResubscribeAssumption DEF TypeOK
  <2>9. updates' \in Seq(Update)
    BY <1>0 DEF TypeOK, Update
  <2>10. grantedSince' \in [Subs -> BOOLEAN]
    BY <1>0, UpdateType DEF TypeOK
  <2> QED
    BY <2>1, <2>2, <2>3, <2>4, <2>5, <2>6, <2>7, <2>8, <2>9, <2>10, <2>11 DEF TypeOK
<1>2. NextRead'
  BY <1>0, ResubscribeAssumption DEF IInv, TypeOK, NextRead, Read
<1>3. Readers'
  BY <1>0, ResubscribeAssumption DEF IInv, TypeOK, NextRead, Readers, Read
<1>4. Resuming' /\ ResumesOnlyWhenGranted'
  BY <1>0 DEF IInv, TypeOK, Readers, Resuming, ResumesOnlyWhenGranted
<1>5. Slots' /\ SlotsAreSpaced'
  BY <1>0, ResubscribeAssumption DEF IInv, TypeOK, Slots, SlotsAreSpaced
<1>6. Tries' /\ FlappingIsBounded'
  BY <1>0, ResubscribeAssumption DEF IInv, TypeOK, Tries, FlappingIsBounded
<1> QED
  BY <1>1, <1>2, <1>3, <1>4, <1>5, <1>6 DEF IInv

\* An update changes what the client was told.
LEMMA NoteUpdateIInv ==
  ASSUME IInv, NoteUpdate
  PROVE  IInv'
<1> USE DEF NoteUpdate, GoOn, End, loops, access, world
<1>0. TypeOK
  BY DEF IInv
<1>1. TypeOK'
  <2>1. pc' \in [Subs -> Places] /\ resume' \in [Subs -> {"none", "resuming", "ready"}]
    BY <1>0, UpdateType DEF TypeOK, Places
  <2>11. reason' \in [Subs -> Reasons]
    BY <1>0, UpdateType DEF TypeOK, Reasons
  <2>2. attempts' \in [Subs -> Nat] /\ tries' \in [Subs -> Nat]
    BY <1>0, UpdateType DEF TypeOK
  <2>3. announced' \subseteq Subs
    BY <1>0 DEF TypeOK
  <2>4. readOf' \in [Subs -> Reads \cup {NoRead}] /\ nextRead' \in Reads \cup {NoRead}
    BY <1>0, UpdateType DEF TypeOK
  <2>5. slotIn' \in [Subs -> Nat] /\ nextAttempt' \in Nat
    BY <1>0, UpdateType, ResubscribeAssumption DEF TypeOK
  <2>6. reads' \in [Reads -> Read]
    BY <1>0, UpdateType DEF TypeOK
  <2>7. sinceRead' \in 0..Interval
    BY <1>0, ResubscribeAssumption DEF TypeOK
  <2>8. removed' \subseteq Ids /\ granted' \subseteq Ids
    <3>1. updates \in Seq(Update) /\ updates # <<>>
      BY <1>0 DEF TypeOK
    <3>2. Head(updates) \in Update
      BY <3>1
    <3>3. Head(updates).id \in Ids
      BY <3>2 DEF Update
    <3> QED
      BY <1>0, <3>3 DEF TypeOK
  <2>9. updates' \in Seq(Update)
    BY <1>0 DEF TypeOK, Update
  <2>10. grantedSince' \in [Subs -> BOOLEAN]
    BY <1>0, UpdateType DEF TypeOK
  <2> QED
    BY <2>1, <2>2, <2>3, <2>4, <2>5, <2>6, <2>7, <2>8, <2>9, <2>10, <2>11 DEF TypeOK
<1>2. NextRead'
  BY <1>0, ResubscribeAssumption DEF IInv, TypeOK, NextRead, Read
<1>3. Readers'
  BY <1>0, ResubscribeAssumption DEF IInv, TypeOK, NextRead, Readers, Read
<1>4. Resuming' /\ ResumesOnlyWhenGranted'
  BY <1>0 DEF IInv, TypeOK, Readers, Resuming, ResumesOnlyWhenGranted
<1>5. Slots' /\ SlotsAreSpaced'
  BY <1>0, ResubscribeAssumption DEF IInv, TypeOK, Slots, SlotsAreSpaced
<1>6. Tries' /\ FlappingIsBounded'
  BY <1>0, ResubscribeAssumption DEF IInv, TypeOK, Tries, FlappingIsBounded
<1> QED
  BY <1>1, <1>2, <1>3, <1>4, <1>5, <1>6 DEF IInv

\* A lost update changes nothing.
LEMMA UpdateLostIInv ==
  ASSUME IInv, UpdateLost
  PROVE  IInv'
<1> USE DEF UpdateLost, GoOn, End, loops, access, world
<1>0. TypeOK
  BY DEF IInv
<1>1. TypeOK'
  <2>1. pc' \in [Subs -> Places] /\ resume' \in [Subs -> {"none", "resuming", "ready"}]
    BY <1>0, UpdateType DEF TypeOK, Places
  <2>11. reason' \in [Subs -> Reasons]
    BY <1>0, UpdateType DEF TypeOK, Reasons
  <2>2. attempts' \in [Subs -> Nat] /\ tries' \in [Subs -> Nat]
    BY <1>0, UpdateType DEF TypeOK
  <2>3. announced' \subseteq Subs
    BY <1>0 DEF TypeOK
  <2>4. readOf' \in [Subs -> Reads \cup {NoRead}] /\ nextRead' \in Reads \cup {NoRead}
    BY <1>0, UpdateType DEF TypeOK
  <2>5. slotIn' \in [Subs -> Nat] /\ nextAttempt' \in Nat
    BY <1>0, UpdateType, ResubscribeAssumption DEF TypeOK
  <2>6. reads' \in [Reads -> Read]
    BY <1>0, UpdateType DEF TypeOK
  <2>7. sinceRead' \in 0..Interval
    BY <1>0, ResubscribeAssumption DEF TypeOK
  <2>8. removed' \subseteq Ids /\ granted' \subseteq Ids
    BY <1>0, ResubscribeAssumption DEF TypeOK
  <2>9. updates' \in Seq(Update)
    BY <1>0 DEF TypeOK, Update
  <2>10. grantedSince' \in [Subs -> BOOLEAN]
    BY <1>0, UpdateType DEF TypeOK
  <2> QED
    BY <2>1, <2>2, <2>3, <2>4, <2>5, <2>6, <2>7, <2>8, <2>9, <2>10, <2>11 DEF TypeOK
<1>2. NextRead'
  BY <1>0, ResubscribeAssumption DEF IInv, TypeOK, NextRead, Read
<1>3. Readers'
  BY <1>0, ResubscribeAssumption DEF IInv, TypeOK, NextRead, Readers, Read
<1>4. Resuming' /\ ResumesOnlyWhenGranted'
  BY <1>0 DEF IInv, TypeOK, Readers, Resuming, ResumesOnlyWhenGranted
<1>5. Slots' /\ SlotsAreSpaced'
  BY <1>0, ResubscribeAssumption DEF IInv, TypeOK, Slots, SlotsAreSpaced
<1>6. Tries' /\ FlappingIsBounded'
  BY <1>0, ResubscribeAssumption DEF IInv, TypeOK, Tries, FlappingIsBounded
<1> QED
  BY <1>1, <1>2, <1>3, <1>4, <1>5, <1>6 DEF IInv

\* Time keeps the distances between reads and between slots.
LEMMA TickIInv ==
  ASSUME IInv, Tick
  PROVE  IInv'
<1> USE DEF Tick, Down, GoOn, End, loops, access, world
<1>0. TypeOK
  BY DEF IInv
<1>1. TypeOK'
  <2>1. pc' \in [Subs -> Places] /\ resume' \in [Subs -> {"none", "resuming", "ready"}]
    BY <1>0, UpdateType DEF TypeOK, Places
  <2>11. reason' \in [Subs -> Reasons]
    BY <1>0, UpdateType DEF TypeOK, Reasons
  <2>2. attempts' \in [Subs -> Nat] /\ tries' \in [Subs -> Nat]
    BY <1>0, UpdateType DEF TypeOK
  <2>3. announced' \subseteq Subs
    BY <1>0 DEF TypeOK
  <2>4. readOf' \in [Subs -> Reads \cup {NoRead}] /\ nextRead' \in Reads \cup {NoRead}
    BY <1>0, UpdateType DEF TypeOK
  <2>5. slotIn' \in [Subs -> Nat] /\ nextAttempt' \in Nat
    BY <1>0, UpdateType, ResubscribeAssumption DEF TypeOK
  <2>6. reads' \in [Reads -> Read]
    <3>1. \A r \in Reads : reads[r] \in Read
      BY <1>0 DEF TypeOK
    <3>2. \A r \in Reads : [reads[r] EXCEPT !.wait = Down(@)] \in Read
      <4>1. \A n \in Nat : Down(n) \in Nat
        OBVIOUS
      <4> QED
        BY <3>1, <4>1 DEF Read
    <3> QED
      BY <3>2
  <2>7. sinceRead' \in 0..Interval
    BY <1>0, ResubscribeAssumption DEF TypeOK
  <2>8. removed' \subseteq Ids /\ granted' \subseteq Ids
    BY <1>0, ResubscribeAssumption DEF TypeOK
  <2>9. updates' \in Seq(Update)
    BY <1>0 DEF TypeOK, Update
  <2>10. grantedSince' \in [Subs -> BOOLEAN]
    BY <1>0, UpdateType DEF TypeOK
  <2> QED
    BY <2>1, <2>2, <2>3, <2>4, <2>5, <2>6, <2>7, <2>8, <2>9, <2>10, <2>11 DEF TypeOK
<1>2. NextRead'
  BY <1>0, ResubscribeAssumption DEF IInv, TypeOK, NextRead, Read
<1>3. Readers'
  BY <1>0, ResubscribeAssumption DEF IInv, TypeOK, NextRead, Readers, Read
<1>4. Resuming' /\ ResumesOnlyWhenGranted'
  BY <1>0 DEF IInv, TypeOK, Readers, Resuming, ResumesOnlyWhenGranted
<1>5. Slots' /\ SlotsAreSpaced'
  <2>1. nextAttempt \in Nat /\ Spacing \in Nat /\ \A s \in Subs : slotIn[s] \in Nat
    BY <1>0, ResubscribeAssumption DEF TypeOK
  <2>2. \A s \in Subs : slotIn'[s] = IF slotIn[s] = 0 THEN 0 ELSE slotIn[s] - 1
    OBVIOUS
  <2>3. nextAttempt' = IF nextAttempt = 0 THEN 0 ELSE nextAttempt - 1
    OBVIOUS
  <2>4. Slots'
    BY <2>1, <2>2, <2>3 DEF IInv, Slots
  <2>5. SlotsAreSpaced'
    BY <2>1, <2>2 DEF IInv, SlotsAreSpaced
  <2> QED
    BY <2>4, <2>5
<1>6. Tries' /\ FlappingIsBounded'
  BY <1>0, ResubscribeAssumption DEF IInv, TypeOK, Tries, FlappingIsBounded
<1> QED
  BY <1>1, <1>2, <1>3, <1>4, <1>5, <1>6 DEF IInv

\* Every step keeps the invariant.
LEMMA NextIInv ==
  ASSUME IInv, [Next]_vars
  PROVE  IInv'
<1>1. ASSUME NEW s \in Subs,
             \/ ConnectEnds(s)
             \/ ConnectionLost(s)
             \/ Overflow(s)
             \/ \E stayed \in BOOLEAN : ServerEnds(s, stayed)
             \/ Stop(s)
             \/ Wake(s)
             \/ Decide(s)
             \/ SlotOpens(s)
      PROVE  IInv'
  BY <1>1, ConnectedIInv, ConnectFailsIInv, ConnectionLostIInv, OverflowIInv, ServerEndsIInv,
     StopIInv, WakeIInv, DecideIInv, SlotOpensIInv DEF ConnectEnds
<1>2. ASSUME NEW r \in Reads, StartRead(r) \/ ReadEnds(r) PROVE IInv'
  BY <1>2, StartReadIInv, ReadAnsweredIInv DEF ReadEnds
<1>3. ASSUME NEW i \in Ids, Grant(i) \/ Remove(i) PROVE IInv'
  BY <1>3, GrantIInv, RemoveIInv
<1>4. CASE NoteUpdate \/ UpdateLost \/ Tick
  BY <1>4, NoteUpdateIInv, UpdateLostIInv, TickIInv
<1>5. CASE UNCHANGED vars
  <2> USE <1>5 DEF vars, loops, access, world
  <2>1. TypeOK' /\ NextRead' /\ Readers' /\ Resuming'
    BY DEF IInv, TypeOK, NextRead, Readers, Resuming
  <2>2. Slots' /\ Tries' /\ ResumesOnlyWhenGranted' /\ SlotsAreSpaced' /\ FlappingIsBounded'
    BY DEF IInv, Slots, Tries, ResumesOnlyWhenGranted, SlotsAreSpaced, FlappingIsBounded
  <2> QED
    BY <2>1, <2>2 DEF IInv
<1> QED
  BY <1>1, <1>2, <1>3, <1>4, <1>5 DEF Next

\* The invariant holds for any number of subscriptions, sub-accounts and reads
\* and every timing (resubscribe.rs 162-352).
THEOREM Invariance == Spec => []IInv
BY InitIInv, NextIInv, PTL DEF Spec

\* A subscription resumes on an answer given after it asked, although reads are
\* shared (resubscribe.rs:308).
THEOREM GrantedTheorem == Spec => []ResumesOnlyWhenGranted
<1>1. IInv => ResumesOnlyWhenGranted
  BY DEF IInv
<1> QED
  BY <1>1, Invariance, PTL

\* Two subscriptions that wait for their attempt have slots a full spacing
\* apart, however many end together (resubscribe.rs:300).
THEOREM SpacedTheorem == Spec => []SlotsAreSpaced
<1>1. IInv => SlotsAreSpaced
  BY DEF IInv
<1> QED
  BY <1>1, Invariance, PTL

\* What a subscription tries without staying up is bounded (resubscribe.rs:162).
THEOREM FlappingTheorem == Spec => []FlappingIsBounded
<1>1. IInv => FlappingIsBounded
  BY DEF IInv
<1> QED
  BY <1>1, Invariance, PTL

\* Only StartRead makes a waiting read an asked one, and then the interval since
\* the read before has passed.
LEMMA StepIsPaced ==
  ASSUME IInv, [Next]_vars, NEW r \in Reads,
         reads[r].phase = "waiting", reads'[r].phase = "asked"
  PROVE  sinceRead = Interval
<1>0. TypeOK /\ NextRead /\ Interval \in Nat
  BY ResubscribeAssumption DEF IInv
<1>1. ASSUME NEW q \in Reads, StartRead(q) PROVE sinceRead = Interval
  <2>1. q = r
    BY <1>0, <1>1 DEF StartRead, TypeOK
  <2>2. reads[r].wait = 0 /\ reads[r].wait + sinceRead >= Interval
    BY <1>0, <1>1, <2>1 DEF StartRead, NextRead
  <2>3. sinceRead \in 0..Interval
    BY <1>0 DEF TypeOK
  <2> QED
    BY <1>0, <2>2, <2>3
<1>2. ASSUME NEW q \in Reads, ReadEnds(q) PROVE FALSE
  <2>1. PICK answer \in {"listed", "refused", "failed"} : ReadAnswered(q, answer)
    BY <1>2 DEF ReadEnds
  <2>2. q # r
    BY <2>1 DEF ReadAnswered
  <2> QED
    BY <1>0, <2>1, <2>2 DEF ReadAnswered, TypeOK
<1>3. ASSUME NEW s \in Subs, Wake(s) PROVE FALSE
  <2>1. CASE UNCHANGED reads
    BY <2>1
  <2>2. CASE Join(s)
    <3>1. PICK q \in Reads : /\ reads'[q].phase = "waiting"
                             /\ \A p \in Reads : p # q => reads'[p] = reads[p]
      BY <1>0, <2>2, JoinFacts
    <3> QED
      BY <3>1
  <2> QED
    BY <1>3, <2>1, <2>2 DEF Wake
<1>4. CASE Tick
  BY <1>0, <1>4 DEF Tick, TypeOK, Read
<1>5. ASSUME UNCHANGED reads PROVE FALSE
  BY <1>5
<1>6. ASSUME NEW s \in Subs,
             \/ ConnectEnds(s)
             \/ ConnectionLost(s)
             \/ Overflow(s)
             \/ \E stayed \in BOOLEAN : ServerEnds(s, stayed)
             \/ Stop(s)
             \/ Decide(s)
             \/ SlotOpens(s)
      PROVE  UNCHANGED reads
  BY <1>6 DEF ConnectEnds, Connected, ConnectFails, ConnectionLost, Overflow, ServerEnds, Stop,
              Decide, SlotOpens, access
<1>7. ASSUME NoteUpdate \/ UpdateLost \/ (\E i \in Ids : Grant(i) \/ Remove(i))
      PROVE  UNCHANGED reads
  BY <1>7 DEF NoteUpdate, UpdateLost, Grant, Remove, access
<1>8. CASE UNCHANGED vars
  BY <1>5, <1>8 DEF vars, access
<1> QED
  BY <1>1, <1>2, <1>3, <1>4, <1>5, <1>6, <1>7, <1>8 DEF Next

\* The list is read at most once in an interval, whoever asks for it and whoever
\* has stopped since (resubscribe.rs:308).
THEOREM PacedTheorem == Spec => ReadsArePaced
<1>1. ASSUME IInv, [Next]_vars
      PROVE  [\A r \in Reads : reads[r].phase = "waiting" /\ reads'[r].phase = "asked"
                => sinceRead = Interval]_vars
  BY <1>1, StepIsPaced
<1> QED
  BY <1>1, Invariance, PTL DEF Spec, ReadsArePaced

\* What goes on is where it went, what ends has the reason it recorded, and
\* every other loop stays where it is.
LEMMA GoOnFacts ==
  ASSUME TypeOK, NEW s \in Subs, NEW to, GoOn(s, to)
  PROVE  /\ pc'[s] = to
         /\ \A t \in Subs : t # s => pc'[t] = pc[t]
BY DEF GoOn, TypeOK

LEMMA EndFacts ==
  ASSUME TypeOK, NEW s \in Subs, NEW why, End(s, why)
  PROVE  /\ pc'[s] = "done" /\ reason'[s] = why
         /\ \A t \in Subs : t # s => pc'[t] = pc[t]
BY DEF End, TypeOK

LEMMA RetryMoves ==
  ASSUME TypeOK, NEW s \in Subs, NEW spent, NEW spentTries, Retry(s, spent, spentTries)
  PROVE  /\ \A t \in Subs : t # s => pc'[t] = pc[t]
         /\ SeenRemoved(s) => pc'[s] = "done" /\ reason'[s] = "AccessRemoved"
BY GoOnFacts, EndFacts DEF Retry

\* A subscription that waits ends at the next step of its own, once the client
\* was told that its sub-account is removed.
LEMMA StepAfterRemoval ==
  ASSUME IInv, [Next]_vars, NEW s \in Subs,
         SeenRemoved(s), pc[s] \in {"backoff", "reading", "slot"}, pc'[s] # pc[s]
  PROVE  pc'[s] = "done" /\ reason'[s] \in {"AccessRemoved", "ListRefused", "Stopped"}
<1> DEFINE Ends == pc'[s] = "done" /\ reason'[s] \in {"AccessRemoved", "ListRefused", "Stopped"}
<1>0. TypeOK
  BY DEF IInv
<1>1. ASSUME NEW t \in Subs, SlotOpens(t) PROVE Ends
  <2>1. t = s
    BY <1>0, <1>1, GoOnFacts, EndFacts DEF SlotOpens
  <2> QED
    BY <1>0, <1>1, <2>1, EndFacts DEF SlotOpens
<1>2. ASSUME NEW t \in Subs, Wake(t) PROVE Ends
  <2>1. t = s
    BY <1>0, <1>2, GoOnFacts, EndFacts DEF Wake
  <2> QED
    BY <1>0, <1>2, <2>1, EndFacts DEF Wake
<1>3. ASSUME NEW t \in Subs, Stop(t) PROVE Ends
  <2>1. t = s
    BY <1>0, <1>3, EndFacts DEF Stop
  <2> QED
    BY <1>0, <1>3, <2>1, EndFacts DEF Stop
<1>4. ASSUME NEW t \in Subs, Decide(t) PROVE Ends
  <2>1. t = s
    BY <1>0, <1>4, GoOnFacts, EndFacts, RetryMoves DEF Decide
  <2> QED
    BY <1>0, <1>4, <2>1, EndFacts, RetryMoves DEF Decide
<1>5. ASSUME NEW t \in Subs, ConnectEnds(t) \/ ConnectionLost(t) \/ Overflow(t) PROVE FALSE
  <2>1. t # s
    BY <1>5 DEF ConnectEnds, Connected, ConnectFails, ConnectionLost, Overflow
  <2>2. pc'[s] = pc[s]
    BY <1>0, <1>5, <2>1, GoOnFacts, EndFacts, RetryMoves
       DEF ConnectEnds, Connected, ConnectFails, ConnectionLost, Overflow
  <2> QED
    BY <2>2
<1>6. ASSUME NEW t \in Subs, NEW stayed \in BOOLEAN, ServerEnds(t, stayed) PROVE FALSE
  <2>1. t # s
    BY <1>6 DEF ServerEnds
  <2>2. pc'[s] = pc[s]
    BY <1>0, <1>6, <2>1, RetryMoves DEF ServerEnds
  <2> QED
    BY <2>2
<1>7. ASSUME \/ \E r \in Reads : StartRead(r) \/ ReadEnds(r)
             \/ \E i \in Ids : Grant(i) \/ Remove(i)
             \/ NoteUpdate \/ UpdateLost \/ Tick
             \/ UNCHANGED vars
      PROVE  FALSE
  BY <1>7 DEF StartRead, ReadEnds, ReadAnswered, Grant, Remove, NoteUpdate, UpdateLost, Tick,
              vars, loops
<1> QED
  BY <1>1, <1>2, <1>3, <1>4, <1>5, <1>6, <1>7 DEF Next

\* A removal that the client was told of wins over a backoff, an answer of the
\* list and a slot that was given before it (resubscribe.rs:269).
THEOREM RemovalTheorem == Spec => RemovalIsNewer
<1>1. ASSUME IInv, [Next]_vars
      PROVE  [\A s \in Subs :
                (SeenRemoved(s) /\ pc[s] \in {"backoff", "reading", "slot"} /\ pc'[s] # pc[s])
                  => pc'[s] = "done"
                       /\ reason'[s] \in {"AccessRemoved", "ListRefused", "Stopped"}]_vars
  BY <1>1, StepAfterRemoval
<1> QED
  BY <1>1, Invariance, PTL DEF Spec, RemovalIsNewer
=============================================================================
