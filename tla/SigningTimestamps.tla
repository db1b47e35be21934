------------------------- MODULE SigningTimestamps -------------------------
(***************************************************************************)
(* The timestamp that makes every signed request of an API key unique:     *)
(* SigningTimestampAllocator::next and next_async, and allocator_for_key,  *)
(* through which all credentials of one key share an allocator             *)
(* (src/auth.rs).  Any number of tasks sign at once; the wall clock may    *)
(* stand still or be set back while they do.                               *)
(***************************************************************************)
EXTENDS Integers, Sequences

CONSTANTS
  Tasks,         \* tasks that sign requests, each with credentials of its own
  Keys,          \* API key ids
  NoTask,
  Skew,          \* MAX_SIGNING_FUTURE_SKEW_MS
  Backpressure,  \* MAX_SIGNING_BACKPRESSURE
  TopTime,       \* u64::MAX
  MaxTime,       \* bound: how far time goes
  MaxCalls       \* bound: signatures asked for

ASSUME SigningAssumption ==
  /\ NoTask \notin Tasks
  /\ Skew \in Nat /\ Backpressure \in Nat /\ TopTime \in Nat
  /\ MaxTime \in Nat /\ MaxCalls \in Nat

VARIABLES
  registry,  \* ALLOCATORS: the allocator of each key, named by its creator
  last,      \* last_timestamp_ms of each allocator
  gate,      \* the task that holds the async_gate of each allocator
  at,        \* where each task is
  key,       \* the key of its credentials
  own,       \* the allocator they share
  async,     \* it runs next_async, not next
  started,   \* the Instant at which next_async began
  now,       \* the wall clock it read, and its limit
  observed,  \* the last timestamp it loaded
  wake,      \* the Instant at which its sleep ends
  issued,    \* history: the timestamps handed out for each key, in order
  clock,     \* the wall clock, in milliseconds
  instant,   \* the monotonic clock
  setBack,   \* the wall clock was set back
  calls

taskVars   == <<at, async, started, now, observed, wake>>
credVars   == <<registry, key, own>>
chainVars  == <<last, issued>>
sharedVars == <<credVars, chainVars, gate>>
timeVars   == <<clock, instant, setBack>>
signingVars == <<taskVars, sharedVars, timeVars, calls>>

Labels == {"new", "idle", "gate", "clock", "load", "cas", "sleep"}

SigningInit ==
  /\ registry = [k \in Keys |-> NoTask]
  /\ last = [t \in Tasks |-> 0] /\ gate = [t \in Tasks |-> NoTask]
  /\ at = [t \in Tasks |-> "new"] /\ key \in [Tasks -> Keys]
  /\ own = [t \in Tasks |-> NoTask]
  /\ async = [t \in Tasks |-> FALSE] /\ started = [t \in Tasks |-> 0]
  /\ now = [t \in Tasks |-> 0] /\ observed = [t \in Tasks |-> 0]
  /\ wake = [t \in Tasks |-> 0]
  /\ issued = [k \in Keys |-> <<>>]
  /\ clock \in 0..MaxTime /\ instant = 0 /\ setBack = FALSE
  /\ calls = 0

Goto(t, label) == at' = [at EXCEPT ![t] = label]
Elapsed(t) == instant - started[t]

\* Leaving next_async drops the gate guard.
Leave(t) ==
  /\ Goto(t, "idle")
  /\ gate' = [a \in Tasks |-> IF gate[a] = t THEN NoTask ELSE gate[a]]

-----------------------------------------------------------------------------

\* Credentials::new: allocator_for_key looks the key up under a lock and
\* inserts a new allocator if there is none.
Found(t) == IF registry[key[t]] = NoTask THEN t ELSE registry[key[t]]

Construct(t) ==
  /\ at[t] = "new"
  /\ registry' = [registry EXCEPT ![key[t]] = Found(t)]
  /\ own' = [own EXCEPT ![t] = Found(t)]
  /\ Goto(t, "idle")
  /\ UNCHANGED <<last, gate, key, issued, async, started, now, observed, wake,
                 timeVars, calls>>

\* sign_request and sign_request_async without a timestamp of the caller's.
\* MaxTime leaves every call the time it may wait.
Sign(t) ==
  /\ at[t] = "idle" /\ calls < MaxCalls /\ instant + Backpressure <= MaxTime
  /\ calls' = calls + 1
  /\ \/ async' = [async EXCEPT ![t] = FALSE] /\ Goto(t, "clock")
     \/ async' = [async EXCEPT ![t] = TRUE] /\ Goto(t, "gate")
  /\ started' = [started EXCEPT ![t] = instant]
  /\ UNCHANGED <<sharedVars, now, observed, wake, timeVars>>

AcquireGate(t) ==
  /\ at[t] = "gate" /\ gate[own[t]] = NoTask
  /\ gate' = [gate EXCEPT ![own[t]] = t]
  /\ Goto(t, "clock")
  /\ UNCHANGED <<credVars, chainVars, async, started, now, observed, wake,
                 timeVars, calls>>

\* Waiting for the gate, or sleeping, is given up: the wait times out, or the
\* caller drops the future.
GateTimesOut(t) ==
  /\ at[t] = "gate" /\ Elapsed(t) >= Backpressure
  /\ Leave(t)
  /\ UNCHANGED <<credVars, chainVars, async, started, now, observed, wake,
                 timeVars, calls>>

Cancel(t) ==
  /\ at[t] \in {"gate", "sleep"}
  /\ Leave(t)
  /\ UNCHANGED <<credVars, chainVars, async, started, now, observed, wake,
                 timeVars, calls>>

\* The ceiling does not fit in a u64: the call fails.
ReadClock(t) ==
  /\ at[t] = "clock"
  /\ now' = [now EXCEPT ![t] = clock]
  /\ \/ clock + Skew <= TopTime /\ Goto(t, "load") /\ UNCHANGED gate
     \/ clock + Skew > TopTime /\ Leave(t)
  /\ UNCHANGED <<credVars, chainVars, async, started, observed, wake, timeVars,
                 calls>>

NextAfter(seen, n) == IF seen < n THEN n ELSE seen + 1

Candidate(t) == NextAfter(observed[t], now[t])

\* The candidate is not too far ahead of the clock.
MutantInWindow(ts, n) == TRUE
InWindow(ts, n) == ts <= n + Skew

\* next_async may sleep and try again; next may not.
MutantMayWait(t) == async[t]
MayWait(t) == async[t] /\ Elapsed(t) < Backpressure

\* load, then: no u64 is left, the candidate is tried, or there is no room
\* before the clock advances.
Load(t) ==
  LET seen == last[own[t]]
      ts   == NextAfter(seen, now[t])
      wait == IF ts - (now[t] + Skew) < Backpressure - Elapsed(t)
              THEN ts - (now[t] + Skew) ELSE Backpressure - Elapsed(t)
  IN  /\ at[t] = "load"
      /\ observed' = [observed EXCEPT ![t] = seen]
      /\ \/ ts > TopTime /\ Leave(t) /\ UNCHANGED wake
         \/ /\ ts <= TopTime /\ InWindow(ts, now[t])
            /\ Goto(t, "cas") /\ UNCHANGED <<gate, wake>>
         \/ /\ ts <= TopTime /\ ~InWindow(ts, now[t]) /\ MayWait(t)
            /\ wake' = [wake EXCEPT ![t] = instant + wait]
            /\ Goto(t, "sleep") /\ UNCHANGED gate
         \/ /\ ts <= TopTime /\ ~InWindow(ts, now[t]) /\ ~MayWait(t)
            /\ Leave(t) /\ UNCHANGED wake
      /\ UNCHANGED <<credVars, chainVars, async, started, now, timeVars, calls>>

\* compare_exchange_weak fails when another task got in between, and may fail
\* for no reason.
CasFails(t) ==
  /\ at[t] = "cas"
  /\ Goto(t, "clock")
  /\ UNCHANGED <<sharedVars, async, started, now, observed, wake, timeVars,
                 calls>>

MutantExchanges(t) == TRUE
Exchanges(t) == last[own[t]] = observed[t]

Cas(t) ==
  /\ at[t] = "cas" /\ Exchanges(t)
  /\ last' = [last EXCEPT ![own[t]] = Candidate(t)]
  /\ issued' = [issued EXCEPT ![key[t]] = Append(@, Candidate(t))]
  /\ Leave(t)
  /\ UNCHANGED <<credVars, async, started, now, observed, wake, timeVars, calls>>

SleepEnds(t) ==
  /\ at[t] = "sleep" /\ instant >= wake[t]
  /\ Goto(t, "clock")
  /\ UNCHANGED <<sharedVars, async, started, now, observed, wake, timeVars,
                 calls>>

-----------------------------------------------------------------------------
(* Time *)

ClockTicks ==
  /\ instant < MaxTime
  /\ instant' = instant + 1 /\ clock' = clock + 1
  /\ UNCHANGED <<taskVars, sharedVars, setBack, calls>>

SetClockBack ==
  /\ ~setBack /\ setBack' = TRUE
  /\ \E c \in 0..clock : clock' = c
  /\ UNCHANGED <<taskVars, sharedVars, instant, calls>>

TaskStep(t) ==
  \/ Construct(t) \/ Sign(t) \/ AcquireGate(t) \/ GateTimesOut(t) \/ Cancel(t)
  \/ ReadClock(t) \/ Load(t) \/ Cas(t) \/ CasFails(t) \/ SleepEnds(t)

SigningNext == ClockTicks \/ SetClockBack \/ \E t \in Tasks : TaskStep(t)

SigningSpec == SigningInit /\ [][SigningNext]_signingVars

\* Time passes, a runnable task runs, a free gate goes to who waits for it,
\* and compare_exchange_weak does not fail forever on its own.
SigningFairSpec ==
  /\ SigningSpec /\ WF_signingVars(ClockTicks)
  /\ \A t \in Tasks :
       /\ WF_signingVars(ReadClock(t)) /\ WF_signingVars(Load(t)) /\ WF_signingVars(SleepEnds(t))
       /\ WF_signingVars(GateTimesOut(t)) /\ WF_signingVars(Cas(t) \/ CasFails(t))
       /\ SF_signingVars(Cas(t))

-----------------------------------------------------------------------------
(* Properties *)

SigningTypes ==
  /\ registry \in [Keys -> Tasks \cup {NoTask}]
  /\ last \in [Tasks -> Nat]
  /\ gate \in [Tasks -> Tasks \cup {NoTask}]
  /\ own \in [Tasks -> Tasks \cup {NoTask}]
  /\ at \in [Tasks -> Labels] /\ key \in [Tasks -> Keys]
  /\ async \in [Tasks -> BOOLEAN] /\ started \in [Tasks -> Nat]
  /\ now \in [Tasks -> Nat] /\ observed \in [Tasks -> Nat]
  /\ wake \in [Tasks -> Int]
  /\ issued \in [Keys -> Seq(Nat)]
  /\ clock \in Nat /\ instant \in Nat /\ setBack \in BOOLEAN
  /\ calls \in Nat

\* The timestamps of one key only grow, over all credentials of the key, all
\* tasks and both interfaces, whatever the wall clock does: no two requests of
\* a key share an authentication tuple, and a later one is never behind.
Increasing ==
  \A k \in Keys : \A i, j \in DOMAIN issued[k] :
    i < j => issued[k][i] < issued[k][j]

\* A timestamp leads the local clock by at most MAX_SIGNING_FUTURE_SKEW_MS,
\* as long as nobody sets the clock back.
LeadIsBounded ==
  setBack \/ \A k \in Keys : \A i \in DOMAIN issued[k] :
               issued[k][i] <= clock + Skew

\* Every call returns: neither the gate, nor a full window, nor a clock that
\* was set back keeps a request waiting past the backpressure limit.
CallsReturn ==
  \A t \in Tasks : at[t] \in Labels \ {"new", "idle"} ~> at[t] = "idle"
=============================================================================
