---------------------------- MODULE Resubscribe ----------------------------
(***************************************************************************)
(* Subscriptions to the private channels of sub-accounts that the server   *)
(* may end, and how they resume (src/realtime/resubscribe.rs and the       *)
(* reconnect loop of src/realtime/mod.rs).  They share one client: what it *)
(* was told about removed access, the reads of the sub-account list, and   *)
(* the pacing of reads and of attempts.                                    *)
(*                                                                         *)
(* A backoff sleeps for any time.  The intervals between reads and between *)
(* attempts are counted in ticks, and every timer holds what remains of    *)
(* it: a timer that has run out may be noticed late.  A stop request is    *)
(* taken at the next wait.  A subscription to any other channel ends at    *)
(* the server's first unsubscribe and is left out.                         *)
(***************************************************************************)
EXTENDS Naturals, Sequences, FiniteSets

CONSTANTS
  Subs,         \* subscriptions of the client
  Ids,          \* sub-accounts
  IdOf,         \* the sub-account of a subscription's channel
  Reads,        \* requests for the list that may exist at a time
  NoRead,
  MaxAttempts,  \* ResubscribeTiming.max_attempts
  Interval,     \* read_interval
  Spacing,      \* attempt_spacing
  MaxUpdates    \* bound: sub-account updates on their way

ASSUME ResubscribeAssumption ==
  /\ IdOf \in [Subs -> Ids] /\ NoRead \notin Reads
  /\ MaxAttempts \in Nat \ {0} /\ Interval \in Nat /\ Spacing \in Nat
  /\ MaxUpdates \in Nat

VARIABLES
  pc,           \* where the loop of a subscription is
  reason,       \* why it ended
  resume,       \* its ResubscribeAttempt: none, trying to resume, or ready
  attempts,     \* the attempts that one has spent
  announced,    \* subscriptions whose first connection was reported
  readOf,       \* the read a subscription waits for
  slotIn,       \* ticks until its attempt slot
  reads,
  nextRead,     \* AccessState.next_read: the read that has not begun
  sinceRead,    \* ticks since last_read, at most Interval
  nextAttempt,  \* ticks until next_attempt_at
  removed,      \* sub-accounts the last update said were removed
  granted,      \* the server: sub-accounts listed with a role
  updates,      \* the server's updates on their way to the client
  grantedSince, \* history: granted at some time since the subscription asked
  tries         \* history: attempts since it last stayed up

loops == <<pc, reason, resume, attempts, announced, readOf, slotIn, grantedSince, tries>>
access == <<reads, nextRead, sinceRead, nextAttempt>>
world == <<removed, granted, updates>>
vars == <<loops, access, world>>

Places == {"connect", "up", "backoff", "reading", "slot", "done"}
Reasons == {"none", "Stopped", "NotConnected", "QueueOverflow", "AccessRemoved", "NotListed",
            "ListRefused", "TokenRefused", "RetriesExhausted"}
Read == [phase : {"idle", "waiting", "asked", "answered"}, wait : Nat,
         answer : {"none", "listed", "refused", "failed"}, ids : SUBSET Ids]
Update == [id : Ids, removed : BOOLEAN]

\* MUTANT: a read does not wait for the interval.
MutantNewRead(wait) == [phase |-> "waiting", wait |-> 0, answer |-> "none", ids |-> {}]

NewRead(wait) == [phase |-> "waiting", wait |-> wait, answer |-> "none", ids |-> {}]

Init ==
  /\ pc = [s \in Subs |-> "connect"]
  /\ reason = [s \in Subs |-> "none"]
  /\ resume = [s \in Subs |-> "none"]
  /\ attempts = [s \in Subs |-> 0] /\ tries = [s \in Subs |-> 0]
  /\ announced = {}
  /\ readOf = [s \in Subs |-> NoRead]
  /\ slotIn = [s \in Subs |-> 0]
  /\ reads = [r \in Reads |-> [NewRead(0) EXCEPT !.phase = "idle"]]
  /\ nextRead = NoRead /\ sinceRead = Interval /\ nextAttempt = 0
  /\ removed = {} /\ granted = Ids /\ updates = <<>>
  /\ grantedSince = [s \in Subs |-> FALSE]

SeenRemoved(s) == IdOf[s] \in removed

GoOn(s, to) == pc' = [pc EXCEPT ![s] = to] /\ UNCHANGED reason

\* The loop ends, for the reason it records; a stop records none.
End(s, why) ==
  /\ pc' = [pc EXCEPT ![s] = "done"]
  /\ reason' = [reason EXCEPT ![s] = why]

-----------------------------------------------------------------------------
(* The reconnect loop *)

\* The head of await_resume's loop, with the attempts spent so far.
Retry(s, spent, spentTries) ==
  \/ /\ SeenRemoved(s)
     /\ End(s, "AccessRemoved")
     /\ UNCHANGED <<attempts, tries>>
  \/ /\ ~SeenRemoved(s) /\ spent >= MaxAttempts
     /\ End(s, "RetriesExhausted")
     /\ UNCHANGED <<attempts, tries>>
  \/ /\ ~SeenRemoved(s) /\ spent < MaxAttempts
     /\ GoOn(s, "backoff")
     /\ attempts' = [attempts EXCEPT ![s] = spent + 1]
     /\ tries' = [tries EXCEPT ![s] = spentTries + 1]

\* MUTANT: whatever was ready earned a fresh budget.
MutantBudget(s, stayed) == IF resume[s] = "resuming" THEN attempts[s] ELSE 0

\* attempt_after: a subscription that stayed up earned a fresh budget.
Budget(s, stayed) ==
  IF resume[s] = "none" \/ (resume[s] = "ready" /\ stayed) THEN 0 ELSE attempts[s]

Connected(s) ==
  /\ pc[s] = "connect"
  /\ GoOn(s, "up")
  /\ announced' = announced \cup {s}
  /\ resume' = [resume EXCEPT ![s] = IF @ = "none" THEN @ ELSE "ready"]
  /\ UNCHANGED <<attempts, readOf, slotIn, grantedSince, tries, access, world>>

\* A connection that was established before is tried again after a backoff,
\* which changes nothing here.
ConnectFails(s, refused) ==
  /\ pc[s] = "connect"
  /\ \/ /\ resume[s] = "resuming" /\ refused
        /\ End(s, "TokenRefused")
        /\ UNCHANGED <<attempts, tries>>
     \/ /\ resume[s] = "resuming" /\ ~refused
        /\ Retry(s, attempts[s], tries[s])
     \/ /\ resume[s] # "resuming" /\ s \notin announced
        /\ End(s, "NotConnected")
        /\ UNCHANGED <<attempts, tries>>
  /\ UNCHANGED <<resume, announced, readOf, slotIn, grantedSince, access, world>>

\* The socket fails, or the server asks for an ordinary reconnect.
ConnectionLost(s) ==
  /\ pc[s] = "up"
  /\ GoOn(s, "connect")
  /\ UNCHANGED <<resume, attempts, announced, readOf, slotIn, grantedSince, tries, access, world>>

\* The consumer's queue is full, or the buffer of the setup.
Overflow(s) ==
  /\ pc[s] \in {"connect", "up"}
  /\ End(s, "QueueOverflow")
  /\ UNCHANGED <<resume, attempts, announced, readOf, slotIn, grantedSince, tries, access, world>>

ServerEnds(s, stayed) ==
  /\ pc[s] = "up"
  /\ resume' = [resume EXCEPT ![s] = "resuming"]
  /\ Retry(s, Budget(s, stayed),
           IF resume[s] = "none" \/ (resume[s] = "ready" /\ stayed) THEN 0 ELSE tries[s])
  /\ UNCHANGED <<announced, readOf, slotIn, grantedSince, access, world>>

Stop(s) ==
  /\ pc[s] # "done"
  /\ End(s, "Stopped")
  /\ readOf' = [readOf EXCEPT ![s] = NoRead]
  /\ UNCHANGED <<resume, attempts, announced, slotIn, grantedSince, tries, access, world>>

-----------------------------------------------------------------------------
(* await_resume and the shared reads *)

FreeReads == {r \in Reads : /\ reads[r].phase \in {"idle", "answered"}
                            /\ \A s \in Subs : readOf[s] # r}

\* read(): join the read that has not begun, or schedule one.
Join(s) ==
  \/ /\ nextRead # NoRead
     /\ readOf' = [readOf EXCEPT ![s] = nextRead]
     /\ UNCHANGED <<reads, nextRead>>
  \/ /\ nextRead = NoRead
     /\ \E r \in FreeReads :
          /\ reads' = [reads EXCEPT ![r] = NewRead(Interval - sinceRead)]
          /\ nextRead' = r
          /\ readOf' = [readOf EXCEPT ![s] = r]

\* The backoff is over.
Wake(s) ==
  /\ pc[s] = "backoff"
  /\ \/ /\ SeenRemoved(s)
        /\ End(s, "AccessRemoved")
        /\ UNCHANGED <<readOf, reads, nextRead, grantedSince>>
     \/ /\ ~SeenRemoved(s)
        /\ GoOn(s, "reading")
        /\ Join(s)
        /\ grantedSince' = [grantedSince EXCEPT ![s] = IdOf[s] \in granted]
  /\ UNCHANGED <<resume, attempts, announced, slotIn, tries, sinceRead, nextAttempt, world>>

\* MUTANT: the read that began is still the next one.
MutantStartRead(r) ==
  /\ reads[r].phase = "waiting" /\ reads[r].wait = 0
  /\ reads' = [reads EXCEPT ![r].phase = "asked"]
  /\ sinceRead' = 0
  /\ UNCHANGED <<loops, nextRead, nextAttempt, world>>

\* Callers from here on need a read that starts after them.
StartRead(r) ==
  /\ reads[r].phase = "waiting" /\ reads[r].wait = 0
  /\ reads' = [reads EXCEPT ![r].phase = "asked"]
  /\ nextRead' = NoRead
  /\ sinceRead' = 0
  /\ UNCHANGED <<loops, nextAttempt, world>>

\* MUTANT: only a list is sent to those who wait.
MutantReadAnswered(r, answer) ==
  /\ reads[r].phase = "asked"
  /\ reads' = [reads EXCEPT ![r].phase = IF answer = "listed" THEN "answered" ELSE "idle",
                            ![r].answer = answer,
                            ![r].ids = IF answer = "listed" THEN granted ELSE {}]
  /\ UNCHANGED <<loops, nextRead, sinceRead, nextAttempt, world>>

ReadAnswered(r, answer) ==
  /\ reads[r].phase = "asked"
  /\ reads' = [reads EXCEPT ![r].phase = "answered", ![r].answer = answer,
                            ![r].ids = IF answer = "listed" THEN granted ELSE {}]
  /\ UNCHANGED <<loops, nextRead, sinceRead, nextAttempt, world>>

\* MUTANT: the next slot is counted from now, not from the slot that was taken.
MutantReserveAttempt(s) ==
  /\ slotIn' = [slotIn EXCEPT ![s] = nextAttempt]
  /\ nextAttempt' = Spacing

\* reserve_attempt
ReserveAttempt(s) ==
  /\ slotIn' = [slotIn EXCEPT ![s] = nextAttempt]
  /\ nextAttempt' = nextAttempt + Spacing

\* MUTANT: the answer of the list decides, whatever was said since.
MutantDecide(s) ==
  LET read == reads[readOf[s]] IN
  /\ pc[s] = "reading" /\ read.phase = "answered"
  /\ readOf' = [readOf EXCEPT ![s] = NoRead]
  /\ \/ /\ read.answer = "refused"
        /\ End(s, "ListRefused")
        /\ UNCHANGED <<attempts, tries, slotIn, nextAttempt>>
     \/ /\ read.answer = "failed"
        /\ Retry(s, attempts[s], tries[s])
        /\ UNCHANGED <<slotIn, nextAttempt>>
     \/ /\ read.answer = "listed" /\ IdOf[s] \notin read.ids
        /\ End(s, "NotListed")
        /\ UNCHANGED <<attempts, tries, slotIn, nextAttempt>>
     \/ /\ read.answer = "listed" /\ IdOf[s] \in read.ids
        /\ GoOn(s, "slot")
        /\ ReserveAttempt(s)
        /\ UNCHANGED <<attempts, tries>>
  /\ UNCHANGED <<resume, announced, grantedSince, reads, nextRead, sinceRead, world>>

Decide(s) ==
  LET read == reads[readOf[s]] IN
  /\ pc[s] = "reading" /\ read.phase = "answered"
  /\ readOf' = [readOf EXCEPT ![s] = NoRead]
  /\ \/ /\ read.answer = "refused"
        /\ End(s, "ListRefused")
        /\ UNCHANGED <<attempts, tries, slotIn, nextAttempt>>
     \/ /\ read.answer = "failed"
        /\ Retry(s, attempts[s], tries[s])
        /\ UNCHANGED <<slotIn, nextAttempt>>
     \/ /\ read.answer = "listed" /\ SeenRemoved(s)
        /\ End(s, "AccessRemoved")
        /\ UNCHANGED <<attempts, tries, slotIn, nextAttempt>>
     \/ /\ read.answer = "listed" /\ ~SeenRemoved(s) /\ IdOf[s] \notin read.ids
        /\ End(s, "NotListed")
        /\ UNCHANGED <<attempts, tries, slotIn, nextAttempt>>
     \/ /\ read.answer = "listed" /\ ~SeenRemoved(s) /\ IdOf[s] \in read.ids
        /\ GoOn(s, "slot")
        /\ ReserveAttempt(s)
        /\ UNCHANGED <<attempts, tries>>
  /\ UNCHANGED <<resume, announced, grantedSince, reads, nextRead, sinceRead, world>>

SlotOpens(s) ==
  /\ pc[s] = "slot" /\ slotIn[s] = 0
  /\ \/ SeenRemoved(s) /\ End(s, "AccessRemoved")
     \/ ~SeenRemoved(s) /\ GoOn(s, "connect")
  /\ UNCHANGED <<resume, attempts, announced, readOf, slotIn, grantedSince, tries, access, world>>

-----------------------------------------------------------------------------
(* The server, its updates and time *)

Announce(i, gone) ==
  /\ Len(updates) < MaxUpdates
  /\ updates' = Append(updates, [id |-> i, removed |-> gone])

Grant(i) ==
  /\ i \notin granted
  /\ granted' = granted \cup {i}
  /\ Announce(i, FALSE)
  /\ grantedSince' = [s \in Subs |-> grantedSince[s] \/ IdOf[s] = i]
  /\ UNCHANGED <<pc, reason, resume, attempts, announced, readOf, slotIn, tries, access, removed>>

Remove(i) ==
  /\ i \in granted
  /\ granted' = granted \ {i}
  /\ Announce(i, TRUE)
  /\ UNCHANGED <<loops, access, removed>>

\* note_update, in arrival order.
NoteUpdate ==
  /\ updates # <<>>
  /\ updates' = Tail(updates)
  /\ removed' = IF Head(updates).removed THEN removed \cup {Head(updates).id}
                ELSE removed \ {Head(updates).id}
  /\ UNCHANGED <<loops, access, granted>>

\* The channel of the updates has no recovery: a reconnect loses some.
UpdateLost ==
  /\ updates # <<>>
  /\ updates' = Tail(updates)
  /\ UNCHANGED <<loops, access, removed, granted>>

Down(n) == IF n = 0 THEN 0 ELSE n - 1

Tick ==
  /\ slotIn' = [s \in Subs |-> Down(slotIn[s])]
  /\ reads' = [r \in Reads |-> [reads[r] EXCEPT !.wait = Down(@)]]
  /\ sinceRead' = IF sinceRead = Interval THEN sinceRead ELSE sinceRead + 1
  /\ nextAttempt' = Down(nextAttempt)
  /\ UNCHANGED <<pc, reason, resume, attempts, announced, readOf, grantedSince, tries, nextRead, world>>

-----------------------------------------------------------------------------

ConnectEnds(s) == Connected(s) \/ \E refused \in BOOLEAN : ConnectFails(s, refused)
ReadEnds(r) == \E answer \in {"listed", "refused", "failed"} : ReadAnswered(r, answer)

Next ==
  \/ \E s \in Subs : \/ ConnectEnds(s)
                     \/ ConnectionLost(s)
                     \/ Overflow(s)
                     \/ \E stayed \in BOOLEAN : ServerEnds(s, stayed)
                     \/ Stop(s)
                     \/ Wake(s)
                     \/ Decide(s)
                     \/ SlotOpens(s)
  \/ \E r \in Reads : StartRead(r) \/ ReadEnds(r)
  \/ \E i \in Ids : Grant(i) \/ Remove(i)
  \/ NoteUpdate
  \/ UpdateLost
  \/ Tick

Spec == Init /\ [][Next]_vars

\* Sleeps end, tasks run, and every request has a deadline.  The server owes
\* nothing: it may end subscriptions and change access for ever, or never.
Fairness ==
  /\ \A s \in Subs : /\ WF_vars(Wake(s)) /\ WF_vars(Decide(s))
                     /\ WF_vars(SlotOpens(s)) /\ WF_vars(ConnectEnds(s))
  /\ \A r \in Reads : WF_vars(StartRead(r)) /\ WF_vars(ReadEnds(r))
  /\ WF_vars(Tick)

FairSpec == Spec /\ Fairness

-----------------------------------------------------------------------------
(* Properties *)

TypeOK ==
  /\ pc \in [Subs -> Places] /\ reason \in [Subs -> Reasons]
  /\ resume \in [Subs -> {"none", "resuming", "ready"}]
  /\ attempts \in [Subs -> Nat] /\ tries \in [Subs -> Nat]
  /\ announced \subseteq Subs
  /\ readOf \in [Subs -> Reads \cup {NoRead}]
  /\ slotIn \in [Subs -> Nat]
  /\ reads \in [Reads -> Read]
  /\ nextRead \in Reads \cup {NoRead}
  /\ sinceRead \in 0..Interval /\ nextAttempt \in Nat
  /\ removed \subseteq Ids /\ granted \subseteq Ids
  /\ updates \in Seq(Update)
  /\ grantedSince \in [Subs -> BOOLEAN]

\* A subscription that resumes does so on an answer given after it asked
\* (resubscribe.rs:308 "from a request started after this call"): the server
\* listed its sub-account at some time since then, although reads are shared
\* and a read that another subscription started may answer first.
ResumesOnlyWhenGranted ==
  \A s \in Subs :
    resume[s] = "resuming" /\ pc[s] \in {"slot", "connect"} => grantedSince[s]

\* However many subscriptions end together, two of them that wait for their
\* attempt are given slots a full spacing apart (resubscribe.rs:300).
SlotsAreSpaced ==
  \A s, t \in Subs :
    s # t /\ pc[s] = "slot" /\ pc[t] = "slot" /\ slotIn[s] > 0 /\ slotIn[t] > 0
      => slotIn[s] + Spacing <= slotIn[t] \/ slotIn[t] + Spacing <= slotIn[s]

\* A subscription the server keeps ending is not resumed for ever: what it
\* tries without staying up is bounded, whether a try ended at the list, at
\* the token or right after it was up (resubscribe.rs:162).
FlappingIsBounded == \A s \in Subs : tries[s] <= MaxAttempts

\* What the properties above need to be inductive.

\* One read has not begun, the one that callers join, and it keeps its distance
\* from the read before.
NextRead ==
  \A r \in Reads : /\ reads[r].phase = "waiting" <=> nextRead = r
                   /\ nextRead = r => reads[r].wait + sinceRead >= Interval

\* A subscription waits for a read that is under way, and what that lists was
\* granted while the subscription waited.
Readers ==
  \A s \in Subs :
    /\ pc[s] = "reading" <=> readOf[s] # NoRead
    /\ pc[s] = "reading" =>
         /\ reads[readOf[s]].phase # "idle"
         /\ IdOf[s] \in granted => grantedSince[s]
         /\ reads[readOf[s]].phase = "answered" /\ IdOf[s] \in reads[readOf[s]].ids
              => grantedSince[s]

Resuming ==
  \A s \in Subs : /\ pc[s] = "up" => resume[s] # "resuming"
                  /\ pc[s] = "slot" => grantedSince[s]

\* The next slot is a full spacing after every slot that was given.
Slots ==
  \A s \in Subs : pc[s] = "slot" /\ slotIn[s] > 0 => slotIn[s] + Spacing <= nextAttempt

Tries == \A s \in Subs : tries[s] = attempts[s]

\* The inductive invariant of PacingProofs.
IInv ==
  /\ TypeOK /\ NextRead /\ Readers /\ Resuming /\ Slots /\ Tries
  /\ ResumesOnlyWhenGranted /\ SlotsAreSpaced /\ FlappingIsBounded

\* The list is read at most once in an interval, whoever asks for it, and
\* also when those who asked have stopped (resubscribe.rs:308).
ReadsArePaced ==
  [][\A r \in Reads : reads[r].phase = "waiting" /\ reads'[r].phase = "asked"
       => sinceRead = Interval]_vars

\* A removal that the client learns of while a subscription waits for its
\* backoff, for an answer or for its slot overrules what it waits for
\* (resubscribe.rs:269): the wait ends the subscription, with the removal as its
\* reason.  No slot is taken and nothing is tried again, whatever the list says,
\* and neither the list nor a spent budget is named instead.  Only a refused
\* list and a stop, which decide before the removal is looked at, come first.
RemovalIsNewer ==
  [][\A s \in Subs :
       (SeenRemoved(s) /\ pc[s] \in {"backoff", "reading", "slot"} /\ pc'[s] # pc[s])
         => pc'[s] = "done" /\ reason'[s] \in {"AccessRemoved", "ListRefused", "Stopped"}]_vars

\* A subscription the server ended is up again or ends with its reason, what
\* ever the server, the list and the network do (mod.rs:439).
ResumesOrEnds ==
  \A s \in Subs : resume[s] = "resuming" ~> resume[s] = "ready" \/ pc[s] = "done"
=============================================================================
