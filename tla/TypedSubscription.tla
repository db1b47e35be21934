------------------------- MODULE TypedSubscription -------------------------
(***************************************************************************)
(* One typed subscription (src/realtime/mod.rs): the loop that connects,   *)
(* decodes publications into a bounded queue, reports errors, announces    *)
(* the gaps of a reconnect and renews its tokens, and the handle that      *)
(* reads the queue.                                                        *)
(*                                                                         *)
(* Publications are numbered by the server.  Setup is one step: its replies *)
(* hold back what arrives in between.  The socket and the deque of decoded *)
(* replies are one queue.  What a resumed subscription waits for is        *)
(* Resubscribe's; here the wait ends by trying again or with a reason.     *)
(***************************************************************************)
EXTENDS TokenRenewal

CONSTANTS
  QueueSize,        \* max_queue
  MaxPublications,  \* bound: publications of the server
  MaxIncoming       \* bound: frames on the socket

ASSUME TypedSubscriptionAssumption ==
  /\ QueueSize \in Nat \ {0} /\ MaxPublications \in Nat /\ MaxIncoming \in Nat

VARIABLES
  auto,       \* auto_reconnect
  loop,       \* where the task is
  ready,      \* subscribe returned the handle
  resuming,   \* the server ended the subscription and it has not resumed
  error,      \* an error is recorded
  queue,      \* decoded items
  incoming,   \* what the server sent on the connection
  published,  \* publications so far
  closed,     \* the application closed the handle
  result,     \* what recv_result said at the end
  sent,       \* history: the last publication enqueued
  marked      \* history: a gap or a bad member was told since then

vars == <<renewer, auto, loop, ready, resuming, error, queue, incoming, published,
          closed, result, sent, marked>>

feed == <<queue, sent, marked>>
handle == <<auto, closed, result>>

Init ==
  /\ RenewerInit
  /\ auto \in BOOLEAN
  /\ loop = "setup" /\ ready = FALSE /\ resuming = FALSE /\ error = FALSE
  /\ queue = <<>> /\ incoming = <<>> /\ published = 0
  /\ closed = FALSE /\ result = "none"
  /\ sent = 0 /\ marked = FALSE

-----------------------------------------------------------------------------
(* How a connection ends *)

\* The loop is over: the queue is closed behind what it holds.
Ended ==
  /\ loop' = "ended"
  /\ NewRenewer({}) /\ incoming' = <<>>

Retry ==
  /\ loop' = "retry"
  /\ NewRenewer({}) /\ incoming' = <<>>

\* MUTANT: a lost connection is always tried again.
MutantFails == Retry /\ error' = TRUE /\ UNCHANGED resuming

\* The socket, the protocol or a publication failed.
Fails ==
  /\ error' = TRUE
  /\ IF auto THEN Retry ELSE Ended
  /\ UNCHANGED resuming

Overflows == Ended /\ error' = TRUE /\ UNCHANGED resuming

\* MUTANT: the end is not recorded when it will not be resumed.
MutantServerEnded ==
  /\ UNCHANGED error
  /\ IF auto THEN Retry ELSE Ended
  /\ resuming' = auto

\* The server ended the subscription with a code below 2500.
ServerEnded ==
  /\ error' = (error \/ ~auto)
  /\ IF auto THEN Retry ELSE Ended
  /\ resuming' = auto

-----------------------------------------------------------------------------
(* Setup *)

\* MUTANT: only what the server ended is announced as a gap.
MutantAnnounce == marked' = (marked \/ resuming)

\* The first connection is reported, each later one is a possible gap.
Announce == marked' = (marked \/ ready)

SetupDone(expiring) ==
  /\ loop = "setup"
  /\ loop' = "open"
  /\ error' = FALSE
  /\ ready' = TRUE
  /\ Announce
  /\ resuming' = FALSE
  /\ sent' = IF ready THEN sent ELSE published
  /\ NewRenewer(expiring)
  /\ UNCHANGED <<incoming, queue, published, handle>>

\* why: an ordinary failure, a token refused, or too much held back.
SetupFails(why) ==
  /\ loop = "setup"
  /\ error' = TRUE
  /\ \/ /\ ~ready
        /\ Ended
     \/ /\ ready /\ why = "overflow"
        /\ Ended
     \/ /\ ready /\ resuming /\ why = "refused"
        /\ Ended
     \/ /\ ready /\ why # "overflow" /\ ~(resuming /\ why = "refused")
        /\ Retry
  /\ UNCHANGED <<ready, resuming, published, feed, handle>>

RetryOver ==
  /\ loop = "retry"
  /\ loop' = "setup"
  /\ UNCHANGED <<renewer, ready, resuming, error, incoming, published, feed, handle>>

\* await_resume gave the reason not to subscribe again.
ResumeStops ==
  /\ loop = "retry" /\ resuming
  /\ error' = TRUE
  /\ Ended
  /\ UNCHANGED <<ready, resuming, published, feed, handle>>

-----------------------------------------------------------------------------
(* The connection *)

\* What publications hold: one item, or a batch, with the positions of the
\* members that decode; a payload that is no item and no batch is bad.
Payloads ==
  {[size |-> 1, good |-> <<1>>], [size |-> 1, good |-> <<>>],
   [size |-> 2, good |-> <<1, 2>>], [size |-> 2, good |-> <<2>>], [size |-> 2, good |-> <<1>>]}

Arrives(m) ==
  /\ loop = "open" /\ Len(incoming) < MaxIncoming
  /\ incoming' = Append(incoming, m)

Publish ==
  /\ \/ \E members \in Payloads :
          /\ published + members.size <= MaxPublications
          /\ published' = published + members.size
          /\ Arrives([kind |-> "pub", first |-> published + 1, members |-> members])
     \/ /\ published < MaxPublications
        /\ published' = published + 1
        /\ Arrives([kind |-> "bad"])
     \/ /\ loop # "open" /\ published < MaxPublications
        /\ published' = published + 1
        /\ UNCHANGED incoming
  /\ UNCHANGED <<renewer, loop, ready, resuming, error, feed, handle>>

Unsubscribes(temporary) ==
  /\ Arrives([kind |-> "unsubscribe", temporary |-> temporary])
  /\ UNCHANGED <<renewer, loop, ready, resuming, error, published, feed, handle>>

\* An error that answers no renewal.
SendsError ==
  /\ Arrives([kind |-> "error"])
  /\ UNCHANGED <<renewer, loop, ready, resuming, error, published, feed, handle>>

\* The server answers a renewal once.
Answers(id, refused, ttl) ==
  /\ id \in asked
  /\ asked' = asked \ {id}
  /\ Arrives([kind |-> "reply", id |-> id, refused |-> refused, ttl |-> ttl])
  /\ UNCHANGED <<due, fetching, fetched, pending, expires, failed,
                 loop, ready, resuming, error, published, feed, handle>>

\* A read fails or times out, the socket closes, or a send fails.
ConnectionFails ==
  /\ loop = "open"
  /\ Fails
  /\ UNCHANGED <<ready, published, feed, handle>>

Next1 == Head(incoming)
IsNext(kind) == loop = "open" /\ incoming # <<>> /\ Next1.kind = kind

Good(m) == m.members.good
HasBad(m) == Len(Good(m)) < m.members.size

\* The i-th good member, with what was enqueued before it and whether the
\* consumer was told of anything in between.
Item(m, i) ==
  LET good == Good(m)
  IN  [n |-> m.first + good[i] - 1,
       after |-> IF i = 1 THEN sent ELSE m.first + good[i - 1] - 1,
       marked |-> \/ i = 1 /\ (marked \/ good[1] > 1)
                  \/ i > 1 /\ good[i] > good[i - 1] + 1]

\* Permits of the bounded channel that are left.
Room == QueueSize - Len(queue)

\* A publication is decoded and enqueued; a batch goes in member by member
\* until the queue is full, and a bad member is recorded.
Delivers ==
  LET m == Next1
      good == Good(m)
      fits == Len(good) <= Room
      count == IF fits THEN Len(good) ELSE Room
  IN  /\ IsNext("pub")
      /\ queue' = queue \o [i \in 1..count |-> Item(m, i)]
      /\ sent' = IF count = 0 THEN sent ELSE Item(m, count).n
      /\ marked' = IF count = 0 THEN marked \/ HasBad(m) ELSE good[count] < m.members.size
      /\ IF fits
         THEN /\ error' = (error \/ HasBad(m))
              /\ incoming' = Tail(incoming)
              /\ UNCHANGED <<renewer, loop, resuming>>
         ELSE Overflows
      /\ UNCHANGED <<ready, published, handle>>

BadPublication ==
  /\ IsNext("bad") \/ IsNext("error")
  /\ Fails
  /\ UNCHANGED <<ready, published, feed, handle>>

Unsubscribed ==
  /\ IsNext("unsubscribe")
  /\ IF Next1.temporary THEN Fails ELSE ServerEnded
  /\ UNCHANGED <<ready, published, feed, handle>>

Reply ==
  /\ IsNext("reply")
  /\ \E p \in pending : p.id = Next1.id /\ TakeReply(p, Next1.refused, Next1.ttl)
  /\ error' = (error \/ Next1.refused)
  /\ incoming' = Tail(incoming)
  /\ UNCHANGED <<loop, ready, resuming, published, feed, handle>>

Renews ==
  /\ loop = "open"
  /\ \/ \E kinds \in SUBSET Kinds : StartDue(kinds) /\ UNCHANGED error
     \/ \E kind \in Kinds, ok \in BOOLEAN : FetchEnds(kind, ok) /\ UNCHANGED error
     \/ Present /\ UNCHANGED error
     \/ FetchFailed /\ error' = TRUE
  /\ UNCHANGED <<loop, ready, resuming, incoming, published, feed, handle>>

-----------------------------------------------------------------------------
(* The handle *)

Recv ==
  /\ ready /\ queue # <<>>
  /\ queue' = Tail(queue)
  /\ UNCHANGED <<renewer, loop, ready, resuming, error, incoming, published, sent, marked, handle>>

\* recv_result on a closed queue takes the error.
RecvEnd ==
  /\ ready /\ queue = <<>> /\ loop = "ended" /\ result = "none"
  /\ result' = IF error THEN "error" ELSE "end"
  /\ error' = FALSE
  /\ UNCHANGED <<renewer, auto, loop, ready, resuming, incoming, published, closed, feed>>

\* close: the task is aborted at the wait it is in.
Close ==
  /\ ready /\ ~closed
  /\ closed' = TRUE
  /\ Ended
  /\ UNCHANGED <<auto, ready, resuming, error, published, result, feed>>

Next ==
  \/ \E expiring \in SUBSET Kinds : SetupDone(expiring)
  \/ \E why \in {"ordinary", "refused", "overflow"} : SetupFails(why)
  \/ RetryOver
  \/ ResumeStops
  \/ Publish
  \/ \E temporary \in BOOLEAN : Unsubscribes(temporary)
  \/ SendsError
  \/ \E id \in Ids, refused, ttl \in BOOLEAN : Answers(id, refused, ttl)
  \/ ConnectionFails
  \/ Delivers
  \/ BadPublication
  \/ Unsubscribed
  \/ Reply
  \/ Renews
  \/ Recv
  \/ RecvEnd
  \/ Close

Spec == Init /\ [][Next]_vars

\* The task handles what arrived, and a consumer that reads reads on.
Fairness == WF_vars(Delivers \/ BadPublication \/ Unsubscribed \/ Reply)
            /\ WF_vars(Recv) /\ WF_vars(RecvEnd)
FairSpec == Spec /\ Fairness

-----------------------------------------------------------------------------
(* Properties *)

TypeOK ==
  /\ RenewerTypeOK
  /\ auto \in BOOLEAN /\ ready \in BOOLEAN /\ resuming \in BOOLEAN
  /\ error \in BOOLEAN /\ closed \in BOOLEAN /\ marked \in BOOLEAN
  /\ loop \in {"setup", "open", "retry", "ended"}
  /\ queue \in Seq([n : 1..MaxPublications, after : 0..MaxPublications, marked : BOOLEAN])
  /\ Len(queue) <= QueueSize
  /\ Len(incoming) <= MaxIncoming
  /\ published \in 0..MaxPublications /\ sent \in 0..MaxPublications
  /\ result \in {"none", "error", "end"}

\* A consumer never reads past a lost publication without having been told:
\* between two items that are not consecutive the subscription counted a
\* resubscribe or recorded a batch member that did not decode (mod.rs:857).
NoSilentGap ==
  \A i \in DOMAIN queue : queue[i].n # queue[i].after + 1 => queue[i].marked

\* A feed that the application did not close never looks like a clean end:
\* whatever ended it is there for recv_result, also when the queue was full
\* and when errors before it were cleared by a reconnect (mod.rs:876).
CleanEndIsTheApplications == result = "end" => closed

\* What makes it inductive: the reason is recorded until recv_result takes it.
EndIsRecorded == loop = "ended" /\ result = "none" => error \/ closed

\* While a connection is open, a token that expires has exactly one renewal
\* under way, or its renewal failed and was reported (renewal.rs:3).
RenewalGoesOn ==
  loop = "open" =>
    \A k \in Kinds : /\ \A a, b \in Links(k) : a = b
                     /\ k \in expires /\ k \notin failed => Links(k) # {}

\* A consumer that keeps reading is told the end of a feed that does not
\* reconnect, and of one that it closed (mod.rs:345).
EndIsDelivered ==
  ready /\ (closed \/ (~auto /\ loop # "open")) ~> result # "none"
=============================================================================
