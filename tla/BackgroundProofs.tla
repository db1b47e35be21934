-------------------------- MODULE BackgroundProofs --------------------------
(***************************************************************************)
(* Proofs about what a client keeps going in the background.               *)
(*                                                                         *)
(* TypedSubscription: the reason of an end reaches the application, no     *)
(* publication is lost in silence, and renewal goes on, whatever the sizes *)
(* of the queues and the kinds of tokens.                                  *)
(*                                                                         *)
(* CatalogHydration: success means both catalogs, a failure is explained,  *)
(* and no catalog is replaced by an older one, whoever hydrates.           *)
(***************************************************************************)
EXTENDS TypedSubscription, CatalogHydration, SequenceTheorems, TLAPS

-----------------------------------------------------------------------------
(* The typed subscription *)

Explained == EndIsRecorded /\ CleanEndIsTheApplications

\* A step that leaves the loop running, and the handle alone, ends nothing.
LEMMA RunningStep ==
  ASSUME Explained, UNCHANGED <<closed, result>>, loop' # "ended"
  PROVE  Explained'
BY DEF Explained, EndIsRecorded, CleanEndIsTheApplications

\* A step that ends the loop records an error.
LEMMA EndingStep ==
  ASSUME Explained, UNCHANGED <<closed, result>>, error'
  PROVE  Explained'
BY DEF Explained, EndIsRecorded, CleanEndIsTheApplications

\* A step that leaves the loop and its error alone.
LEMMA QuietStep ==
  ASSUME Explained, UNCHANGED <<closed, result, loop, error>>
  PROVE  Explained'
BY DEF Explained, EndIsRecorded, CleanEndIsTheApplications

\* A failure of the connection is recorded.
LEMMA FailsExplained ==
  ASSUME Explained, UNCHANGED <<closed, result>>, Fails
  PROVE  Explained'
BY EndingStep DEF Fails

\* An end by the server is recorded unless the subscription will resume.
LEMMA ServerEndedExplained ==
  ASSUME Explained, UNCHANGED <<closed, result>>, ServerEnded
  PROVE  Explained'
<1>1. CASE auto
  BY <1>1, RunningStep DEF ServerEnded, Retry
<1>2. CASE ~auto
  BY <1>2, EndingStep DEF ServerEnded
<1> QED
  BY <1>1, <1>2

\* Every step keeps the reason of an end until it is taken.
LEMMA NextExplained ==
  ASSUME Explained, [Next]_vars
  PROVE  Explained'
<1> USE DEF handle, feed
<1>1. ASSUME NEW expiring \in SUBSET Kinds, SetupDone(expiring) PROVE Explained'
  BY <1>1, RunningStep DEF SetupDone
<1>2. ASSUME NEW why, SetupFails(why) PROVE Explained'
  BY <1>2, EndingStep DEF SetupFails
<1>3. CASE RetryOver
  BY <1>3, RunningStep DEF RetryOver
<1>4. CASE ResumeStops
  BY <1>4, EndingStep DEF ResumeStops
<1>5. CASE Publish
  BY <1>5, QuietStep DEF Publish
<1>6. ASSUME NEW temporary, Unsubscribes(temporary) PROVE Explained'
  BY <1>6, QuietStep DEF Unsubscribes
<1>7. CASE SendsError
  BY <1>7, QuietStep DEF SendsError
<1>8. ASSUME NEW id, NEW refused, NEW ttl, Answers(id, refused, ttl) PROVE Explained'
  BY <1>8, QuietStep DEF Answers
<1>9. CASE ConnectionFails
  BY <1>9, FailsExplained DEF ConnectionFails
<1>10. CASE Delivers
  <2>1. CASE loop' = loop
    BY <1>10, <2>1, RunningStep DEF Delivers, IsNext
  <2>2. CASE Overflows
    BY <1>10, <2>2, EndingStep DEF Delivers, Overflows
  <2> QED
    BY <1>10, <2>1, <2>2 DEF Delivers
<1>11. CASE BadPublication
  BY <1>11, FailsExplained DEF BadPublication
<1>12. CASE Unsubscribed
  BY <1>12, FailsExplained, ServerEndedExplained DEF Unsubscribed
<1>13. CASE Reply
  BY <1>13, RunningStep DEF Reply, IsNext
<1>14. CASE Renews
  BY <1>14, RunningStep DEF Renews
<1>15. CASE Recv
  BY <1>15, QuietStep DEF Recv
<1>16. CASE RecvEnd
  BY <1>16 DEF RecvEnd, Explained, EndIsRecorded, CleanEndIsTheApplications
<1>17. CASE Close
  BY <1>17 DEF Close, Explained, EndIsRecorded, CleanEndIsTheApplications
<1>18. CASE UNCHANGED vars
  BY <1>18, QuietStep DEF vars
<1> QED
  BY <1>1, <1>2, <1>3, <1>4, <1>5, <1>6, <1>7, <1>8, <1>9, <1>10, <1>11, <1>12, <1>13, <1>14,
     <1>15, <1>16, <1>17, <1>18 DEF Next

\* A feed that the application did not close never looks like a clean end: the
\* reason is recorded on every path to the end, and nothing clears it there
\* (mod.rs:902).
THEOREM CleanEndTheorem == Spec => []CleanEndIsTheApplications
<1>1. Init => Explained
  BY DEF Init, Explained, EndIsRecorded, CleanEndIsTheApplications
<1>2. Explained => CleanEndIsTheApplications
  BY DEF Explained
<1> QED
  BY <1>1, <1>2, NextExplained, PTL DEF Spec

-----------------------------------------------------------------------------
(* Nothing is lost in silence *)

\* What the server sends.
Frames ==
  [kind : {"pub"}, first : 1..MaxPublications, members : Payloads]
    \cup [kind : {"bad", "error"}] \cup [kind : {"unsubscribe"}, temporary : BOOLEAN]
    \cup [kind : {"reply"}, id : Ids, refused : BOOLEAN, ttl : BOOLEAN]

\* A frame that takes the feed from the publication a to the publication b.
Link(m, a, b) ==
  /\ m.kind = "reply" => b = a
  /\ m.kind = "pub" => m.first = a + 1 /\ b = a + m.members.size

\* The frames f takes from the last publication told to the last one published.
Follows(f) ==
  /\ marked \/ sent = f[0]
  /\ f[Len(incoming)] = published
  /\ \A j \in 1..Len(incoming) : Link(incoming[j], f[j - 1], f[j])

\* On an open connection the frames follow the queue, publication by publication.
Continues == loop = "open" => \E f \in [0..Len(incoming) -> 0..MaxPublications] : Follows(f)

\* The types of the flags, of the socket and of the queue.
FlagsOK ==
  /\ auto \in BOOLEAN /\ ready \in BOOLEAN /\ resuming \in BOOLEAN
  /\ error \in BOOLEAN /\ closed \in BOOLEAN
  /\ loop \in {"setup", "open", "retry", "ended"}
  /\ result \in {"none", "error", "end"}

SocketOK ==
  /\ incoming \in Seq(Frames) /\ Len(incoming) <= MaxIncoming
  /\ loop # "open" => incoming = <<>>

Items == [n : 1..MaxPublications, after : 0..MaxPublications, marked : BOOLEAN]

FeedOK ==
  /\ queue \in Seq(Items) /\ Len(queue) <= QueueSize
  /\ marked \in BOOLEAN /\ sent \in 0..MaxPublications /\ published \in 0..MaxPublications

\* The feed between the server and the consumer, and the invariant.
Feed == SocketOK /\ FeedOK /\ Continues /\ NoSilentGap
IInv == RenewerTypeOK /\ FlagsOK /\ Feed

\* The flags keep their types in every step.
LEMMA FlagsStep ==
  ASSUME FlagsOK, SocketOK, Next
  PROVE  FlagsOK'
<1> USE DEF FlagsOK, handle
<1>0. ASSUME Ended \/ Retry PROVE loop' \in {"setup", "open", "retry", "ended"}
  BY <1>0, SMT DEF Ended, Retry
<1>1. CASE \E expiring \in SUBSET Kinds : SetupDone(expiring)
  BY <1>1, Zenon DEF SetupDone
<1>2. CASE \E why \in {"ordinary", "refused", "overflow"} : SetupFails(why)
  <2>1. Ended \/ Retry
    BY <1>2, Zenon DEF SetupFails
  <2>2. error' = TRUE /\ UNCHANGED <<ready, resuming, handle>>
    BY <1>2, Zenon DEF SetupFails
  <2> QED
    BY <1>0, <2>1, <2>2, Zenon
<1>3. CASE RetryOver \/ ResumeStops
  <2>1. CASE RetryOver
    BY <2>1, SMT DEF RetryOver
  <2>2. CASE ResumeStops
    BY <1>0, <2>2, Zenon DEF ResumeStops
  <2> QED
    BY <1>3, <2>1, <2>2
<1>4. CASE Publish \/ SendsError \/ \E temporary \in BOOLEAN : Unsubscribes(temporary)
  BY <1>4, Zenon DEF Publish, SendsError, Unsubscribes
<1>5. CASE \E id \in Ids, refused, ttl \in BOOLEAN : Answers(id, refused, ttl)
  BY <1>5, Zenon DEF Answers
<1>6. CASE ConnectionFails \/ BadPublication \/ Unsubscribed
  <2>1. CASE Fails
    BY <1>0, <1>6, <2>1, Zenon DEF ConnectionFails, BadPublication, Unsubscribed, Fails
  <2>2. CASE ServerEnded
    BY <1>0, <1>6, <2>2, Zenon DEF ConnectionFails, BadPublication, Unsubscribed, ServerEnded
  <2> QED
    BY <1>6, <2>1, <2>2, Zenon DEF ConnectionFails, BadPublication, Unsubscribed
<1>7. CASE Delivers
  <2>1. CASE Overflows
    BY <1>0, <1>7, <2>1, Zenon DEF Delivers, Overflows
  <2>2. CASE error' = (error \/ HasBad(Next1)) /\ UNCHANGED <<loop, resuming>>
    BY <1>7, <2>2, Zenon DEF Delivers
  <2> QED
    BY <1>7, <2>1, <2>2, Zenon DEF Delivers
<1>8. CASE Reply
  <2>1. Next1.refused \in BOOLEAN
    <3>1. Next1 \in Frames /\ Next1.kind = "reply"
      BY <1>8, SMT DEF Reply, IsNext, Next1, SocketOK
    <3> QED
      BY <3>1, SMT DEF Frames
  <2> QED
    BY <1>8, <2>1, Zenon DEF Reply
<1>9. CASE Renews
  BY <1>9, Zenon DEF Renews
<1>10. CASE Recv
  BY <1>10, Zenon DEF Recv
<1>11. CASE RecvEnd
  <2>1. result' \in {"error", "end"} /\ error' = FALSE /\ UNCHANGED <<auto, loop, ready, resuming, closed>>
    BY <1>11, Zenon DEF RecvEnd
  <2>2. result' \in {"none", "error", "end"}
    BY <2>1, SMT
  <2> QED
    BY <2>1, <2>2, Zenon
<1>12. CASE Close
  BY <1>12, SMT DEF Close, Ended
<1> QED
  BY <1>1, <1>2, <1>3, <1>4, <1>5, <1>6, <1>7, <1>8, <1>9, <1>10, <1>11, <1>12 DEF Next

\* The renewer keeps its types in every step.
LEMMA RenewerStep ==
  ASSUME RenewerTypeOK, SocketOK, Next
  PROVE  RenewerTypeOK'
<1> USE DEF RenewerTypeOK
<1>0. fetched # <<>> => Head(fetched).kind \in Kinds /\ Tail(fetched) \in Seq([kind : Kinds, ok : BOOLEAN])
  <2> SUFFICES ASSUME fetched # <<>> PROVE Head(fetched).kind \in Kinds /\ Tail(fetched) \in Seq([kind : Kinds, ok : BOOLEAN])
    OBVIOUS
  <2>1. Head(fetched) \in [kind : Kinds, ok : BOOLEAN] /\ Tail(fetched) \in Seq([kind : Kinds, ok : BOOLEAN])
    BY HeadTailProperties
  <2> QED
    BY <2>1
<1>1. ASSUME NEW kinds \in SUBSET Kinds, NewRenewer(kinds) PROVE RenewerTypeOK'
  BY <1>1, SMT DEF NewRenewer
<1>2. CASE UNCHANGED renewer
  BY <1>2, Zenon DEF renewer
<1>3. CASE Ended \/ Retry
  BY <1>1, <1>3 DEF Ended, Retry
<1>4. CASE \E expiring \in SUBSET Kinds : SetupDone(expiring)
  BY <1>1, <1>4 DEF SetupDone
<1>5. CASE \E why \in {"ordinary", "refused", "overflow"} : SetupFails(why)
  BY <1>3, <1>5, Zenon DEF SetupFails
<1>6. CASE RetryOver \/ ResumeStops
  BY <1>2, <1>3, <1>6 DEF RetryOver, ResumeStops
<1>7. CASE Publish \/ SendsError \/ \E temporary \in BOOLEAN : Unsubscribes(temporary)
  BY <1>2, <1>7, Zenon DEF Publish, SendsError, Unsubscribes
<1>8. CASE \E id \in Ids, refused, ttl \in BOOLEAN : Answers(id, refused, ttl)
  BY <1>8, SMT DEF Answers
<1>9. CASE ConnectionFails \/ BadPublication \/ Unsubscribed
  BY <1>3, <1>9, Zenon DEF ConnectionFails, BadPublication, Unsubscribed, Fails, ServerEnded
<1>10. CASE Delivers
  BY <1>2, <1>3, <1>10, Zenon DEF Delivers, Overflows
<1>11. CASE Reply
  <2>1. PICK p \in pending : TakeReply(p, Next1.refused, Next1.ttl)
    BY <1>11, Zenon DEF Reply
  <2>2. p.kind \in Kinds
    BY SMT
  <2> QED
    BY <2>1, <2>2, SMT DEF TakeReply
<1>12. CASE Renews
  <2>1. CASE \E kinds \in SUBSET Kinds : StartDue(kinds)
    BY <2>1, SMT DEF StartDue
  <2>2. CASE \E kind \in Kinds, ok \in BOOLEAN : FetchEnds(kind, ok)
    BY <2>2, SMT DEF FetchEnds
  <2>3. CASE Present
    <3>1. Head(fetched).kind \in Kinds /\ Tail(fetched) \in Seq([kind : Kinds, ok : BOOLEAN])
      BY <1>0, <2>3, Zenon DEF Present
    <3>2. PICK id \in Ids :
            /\ pending' = pending \cup {[id |-> id, kind |-> Head(fetched).kind]}
            /\ asked' = asked \cup {id}
      BY <2>3, Zenon DEF Present
    <3>3. [id |-> id, kind |-> Head(fetched).kind] \in [id : Ids, kind : Kinds]
      BY <3>1, SMT
    <3>4. fetched' = Tail(fetched) /\ UNCHANGED <<due, fetching, expires, failed>>
      BY <2>3, Zenon DEF Present
    <3> QED
      BY <3>1, <3>2, <3>3, <3>4, Zenon
  <2>4. CASE FetchFailed
    <3>1. Head(fetched).kind \in Kinds /\ Tail(fetched) \in Seq([kind : Kinds, ok : BOOLEAN])
      BY <1>0, <2>4, Zenon DEF FetchFailed
    <3> QED
      BY <2>4, <3>1, Zenon DEF FetchFailed
  <2> QED
    BY <1>12, <2>1, <2>2, <2>3, <2>4 DEF Renews
<1>13. CASE Recv
  BY <1>2, <1>13 DEF Recv
<1>14. CASE RecvEnd
  BY <1>2, <1>14 DEF RecvEnd
<1>15. CASE Close
  BY <1>3, <1>15 DEF Close
<1> QED
  BY <1>4, <1>5, <1>6, <1>7, <1>8, <1>9, <1>10, <1>11, <1>12, <1>13, <1>14, <1>15 DEF Next

\* A step that leaves the feed and the socket alone, or empties the socket.
LEMMA FeedKept ==
  ASSUME Feed, UNCHANGED <<queue, sent, marked, published>>,
         \/ UNCHANGED <<loop, incoming>>
         \/ loop' # "open" /\ incoming' = <<>>
  PROVE  Feed'
<1>1. FeedOK' /\ NoSilentGap'
  BY Zenon DEF Feed, FeedOK, NoSilentGap
<1>2. CASE UNCHANGED <<loop, incoming>>
  BY <1>1, <1>2, Zenon DEF Feed, SocketOK, Continues, Follows
<1>3. CASE loop' # "open" /\ incoming' = <<>>
  BY <1>1, <1>3, TypedSubscriptionAssumption, SMT DEF Feed, SocketOK, Continues
<1> QED
  BY <1>2, <1>3

\* A frame that arrives goes on where the server was.
LEMMA FeedArrives ==
  ASSUME Feed, NEW m \in Frames, Arrives(m), UNCHANGED <<queue, sent, marked, loop>>,
         published' \in 0..MaxPublications, Link(m, published, published')
  PROVE  Feed'
<1> DEFINE n == Len(incoming)
<1>1. n \in Nat /\ incoming' = Append(incoming, m) /\ Len(incoming') = n + 1 /\ loop = "open"
  BY SMT DEF Feed, SocketOK, Arrives
<1>2. /\ \A j \in 1..n : incoming'[j] = incoming[j]
      /\ incoming'[n + 1] = m
  BY <1>1, SMT DEF Feed, SocketOK
<1>3. SocketOK'
  <2>1. incoming' \in Seq(Frames)
    BY <1>1, AppendProperties DEF Feed, SocketOK
  <2> QED
    BY <1>1, <2>1, TypedSubscriptionAssumption, SMT DEF Arrives, SocketOK
<1>4. FeedOK' /\ NoSilentGap'
  BY Zenon DEF Feed, FeedOK, NoSilentGap
<1>5. PICK f \in [0..n -> 0..MaxPublications] : Follows(f)
  BY <1>1 DEF Feed, Continues
<1> DEFINE g == [j \in 0..n + 1 |-> IF j = n + 1 THEN published' ELSE f[j]]
<1> HIDE DEF n
<1>6. g \in [0..n + 1 -> 0..MaxPublications]
  BY <1>1, SMT
<1>7. g[0] = f[0] /\ g[n] = f[n] /\ g[n + 1] = published' /\ \A j \in 0..n : g[j] = f[j]
  BY <1>1, SMT
<1> HIDE DEF g
<1>8. f[n] = published /\ (marked \/ sent = f[0]) /\ \A j \in 1..n : Link(incoming[j], f[j - 1], f[j])
  BY <1>5 DEF Follows, n
<1>9. ASSUME NEW j \in 1..n + 1 PROVE Link(incoming'[j], g[j - 1], g[j])
  <2>1. CASE j = n + 1
    <3>1. j - 1 = n
      BY <1>1, <2>1, SMT
    <3> QED
      BY <1>2, <1>7, <1>8, <2>1, <3>1, Zenon
  <2>2. CASE j \in 1..n
    <3>1. j - 1 \in 0..n /\ j \in 0..n
      BY <1>1, <2>2, SMT
    <3> QED
      BY <1>2, <1>7, <1>8, <2>2, <3>1, Zenon
  <2> QED
    BY <1>1, <2>1, <2>2, SMT
<1>10. /\ marked' \/ sent' = g[0]
       /\ g[Len(incoming')] = published'
       /\ \A j \in 1..Len(incoming') : Link(incoming'[j], g[j - 1], g[j])
  BY <1>1, <1>7, <1>8, <1>9, Zenon
<1>11. Continues'
  BY <1>1, <1>6, <1>10, Zenon DEF Continues, Follows
<1> QED
  BY <1>3, <1>4, <1>11 DEF Feed

\* A frame is taken off the socket, after which the feed is where it led.
LEMMA FeedTaken ==
  ASSUME Feed, loop = "open", incoming # <<>>, incoming' = Tail(incoming), UNCHANGED <<loop, published>>,
         FeedOK', NoSilentGap',
         \A a, b \in 0..MaxPublications :
           (marked \/ sent = a) /\ Link(Head(incoming), a, b) => marked' \/ sent' = b
  PROVE  Feed'
<1> DEFINE n == Len(incoming)
<1>1. n \in Nat /\ n > 0 /\ Len(incoming') = n - 1 /\ Head(incoming) = incoming[1]
  BY SMT DEF Feed, SocketOK
<1>2. \A j \in 1..(n - 1) : incoming'[j] = incoming[j + 1]
  BY <1>1, SMT DEF Feed, SocketOK
<1>3. SocketOK'
  BY <1>1, TypedSubscriptionAssumption, SMT DEF Feed, SocketOK
<1>5. PICK f \in [0..n -> 0..MaxPublications] : Follows(f)
  BY DEF Feed, Continues
<1> DEFINE g == [j \in 0..(n - 1) |-> f[j + 1]]
<1> HIDE DEF n
<1>6. g \in [0..(n - 1) -> 0..MaxPublications]
  BY <1>1, SMT
<1>7. g[0] = f[1] /\ g[n - 1] = f[n] /\ \A j \in 1..(n - 1) : g[j] = f[j + 1] /\ g[j - 1] = f[j]
  BY <1>1, SMT
<1> HIDE DEF g
<1>8. f[n] = published /\ (marked \/ sent = f[0]) /\ \A j \in 1..n : Link(incoming[j], f[j - 1], f[j])
  BY <1>5 DEF Follows, n
<1>9. ASSUME NEW j \in 1..(n - 1) PROVE Link(incoming'[j], g[j - 1], g[j])
  <2>1. j + 1 \in 1..n /\ (j + 1) - 1 = j
    BY <1>1, SMT
  <2>2. Link(incoming[j + 1], f[(j + 1) - 1], f[j + 1])
    BY <1>8, <2>1
  <2> QED
    BY <1>2, <1>7, <2>1, <2>2, Zenon
<1>10. marked' \/ sent' = g[0]
  <2>1. f[0] \in 0..MaxPublications /\ f[1] \in 0..MaxPublications /\ 1 \in 1..n /\ 1 - 1 = 0
    BY <1>1, <1>5, SMT
  <2>2. Link(incoming[1], f[1 - 1], f[1])
    BY <1>8, <2>1
  <2> QED
    BY <1>1, <1>7, <1>8, <2>1, <2>2, Zenon
<1>11. /\ g[Len(incoming')] = published'
       /\ \A j \in 1..Len(incoming') : Link(incoming'[j], g[j - 1], g[j])
  BY <1>1, <1>7, <1>8, <1>9, Zenon
<1>12. Continues'
  BY <1>1, <1>6, <1>10, <1>11, Zenon DEF Continues, Follows
<1> QED
  BY <1>3, <1>12 DEF Feed

\* A step of the feed on an open connection.
LEMMA ReplyFeed ==
  ASSUME Feed, Reply
  PROVE  Feed'
<1>1. /\ loop = "open" /\ incoming # <<>> /\ Next1.kind = "reply" /\ incoming' = Tail(incoming)
      /\ UNCHANGED <<loop, published, feed>>
  BY Zenon DEF Reply, IsNext
<1>2. FeedOK' /\ NoSilentGap'
  BY <1>1, Zenon DEF feed, Feed, FeedOK, NoSilentGap
<1>3. \A a, b \in 0..MaxPublications :
        (marked \/ sent = a) /\ Link(Head(incoming), a, b) => marked' \/ sent' = b
  BY <1>1, Zenon DEF feed, Link, Next1
<1> QED
  BY <1>1, <1>2, <1>3, FeedTaken

\* The consumer takes an item.
LEMMA RecvFeed ==
  ASSUME Feed, Recv
  PROVE  Feed'
<1>1. queue # <<>> /\ queue' = Tail(queue) /\ UNCHANGED <<sent, marked, published, loop, incoming>>
  BY Zenon DEF Recv
<1>2. /\ queue' \in Seq(Items) /\ Len(queue') = Len(queue) - 1
      /\ \A i \in 1..Len(queue') : queue'[i] = queue[i + 1]
  BY <1>1, HeadTailProperties DEF Feed, FeedOK
<1>3. Len(queue) \in Nat /\ Len(queue) > 0 /\ DOMAIN queue = 1..Len(queue) /\ DOMAIN queue' = 1..Len(queue')
  BY <1>1, <1>2, SMT DEF Feed, FeedOK
<1>4. FeedOK'
  BY <1>1, <1>2, <1>3, TypedSubscriptionAssumption, SMT DEF Feed, FeedOK
<1>5. NoSilentGap'
  <2> SUFFICES ASSUME NEW i \in DOMAIN queue' PROVE queue'[i].n # queue'[i].after + 1 => queue'[i].marked
    BY DEF NoSilentGap
  <2>1. i + 1 \in DOMAIN queue /\ queue'[i] = queue[i + 1]
    BY <1>2, <1>3, SMT
  <2> QED
    BY <2>1, Zenon DEF Feed, NoSilentGap
<1> QED
  BY <1>1, <1>4, <1>5, Zenon DEF Feed, SocketOK, Continues, Follows

\* A connection is open: a later one is announced as a gap.
LEMMA SetupFeed ==
  ASSUME Feed, FlagsOK, NEW expiring, SetupDone(expiring)
  PROVE  Feed'
<1>1. /\ loop = "setup" /\ loop' = "open" /\ marked' = (marked \/ ready)
      /\ sent' = IF ready THEN sent ELSE published
      /\ UNCHANGED <<incoming, queue, published>>
  BY Zenon DEF SetupDone, Announce
<1>2. incoming' = <<>> /\ Len(incoming') = 0
  BY <1>1, SMT DEF Feed, SocketOK
<1>3. SocketOK'
  BY <1>1, <1>2, SMT DEF Feed, SocketOK
<1>4. FeedOK' /\ NoSilentGap'
  <2>1. marked' \in BOOLEAN /\ sent' \in 0..MaxPublications
    BY <1>1, Zenon DEF Feed, FeedOK, FlagsOK
  <2> QED
    BY <1>1, <2>1, Zenon DEF Feed, FeedOK, NoSilentGap
<1>5. Continues'
  <2> DEFINE f == [j \in 0..0 |-> published]
  <2>1. f \in [0..0 -> 0..MaxPublications] /\ f[0] = published
    BY SMT DEF Feed, FeedOK
  <2>2. marked' \/ sent' = published
    BY <1>1, Zenon DEF FlagsOK
  <2> HIDE DEF f
  <2>3. /\ marked' \/ sent' = f[0]
        /\ f[Len(incoming')] = published'
        /\ \A j \in 1..Len(incoming') : Link(incoming'[j], f[j - 1], f[j])
    BY <1>1, <1>2, <2>1, <2>2, SMT
  <2> QED
    BY <1>2, <2>1, <2>3, Zenon DEF Continues, Follows
<1> QED
  BY <1>3, <1>4, <1>5 DEF Feed

\* The server publishes, on the connection or while there is none.
LEMMA PublishFeed ==
  ASSUME Feed, Publish
  PROVE  Feed'
<1>1. published \in Nat /\ published' \in 0..MaxPublications /\ UNCHANGED <<queue, sent, marked, loop>>
  <2>1. published \in Nat /\ MaxPublications \in Nat /\ \A members \in Payloads : members.size \in Nat \ {0}
    BY TypedSubscriptionAssumption, SMT DEF Feed, FeedOK, Payloads
  <2>2. UNCHANGED <<queue, sent, marked, loop>>
    BY Zenon DEF Publish, feed
  <2>3. \/ \E members \in Payloads : /\ published + members.size <= MaxPublications
                                     /\ published' = published + members.size
        \/ published < MaxPublications /\ published' = published + 1
    BY Zenon DEF Publish
  <2> QED
    BY <2>1, <2>2, <2>3, SMT
<1>2. ASSUME NEW members \in Payloads, published' = published + members.size,
             Arrives([kind |-> "pub", first |-> published + 1, members |-> members]) PROVE Feed'
  <2> DEFINE m == [kind |-> "pub", first |-> published + 1, members |-> members]
  <2>1. m.kind = "pub" /\ m.first = published + 1 /\ m.members = members
    OBVIOUS
  <2>2. published + 1 \in 1..MaxPublications
    BY <1>1, <1>2, TypedSubscriptionAssumption, SMT DEF Payloads
  <2>3. m \in [kind : {"pub"}, first : 1..MaxPublications, members : Payloads]
    BY <2>2
  <2>4. m \in Frames
    BY <2>3, Zenon DEF Frames
  <2> HIDE DEF m
  <2>5. Link(m, published, published')
    BY <1>2, <2>1, SMT DEF Link
  <2>6. Arrives(m)
    BY <1>2 DEF m
  <2> QED
    BY <1>1, <2>4, <2>5, <2>6, FeedArrives
<1>3. CASE Arrives([kind |-> "bad"])
  <2>1. [kind |-> "bad"] \in [kind : {"bad", "error"}]
    BY SMT
  <2>2. [kind |-> "bad"] \in Frames
    BY <2>1, Zenon DEF Frames
  <2>3. Link([kind |-> "bad"], published, published')
    BY SMT DEF Link
  <2> QED
    BY <1>1, <1>3, <2>2, <2>3, FeedArrives
<1>4. CASE loop # "open" /\ UNCHANGED incoming
  BY <1>1, <1>4, Zenon DEF Feed, FeedOK, SocketOK, Continues, NoSilentGap
<1> QED
  BY <1>2, <1>3, <1>4, Zenon DEF Publish

\* What a publication can hold.
LEMMA PayloadFacts ==
  \A p \in Payloads :
    /\ p.size \in Nat \ {0} /\ Len(p.good) \in 0..p.size
    /\ \A i \in 1..Len(p.good) : p.good[i] \in 1..p.size /\ (i > 1 => p.good[i] > p.good[i - 1])
<1> TAKE p \in Payloads
<1>1. CASE p = [size |-> 1, good |-> <<1>>]
  BY <1>1, SMT
<1>2. CASE p = [size |-> 1, good |-> <<>>]
  BY <1>2, SMT
<1>3. CASE p = [size |-> 2, good |-> <<1, 2>>]
  <2>1. p.size = 2 /\ Len(p.good) = 2 /\ p.good[1] = 1 /\ p.good[2] = 2
    BY <1>3, SMT
  <2> QED
    BY <2>1, SMT
<1>4. CASE p = [size |-> 2, good |-> <<2>>]
  BY <1>4, SMT
<1>5. CASE p = [size |-> 2, good |-> <<1>>]
  BY <1>5, SMT
<1> QED
  BY <1>1, <1>2, <1>3, <1>4, <1>5, Zenon DEF Payloads

\* The number of the k-th member of a publication of z that begins after a.
LEMMA PlaceOf ==
  \A a, z \in Nat : \A k \in 1..z : a + z <= MaxPublications =>
    /\ (a + 1) + k - 1 = a + k /\ a + k \in 1..MaxPublications /\ k \in Nat
BY TypedSubscriptionAssumption, SMT

\* What is enqueued of a publication at first + k is told from what precedes it.
LEMMA ItemFacts ==
  ASSUME FeedOK, NEW m, m.members \in Payloads, NEW a \in Nat, m.first = a + 1,
         a + m.members.size <= MaxPublications, marked \/ sent = a,
         NEW i \in 1..Len(Good(m))
  PROVE  /\ Item(m, i) \in Items
         /\ Item(m, i).n = a + Good(m)[i]
         /\ Item(m, i).n # Item(m, i).after + 1 => Item(m, i).marked
<1> DEFINE good == m.members.good
<1>1. /\ good[i] \in 1..m.members.size /\ m.members.size \in Nat /\ i \in Nat /\ i > 0
      /\ i > 1 => good[i - 1] \in 1..m.members.size /\ good[i] > good[i - 1]
      /\ 1 \in 1..Len(good) /\ good[1] \in 1..m.members.size
  <2>1. /\ Len(good) \in Nat /\ m.members.size \in Nat
        /\ \A j \in 1..Len(good) : good[j] \in 1..m.members.size /\ (j > 1 => good[j] > good[j - 1])
    <3>1. m.members.size \in Nat /\ Len(good) \in 0..m.members.size
      BY PayloadFacts, SMT
    <3>2. \A j \in 1..Len(good) : good[j] \in 1..m.members.size /\ (j > 1 => good[j] > good[j - 1])
      BY PayloadFacts, Zenon
    <3> HIDE DEF good
    <3>3. Len(good) \in Nat
      BY <3>1, SMT
    <3> QED
      BY <3>1, <3>2, <3>3
  <2>2. i \in 1..Len(good)
    BY DEF Good
  <2> HIDE DEF good
  <2>3. i \in Nat /\ i > 0 /\ 1 \in 1..Len(good) /\ (i > 1 => i - 1 \in 1..Len(good))
    BY <2>1, <2>2, SMT
  <2> QED
    BY <2>1, <2>2, <2>3, Zenon
<1> HIDE DEF good
<1>2. marked \in BOOLEAN /\ sent \in 0..MaxPublications /\ MaxPublications \in Nat
  BY TypedSubscriptionAssumption DEF FeedOK
<1>3. Item(m, i) = [n |-> m.first + good[i] - 1,
                    after |-> IF i = 1 THEN sent ELSE m.first + good[i - 1] - 1,
                    marked |-> \/ i = 1 /\ (marked \/ good[1] > 1)
                               \/ i > 1 /\ good[i] > good[i - 1] + 1]
  BY DEF Item, Good, good
<1> DEFINE nn == m.first + good[i] - 1
           aa == IF i = 1 THEN sent ELSE m.first + good[i - 1] - 1
           mm == \/ i = 1 /\ (marked \/ good[1] > 1)
                 \/ i > 1 /\ good[i] > good[i - 1] + 1
<1>4. nn = a + good[i] /\ nn \in 1..MaxPublications /\ good[i] \in Nat /\ nn \in Nat
  <2>1. good[i] \in Nat /\ nn = a + good[i] /\ nn \in 1..MaxPublications
    <3>1. m.members.size \in Nat /\ good[i] \in 1..m.members.size
      BY <1>1
    <3>2. (a + 1) + good[i] - 1 = a + good[i] /\ a + good[i] \in 1..MaxPublications /\ good[i] \in Nat
      BY <3>1, PlaceOf
    <3>3. nn = (a + 1) + good[i] - 1
      OBVIOUS
    <3> HIDE DEF nn
    <3> QED
      BY <3>2, <3>3, Zenon
  <2> HIDE DEF nn
  <2> QED
    BY <2>1, SMT
<1>5. aa \in 0..MaxPublications /\ mm \in BOOLEAN /\ (nn # aa + 1 => mm)
  <2>1. CASE i = 1
    <3>1. aa = sent /\ (mm <=> marked \/ good[i] > 1)
      BY <2>1, SMT
    <3>2. mm \in BOOLEAN
      OBVIOUS
    <3> HIDE DEF nn, aa, mm
    <3>3. ~mm => sent = a /\ good[i] = 1
      BY <1>1, <3>1, SMT
    <3> QED
      BY <1>2, <1>4, <3>1, <3>2, <3>3, SMT
  <2>2. CASE i > 1
    <3>1. i # 1
      BY <2>2, SMT
    <3>2. /\ aa = m.first + good[i - 1] - 1 /\ mm \in BOOLEAN
          /\ good[i - 1] \in 1..m.members.size /\ good[i] > good[i - 1]
      BY <1>1, <2>2, <3>1, Zenon
    <3>3. mm <=> good[i] > good[i - 1] + 1
      BY <2>2, SMT
    <3>4. aa = a + good[i - 1] /\ aa \in 1..MaxPublications
      <4>1. m.members.size \in Nat
        BY <1>1
      <4>2. (a + 1) + good[i - 1] - 1 = a + good[i - 1] /\ a + good[i - 1] \in 1..MaxPublications
        BY <3>2, <4>1, PlaceOf
      <4>3. aa = (a + 1) + good[i - 1] - 1
        BY <3>2
      <4> HIDE DEF aa
      <4> QED
        BY <4>2, <4>3, Zenon
    <3> HIDE DEF nn, aa, mm
    <3>5. good[i - 1] \in Nat
      BY <1>1, <3>2, SMT
    <3>6. ~mm => good[i] = good[i - 1] + 1
      BY <1>4, <3>2, <3>3, <3>5, SMT
    <3> QED
      BY <1>2, <1>4, <3>2, <3>4, <3>5, <3>6, SMT
  <2> QED
    BY <1>1, <2>1, <2>2, SMT
<1>6. Item(m, i) = [n |-> nn, after |-> aa, marked |-> mm]
  BY <1>3
<1> HIDE DEF nn, aa, mm
<1> QED
  BY <1>4, <1>5, <1>6, SMT DEF Items, Good, good

\* A publication is enqueued as far as it fits, and what it lacks is told.
LEMMA DeliversFeed ==
  ASSUME Feed, Delivers
  PROVE  Feed'
<1> DEFINE m == Next1
           good == Good(m)
           fits == Len(good) <= Room
           count == IF fits THEN Len(good) ELSE Room
           T == [i \in 1..count |-> Item(m, i)]
<1>1. /\ loop = "open" /\ incoming # <<>> /\ m.kind = "pub"
      /\ queue' = queue \o T
      /\ sent' = IF count = 0 THEN sent ELSE Item(m, count).n
      /\ marked' = IF count = 0 THEN marked \/ HasBad(m) ELSE good[count] < m.members.size
      /\ IF fits THEN incoming' = Tail(incoming) /\ UNCHANGED loop ELSE Overflows
      /\ UNCHANGED published
  BY Zenon DEF Delivers, IsNext
<1>2. m \in Frames /\ m.members \in Payloads
  <2>1. m \in Frames
    BY <1>1, HeadTailProperties DEF Feed, SocketOK, Next1
  <2> QED
    BY <1>1, <2>1, SMT DEF Frames
<1>3. PICK f \in [0..Len(incoming) -> 0..MaxPublications] : Follows(f)
  BY <1>1 DEF Feed, Continues
<1>4. f[0] \in Nat /\ f[1] \in 0..MaxPublications /\ Link(m, f[0], f[1]) /\ (marked \/ sent = f[0])
  <2>1. Len(incoming) \in Nat /\ Len(incoming) > 0 /\ m = incoming[1]
    BY <1>1, SMT DEF Feed, SocketOK, Next1
  <2>2. f[0] \in 0..MaxPublications /\ f[1] \in 0..MaxPublications /\ 1 \in 1..Len(incoming) /\ 1 - 1 = 0
    BY <1>3, <2>1, SMT
  <2>3. Link(incoming[1], f[1 - 1], f[1]) /\ (marked \/ sent = f[0])
    BY <1>3, <2>2 DEF Follows
  <2> QED
    BY <2>1, <2>2, <2>3, TypedSubscriptionAssumption, SMT
<1>5. m.first = f[0] + 1 /\ f[0] + m.members.size <= MaxPublications
  BY <1>1, <1>2, <1>4, PayloadFacts, TypedSubscriptionAssumption, SMT DEF Link
<1>6. /\ Len(good) \in Nat /\ m.members.size \in Nat /\ Len(good) <= m.members.size /\ m.members.size > 0
      /\ \A i \in 1..Len(good) : good[i] \in 1..m.members.size
  BY <1>2, PayloadFacts, SMT DEF Good
<1>7. Len(queue) \in Nat /\ Room \in Nat /\ Room = QueueSize - Len(queue) /\ QueueSize \in Nat
  BY TypedSubscriptionAssumption, SMT DEF Feed, FeedOK, Room
<1>8. \A i \in 1..Len(good) : /\ Item(m, i) \in Items /\ Item(m, i).n = f[0] + good[i]
                              /\ Item(m, i).n # Item(m, i).after + 1 => Item(m, i).marked
  BY <1>2, <1>4, <1>5, ItemFacts DEF Feed
<1> HIDE DEF m, good
<1>9. count \in Nat /\ count <= Len(good) /\ count <= Room
  BY <1>6, <1>7, SMT
<1> HIDE DEF fits, count
<1>10. T \in Seq(Items) /\ Len(T) = count /\ \A i \in 1..count : T[i] = Item(m, i)
  <2>1. \A i \in 1..count : Item(m, i) \in Items
    BY <1>6, <1>8, <1>9, SMT
  <2> QED
    BY <1>9, <2>1, SMT
<1> HIDE DEF T
<1>11. /\ queue' \in Seq(Items) /\ Len(queue') = Len(queue) + count
       /\ \A i \in 1..Len(queue') :
             queue'[i] = IF i <= Len(queue) THEN queue[i] ELSE T[i - Len(queue)]
  <2>1. queue \in Seq(Items) /\ T \in Seq(Items) /\ Len(T) = count
    BY <1>10 DEF Feed, FeedOK
  <2>2. /\ queue \o T \in Seq(Items) /\ Len(queue \o T) = Len(queue) + count
        /\ \A i \in 1..(Len(queue) + count) :
              (queue \o T)[i] = IF i <= Len(queue) THEN queue[i] ELSE T[i - Len(queue)]
    BY <2>1, ConcatProperties
  <2> QED
    BY <1>1, <2>2, Zenon
<1>12. sent' \in 0..MaxPublications /\ marked' \in BOOLEAN
  <2>1. CASE count = 0
    BY <1>1, <2>1, Zenon DEF Feed, FeedOK, HasBad
  <2>2. CASE count # 0
    <3>1. count \in 1..Len(good) /\ MaxPublications \in Nat
      BY <1>6, <1>9, <2>2, TypedSubscriptionAssumption, SMT
    <3>2. sent' = f[0] + good[count] /\ good[count] \in 1..m.members.size
      BY <1>1, <1>6, <1>8, <2>2, <3>1, Zenon
    <3>3. marked' \in BOOLEAN
      <4>1. (good[count] < m.members.size) \in BOOLEAN
        BY SMT
      <4> QED
        BY <1>1, <2>2, <4>1, Zenon
    <3> QED
      BY <1>4, <1>5, <1>6, <3>1, <3>2, <3>3, SMT
  <2> QED
    BY <2>1, <2>2
<1>13. FeedOK'
  <2>1. Len(queue') <= QueueSize
    BY <1>7, <1>9, <1>11, SMT
  <2> QED
    BY <1>1, <1>11, <1>12, <2>1, Zenon DEF Feed, FeedOK
<1>14. NoSilentGap'
  <2> SUFFICES ASSUME NEW i \in DOMAIN queue' PROVE queue'[i].n # queue'[i].after + 1 => queue'[i].marked
    BY DEF NoSilentGap
  <2>1. i \in 1..Len(queue') /\ DOMAIN queue = 1..Len(queue)
    BY <1>11, SMT DEF Feed, FeedOK
  <2>2. CASE i <= Len(queue)
    <3>1. i \in DOMAIN queue /\ queue'[i] = queue[i]
      BY <1>7, <1>11, <2>1, <2>2, SMT
    <3> QED
      BY <3>1, Zenon DEF Feed, NoSilentGap
  <2>3. CASE ~(i <= Len(queue))
    <3>1. i - Len(queue) \in 1..count /\ i - Len(queue) \in 1..Len(good)
      BY <1>6, <1>7, <1>9, <1>11, <2>1, <2>3, SMT
    <3>2. queue'[i] = Item(m, i - Len(queue))
      BY <1>10, <1>11, <2>1, <2>3, <3>1, Zenon
    <3> QED
      BY <1>8, <3>1, <3>2, Zenon
  <2> QED
    BY <2>2, <2>3
<1>15. CASE fits
  <2>1. \A a, b \in 0..MaxPublications :
          (marked \/ sent = a) /\ Link(Head(incoming), a, b) => marked' \/ sent' = b
    <3> SUFFICES ASSUME NEW a \in 0..MaxPublications, NEW b \in 0..MaxPublications,
                        Link(m, a, b), ~marked' PROVE sent' = b
      BY Zenon DEF m, Next1
    <3>1. m.first = a + 1 /\ b = a + m.members.size /\ a = f[0]
      BY <1>1, <1>4, <1>5, TypedSubscriptionAssumption, SMT DEF Link
    <3>2. count = Len(good)
      BY <1>15 DEF count
    <3>3. count # 0
      <4> SUFFICES ASSUME count = 0 PROVE HasBad(m)
        BY <1>1, Zenon
      <4> QED
        BY <1>6, <3>2, SMT DEF HasBad, good
    <3>4. count \in 1..Len(good)
      BY <1>6, <3>2, <3>3, SMT
    <3>5. ~(good[count] < m.members.size) /\ sent' = f[0] + good[count] /\ good[count] \in 1..m.members.size
      BY <1>1, <1>6, <1>8, <3>3, <3>4, Zenon
    <3> QED
      BY <1>4, <1>6, <3>1, <3>5, SMT
  <2> QED
    BY <1>1, <1>13, <1>14, <1>15, <2>1, FeedTaken
<1>16. CASE ~fits
  <2>1. loop' = "ended" /\ incoming' = <<>>
    BY <1>1, <1>16, Zenon DEF Overflows, Ended
  <2>2. SocketOK' /\ Continues'
    BY <2>1, TypedSubscriptionAssumption, SMT DEF SocketOK, Continues
  <2> QED
    BY <1>13, <1>14, <2>2 DEF Feed
<1> QED
  BY <1>15, <1>16

\* Every step keeps the feed.
LEMMA FeedStep ==
  ASSUME Feed, FlagsOK, Next
  PROVE  Feed'
<1> USE DEF feed
<1>0. ASSUME Ended \/ Retry PROVE loop' # "open" /\ incoming' = <<>>
  BY <1>0, SMT DEF Ended, Retry
<1>1. CASE \E expiring \in SUBSET Kinds : SetupDone(expiring)
  BY <1>1, SetupFeed
<1>2. CASE \E why \in {"ordinary", "refused", "overflow"} : SetupFails(why)
  BY <1>0, <1>2, FeedKept, Zenon DEF SetupFails
<1>3. CASE RetryOver
  <2>1. loop' # "open" /\ incoming' = <<>>
    BY <1>3, SMT DEF RetryOver, Feed, SocketOK
  <2> QED
    BY <1>3, <2>1, FeedKept, Zenon DEF RetryOver
<1>4. CASE ResumeStops \/ ConnectionFails \/ BadPublication \/ Unsubscribed \/ Close
  BY <1>0, <1>4, FeedKept, Zenon
     DEF ResumeStops, ConnectionFails, BadPublication, Unsubscribed, Close, Fails, ServerEnded
<1>5. CASE Publish
  BY <1>5, PublishFeed
<1>6. ASSUME NEW m \in Frames, m.kind \notin {"reply", "pub"}, Arrives(m), UNCHANGED <<loop, published, feed>>
      PROVE  Feed'
  <2>1. Link(m, published, published')
    BY <1>6, SMT DEF Link
  <2> QED
    BY <1>6, <2>1, FeedArrives DEF Feed, FeedOK
<1>7. CASE SendsError
  <2>1. [kind |-> "error"] \in [kind : {"bad", "error"}]
    BY SMT
  <2>2. [kind |-> "error"] \in Frames /\ [kind |-> "error"].kind \notin {"reply", "pub"}
    BY <2>1, SMT DEF Frames
  <2> QED
    BY <1>6, <1>7, <2>2, Zenon DEF SendsError
<1>8. ASSUME NEW temporary \in BOOLEAN, Unsubscribes(temporary) PROVE Feed'
  <2> DEFINE m == [kind |-> "unsubscribe", temporary |-> temporary]
  <2>1. m \in [kind : {"unsubscribe"}, temporary : BOOLEAN] /\ m.kind \notin {"reply", "pub"}
    BY SMT
  <2>2. m \in Frames
    BY <2>1, Zenon DEF Frames
  <2> QED
    BY <1>6, <1>8, <2>1, <2>2, Zenon DEF Unsubscribes
<1>9. ASSUME NEW id \in Ids, NEW refused \in BOOLEAN, NEW ttl \in BOOLEAN, Answers(id, refused, ttl)
      PROVE  Feed'
  <2> DEFINE m == [kind |-> "reply", id |-> id, refused |-> refused, ttl |-> ttl]
  <2>1. m \in [kind : {"reply"}, id : Ids, refused : BOOLEAN, ttl : BOOLEAN] /\ m.kind = "reply"
    BY Zenon
  <2>2. m \in Frames
    BY <2>1, Zenon DEF Frames
  <2>3. Arrives(m) /\ UNCHANGED <<loop, published, feed>>
    BY <1>9, Zenon DEF Answers
  <2> HIDE DEF m
  <2>4. Link(m, published, published')
    BY <2>1, <2>3, SMT DEF Link
  <2> QED
    BY <2>2, <2>3, <2>4, FeedArrives DEF Feed, FeedOK
<1>10. CASE Delivers
  BY <1>10, DeliversFeed
<1>11. CASE Reply
  BY <1>11, ReplyFeed
<1>12. CASE Renews
  BY <1>12, FeedKept, Zenon DEF Renews
<1>13. CASE Recv
  BY <1>13, RecvFeed
<1>14. CASE RecvEnd
  BY <1>14, FeedKept, Zenon DEF RecvEnd
<1> QED
  BY <1>1, <1>2, <1>3, <1>4, <1>5, <1>7, <1>8, <1>9, <1>10, <1>11, <1>12, <1>13, <1>14 DEF Next

\* The inductive invariant holds of every behaviour.
LEMMA InvHolds == Spec => []IInv
<1>1. Init => IInv
  <2> SUFFICES ASSUME Init PROVE IInv
    OBVIOUS
  <2>1. RenewerTypeOK
    BY SMT DEF Init, RenewerInit, RenewerTypeOK
  <2>2. FlagsOK /\ SocketOK /\ FeedOK
    <3>1. /\ auto \in BOOLEAN /\ loop = "setup" /\ ready = FALSE /\ resuming = FALSE /\ error = FALSE
          /\ queue = <<>> /\ incoming = <<>> /\ published = 0 /\ closed = FALSE /\ result = "none"
          /\ sent = 0 /\ marked = FALSE
      BY Zenon DEF Init
    <3>2. FlagsOK
      BY <3>1, Zenon DEF FlagsOK
    <3>3. <<>> \in Seq(Frames) /\ <<>> \in Seq(Items) /\ Len(<<>>) = 0 /\ 0 \in 0..MaxPublications
      BY TypedSubscriptionAssumption, SMT
    <3>4. 0 <= QueueSize /\ 0 <= MaxIncoming
      BY TypedSubscriptionAssumption, SMT
    <3> QED
      BY <3>1, <3>2, <3>3, <3>4, Zenon DEF SocketOK, FeedOK
  <2>3. NoSilentGap /\ Continues
    BY SMT DEF Init, NoSilentGap, Continues
  <2> QED
    BY <2>1, <2>2, <2>3 DEF IInv, Feed
<1>2. IInv /\ [Next]_vars => IInv'
  <2>1. CASE Next
    BY <2>1, FeedStep, FlagsStep, RenewerStep DEF IInv, Feed
  <2>2. CASE UNCHANGED vars
    <3>1. RenewerTypeOK => RenewerTypeOK'
      BY <2>2, Zenon DEF vars, renewer, RenewerTypeOK
    <3>2. FlagsOK => FlagsOK'
      BY <2>2, Zenon DEF vars, FlagsOK
    <3>3. Feed => Feed'
      BY <2>2, FeedKept, Zenon DEF vars
    <3> QED
      BY <3>1, <3>2, <3>3 DEF IInv
  <2> QED
    BY <2>1, <2>2
<1> QED
  BY <1>1, <1>2, PTL DEF Spec

\* Every variable keeps its type, and the queue its size.
THEOREM TypeCorrect == Spec => []TypeOK
<1>1. IInv => TypeOK
  BY DEF IInv, TypeOK, FlagsOK, Feed, SocketOK, FeedOK, Items
<1> QED
  BY <1>1, InvHolds, PTL

\* NoSilentGap holds of every behaviour: as long as a connection is open the
\* frames it holds go on where the queue stopped, or the consumer was told, so an
\* item is enqueued behind a gap only with its mark (mod.rs:721).
THEOREM NoSilentGapTheorem == Spec => []NoSilentGap
<1>1. IInv => NoSilentGap
  BY DEF IInv, Feed
<1> QED
  BY <1>1, InvHolds, PTL

-----------------------------------------------------------------------------
(* Renewal goes on *)

\* A kind is at one place of its chain at most.
Single(k) ==
  /\ ~(k \in due /\ k \in fetching)
  /\ k \in due \cup fetching => /\ \A i \in DOMAIN fetched : fetched[i].kind # k
                                /\ \A p \in pending : p.kind # k
  /\ \A i, j \in DOMAIN fetched : fetched[i].kind = k /\ fetched[j].kind = k => i = j
  /\ \A i \in DOMAIN fetched, p \in pending : ~(fetched[i].kind = k /\ p.kind = k)
  /\ \A p, q \in pending : p.kind = k /\ q.kind = k => p = q

\* It is at one place at least.
Linked(k) ==
  \/ k \in due \/ k \in fetching
  \/ \E i \in DOMAIN fetched : fetched[i].kind = k
  \/ \E p \in pending : p.kind = k

\* A token that expires is at one, unless its renewal was reported to fail.
Chained == \A k \in Kinds : Single(k) /\ (k \in expires /\ k \notin failed => Linked(k))

\* What the two say of the links.
LEMMA ChainedLinks ==
  ASSUME Chained, NEW k \in Kinds
  PROVE  /\ \A a, b \in Links(k) : a = b
         /\ k \in expires /\ k \notin failed => Links(k) # {}
<1>1. \A a \in Links(k) :
        \/ a = <<"due", 0>> /\ k \in due
        \/ a = <<"fetching", 0>> /\ k \in fetching
        \/ \E i \in DOMAIN fetched : a = <<"fetched", i>> /\ fetched[i].kind = k
        \/ \E p \in pending : a = <<"sent", p.id>> /\ p.kind = k
  BY Zenon DEF Links
<1>2. \A a, b \in Links(k) : a = b
  BY <1>1, Zenon DEF Chained, Single
<1>3. Linked(k) => Links(k) # {}
  <2>1. k \in due => <<"due", 0>> \in Links(k)
    BY Zenon DEF Links
  <2>2. k \in fetching => <<"fetching", 0>> \in Links(k)
    BY Zenon DEF Links
  <2>3. \A i \in DOMAIN fetched : fetched[i].kind = k => <<"fetched", i>> \in Links(k)
    BY Zenon DEF Links
  <2>4. \A p \in pending : p.kind = k => <<"sent", p.id>> \in Links(k)
    BY Zenon DEF Links
  <2> QED
    BY <2>1, <2>2, <2>3, <2>4, Zenon DEF Linked
<1> QED
  BY <1>2, <1>3 DEF Chained

\* A new connection schedules what expires.
LEMMA NewChained ==
  ASSUME NEW kinds, NewRenewer(kinds)
  PROVE  Chained'
BY SMT DEF NewRenewer, Chained, Single, Linked

\* What follows when the head of the fetched tokens is taken.
LEMMA FetchedTaken ==
  ASSUME fetched \in Seq([kind : Kinds, ok : BOOLEAN]), fetched # <<>>, fetched' = Tail(fetched)
  PROVE  /\ 1 \in DOMAIN fetched /\ Head(fetched) = fetched[1]
         /\ \A i \in DOMAIN fetched' : /\ i + 1 \in DOMAIN fetched /\ fetched'[i] = fetched[i + 1]
                                       /\ i + 1 # 1 /\ i \in Nat
         /\ \A i \in DOMAIN fetched : i = 1 \/ (i - 1 \in DOMAIN fetched' /\ fetched'[i - 1] = fetched[i])
<1>1. Len(fetched) \in Nat /\ Len(fetched) > 0 /\ DOMAIN fetched = 1..Len(fetched) /\ Head(fetched) = fetched[1]
  BY SMT
<1>2. /\ Tail(fetched) \in Seq([kind : Kinds, ok : BOOLEAN]) /\ Len(Tail(fetched)) = Len(fetched) - 1
      /\ \A i \in 1..Len(Tail(fetched)) : Tail(fetched)[i] = fetched[i + 1]
  BY HeadTailProperties
<1>3. DOMAIN fetched' = 1..(Len(fetched) - 1) /\ \A i \in 1..(Len(fetched) - 1) : fetched'[i] = fetched[i + 1]
  BY <1>2, SMT
<1> QED
  BY <1>1, <1>3, SMT

\* A renewal begins.
LEMMA StartChained ==
  ASSUME Chained, NEW kinds, StartDue(kinds)
  PROVE  Chained'
<1> SUFFICES ASSUME NEW k \in Kinds PROVE (Single(k) /\ (k \in expires /\ k \notin failed => Linked(k)))'
  BY DEF Chained
<1>1. /\ due' = due \ kinds /\ fetching' = fetching \cup kinds /\ kinds \subseteq due
      /\ UNCHANGED <<fetched, pending, expires, failed>>
  BY Zenon DEF StartDue
<1>2. Single(k) /\ (k \in expires /\ k \notin failed => Linked(k))
  BY DEF Chained
<1> QED
  BY <1>1, <1>2, Zenon DEF Single, Linked

\* A token was fetched, or was not.
LEMMA FetchEndsChained ==
  ASSUME RenewerTypeOK, Chained, NEW kind \in Kinds, NEW ok \in BOOLEAN, FetchEnds(kind, ok)
  PROVE  Chained'
<1> SUFFICES ASSUME NEW k \in Kinds PROVE (Single(k) /\ (k \in expires /\ k \notin failed => Linked(k)))'
  BY DEF Chained
<1> DEFINE n == Len(fetched) + 1
<1>1. /\ kind \in fetching /\ fetching' = fetching \ {kind}
      /\ fetched' = Append(fetched, [kind |-> kind, ok |-> ok])
      /\ UNCHANGED <<due, pending, expires, failed>>
  BY Zenon DEF FetchEnds
<1>2. /\ DOMAIN fetched' = DOMAIN fetched \cup {n} /\ n \notin DOMAIN fetched
      /\ fetched'[n].kind = kind /\ \A i \in DOMAIN fetched : fetched'[i] = fetched[i]
  BY <1>1, SMT DEF RenewerTypeOK
<1> HIDE DEF n
<1>3. Single(k) /\ (k \in expires /\ k \notin failed => Linked(k))
  BY DEF Chained
<1>4. Single(k)'
  <2>1. \A i \in DOMAIN fetched' : fetched'[i].kind = k =>
           \/ i \in DOMAIN fetched /\ fetched[i].kind = k /\ k \notin fetching
           \/ i = n /\ k \in fetching /\ kind = k
    BY <1>1, <1>2, <1>3, Zenon DEF Single
  <2>2. \A i, j \in DOMAIN fetched' : fetched'[i].kind = k /\ fetched'[j].kind = k => i = j
    BY <1>3, <2>1, Zenon DEF Single
  <2>3. k \in fetching => \A p \in pending : p.kind # k
    BY <1>3, Zenon DEF Single
  <2>4. \A i \in DOMAIN fetched, p \in pending : ~(fetched[i].kind = k /\ p.kind = k)
    BY <1>3, Zenon DEF Single
  <2>5. \A i \in DOMAIN fetched', p \in pending' : ~(fetched'[i].kind = k /\ p.kind = k)
    BY <1>1, <2>1, <2>3, <2>4, Zenon
  <2>6. k \in due' \cup fetching' => /\ \A i \in DOMAIN fetched' : fetched'[i].kind # k
                                     /\ \A p \in pending' : p.kind # k
    <3>1. k \in due' \cup fetching' => k \in due \/ (k \in fetching /\ k # kind)
      BY <1>1, Zenon
    <3>2. k \in due => k \notin fetching
      BY <1>3, Zenon DEF Single
    <3>3. k \in due \cup fetching => /\ \A i \in DOMAIN fetched : fetched[i].kind # k
                                    /\ \A p \in pending : p.kind # k
      BY <1>3, Zenon DEF Single
    <3> QED
      BY <1>1, <2>1, <3>1, <3>2, <3>3, Zenon
  <2>7. ~(k \in due' /\ k \in fetching') /\ \A p, q \in pending' : p.kind = k /\ q.kind = k => p = q
    BY <1>1, <1>3, Zenon DEF Single
  <2> QED
    BY <2>2, <2>5, <2>6, <2>7, Zenon DEF Single
<1>5. Linked(k) => Linked(k)'
  BY <1>1, <1>2, Zenon DEF Linked
<1> QED
  BY <1>1, <1>3, <1>4, <1>5, Zenon

\* A fetched token is presented.
LEMMA PresentChained ==
  ASSUME RenewerTypeOK, Chained, Present
  PROVE  Chained'
<1> SUFFICES ASSUME NEW k \in Kinds PROVE (Single(k) /\ (k \in expires /\ k \notin failed => Linked(k)))'
  BY DEF Chained
<1>1. PICK id : pending' = pending \cup {[id |-> id, kind |-> Head(fetched).kind]}
  BY Zenon DEF Present
<1> DEFINE new == [id |-> id, kind |-> Head(fetched).kind]
<1>2. new.kind = Head(fetched).kind /\ pending' = pending \cup {new}
  BY <1>1
<1> HIDE DEF new
<1>3. fetched # <<>> /\ fetched' = Tail(fetched) /\ UNCHANGED <<due, fetching, expires, failed>>
  BY Zenon DEF Present
<1>4. /\ 1 \in DOMAIN fetched /\ Head(fetched) = fetched[1]
      /\ \A i \in DOMAIN fetched' : /\ i + 1 \in DOMAIN fetched /\ fetched'[i] = fetched[i + 1]
                                    /\ i + 1 # 1 /\ i \in Nat
      /\ \A i \in DOMAIN fetched : i = 1 \/ (i - 1 \in DOMAIN fetched' /\ fetched'[i - 1] = fetched[i])
  BY <1>3, FetchedTaken DEF RenewerTypeOK
<1>5. Single(k) /\ (k \in expires /\ k \notin failed => Linked(k))
  BY DEF Chained
<1>6. Single(k)'
  <2>1. \A i, j \in DOMAIN fetched' : i + 1 = j + 1 => i = j
    BY <1>4, SMT
  <2>2. \A i \in DOMAIN fetched' : fetched'[i].kind = k => fetched[i + 1].kind = k /\ fetched[1].kind # k
    BY <1>4, <1>5, Zenon DEF Single
  <2>3. \A p \in pending' : p.kind = k =>
           \/ p \in pending /\ \A i \in DOMAIN fetched : fetched[i].kind # k
           \/ p = new /\ fetched[1].kind = k
    BY <1>2, <1>4, <1>5, Zenon DEF Single
  <2>4. k \in due' \cup fetching' => /\ \A i \in DOMAIN fetched : fetched[i].kind # k
                                     /\ \A p \in pending : p.kind # k
    BY <1>3, <1>5, Zenon DEF Single
  <2>5. \A i, j \in DOMAIN fetched' : fetched'[i].kind = k /\ fetched'[j].kind = k => i = j
    BY <1>4, <1>5, <2>1, <2>2, Zenon DEF Single
  <2>6. \A i \in DOMAIN fetched', p \in pending' : ~(fetched'[i].kind = k /\ p.kind = k)
    BY <1>4, <2>2, <2>3, Zenon
  <2>7. \A p, q \in pending' : p.kind = k /\ q.kind = k => p = q
    BY <1>4, <1>5, <2>3, Zenon DEF Single
  <2>8. k \in due' \cup fetching' => /\ \A i \in DOMAIN fetched' : fetched'[i].kind # k
                                     /\ \A p \in pending' : p.kind # k
    BY <1>4, <2>2, <2>3, <2>4, Zenon
  <2>9. ~(k \in due' /\ k \in fetching')
    BY <1>3, <1>5, Zenon DEF Single
  <2> QED
    BY <2>5, <2>6, <2>7, <2>8, <2>9, Zenon DEF Single
<1>7. Linked(k) => Linked(k)'
  BY <1>2, <1>3, <1>4, Zenon DEF Linked
<1> QED
  BY <1>3, <1>5, <1>6, <1>7, Zenon

\* A token could not be fetched, which is reported.
LEMMA FetchFailedChained ==
  ASSUME RenewerTypeOK, Chained, FetchFailed
  PROVE  Chained'
<1> SUFFICES ASSUME NEW k \in Kinds PROVE (Single(k) /\ (k \in expires /\ k \notin failed => Linked(k)))'
  BY DEF Chained
<1>3. /\ fetched # <<>> /\ fetched' = Tail(fetched) /\ failed' = failed \cup {Head(fetched).kind}
      /\ UNCHANGED <<due, fetching, expires, pending>>
  BY Zenon DEF FetchFailed
<1>4. /\ 1 \in DOMAIN fetched /\ Head(fetched) = fetched[1]
      /\ \A i \in DOMAIN fetched' : /\ i + 1 \in DOMAIN fetched /\ fetched'[i] = fetched[i + 1]
                                    /\ i + 1 # 1 /\ i \in Nat
      /\ \A i \in DOMAIN fetched : i = 1 \/ (i - 1 \in DOMAIN fetched' /\ fetched'[i - 1] = fetched[i])
  BY <1>3, FetchedTaken DEF RenewerTypeOK
<1>5. Single(k) /\ (k \in expires /\ k \notin failed => Linked(k))
  BY DEF Chained
<1>6. Single(k)'
  <2>1. \A i, j \in DOMAIN fetched' : i + 1 = j + 1 => i = j
    BY <1>4, SMT
  <2>2. \A i \in DOMAIN fetched' : fetched'[i].kind = k => fetched[i + 1].kind = k
    BY <1>4, Zenon
  <2>3. \A i, j \in DOMAIN fetched' : fetched'[i].kind = k /\ fetched'[j].kind = k => i = j
    BY <1>4, <1>5, <2>1, <2>2, Zenon DEF Single
  <2>4. \A i \in DOMAIN fetched', p \in pending' : ~(fetched'[i].kind = k /\ p.kind = k)
    <3>1. \A i \in DOMAIN fetched, p \in pending : ~(fetched[i].kind = k /\ p.kind = k)
      BY <1>5, Zenon DEF Single
    <3>2. pending' = pending
      BY <1>3
    <3> QED
      BY <1>4, <2>2, <3>1, <3>2, Zenon
  <2>5. k \in due' \cup fetching' => /\ \A i \in DOMAIN fetched' : fetched'[i].kind # k
                                     /\ \A p \in pending' : p.kind # k
    BY <1>3, <1>4, <1>5, <2>2, Zenon DEF Single
  <2> QED
    BY <1>3, <1>5, <2>3, <2>4, <2>5, Zenon DEF Single
<1>7. Linked(k) /\ k \notin failed' => Linked(k)'
  BY <1>3, <1>4, Zenon DEF Linked
<1> QED
  BY <1>3, <1>5, <1>6, <1>7, Zenon

\* The answer to a renewal.
LEMMA TakeReplyChained ==
  ASSUME Chained, NEW p \in pending, NEW refused, NEW ttl, TakeReply(p, refused, ttl)
  PROVE  Chained'
<1> SUFFICES ASSUME NEW k \in Kinds PROVE (Single(k) /\ (k \in expires /\ k \notin failed => Linked(k)))'
  BY DEF Chained
<1>1. /\ pending' = pending \ {p} /\ failed' = IF refused THEN failed \cup {p.kind} ELSE failed
      /\ due' = IF ~refused /\ ttl THEN due \cup {p.kind} ELSE due
      /\ expires' = IF ~refused /\ ~ttl THEN expires \ {p.kind} ELSE expires
      /\ UNCHANGED <<fetching, fetched>>
  BY Zenon DEF TakeReply
<1>2. Single(k) /\ (k \in expires /\ k \notin failed => Linked(k))
  BY DEF Chained
<1>3. CASE p.kind # k
  BY <1>1, <1>2, <1>3, Zenon DEF Single, Linked
<1>4. CASE p.kind = k
  <2>1. /\ k \notin due /\ k \notin fetching /\ \A i \in DOMAIN fetched : fetched[i].kind # k
        /\ \A q \in pending' : q.kind # k
    BY <1>1, <1>2, <1>4, Zenon DEF Single
  <2>2. Single(k)'
    BY <1>1, <2>1, Zenon DEF Single
  <2>3. k \in expires' /\ k \notin failed' => k \in due'
    BY <1>1, <1>4, Zenon
  <2> QED
    BY <2>2, <2>3, Zenon DEF Linked
<1> QED
  BY <1>3, <1>4

\* Every step keeps the chains of an open connection.
LEMMA RenewalStep ==
  ASSUME RenewerTypeOK, loop = "open" => Chained, [Next]_vars
  PROVE  (loop = "open" => Chained)'
<1>0. ASSUME loop = "open", UNCHANGED <<due, fetching, fetched, pending, expires, failed>> PROVE Chained'
  <2> SUFFICES ASSUME NEW k \in Kinds PROVE (Single(k) /\ (k \in expires /\ k \notin failed => Linked(k)))'
    BY DEF Chained
  <2>1. Single(k) /\ (k \in expires /\ k \notin failed => Linked(k))
    BY <1>0 DEF Chained
  <2>2. Single(k)'
    BY <1>0, <2>1, Zenon DEF Single
  <2>3. Linked(k) => Linked(k)'
    BY <1>0, Zenon DEF Linked
  <2> QED
    BY <1>0, <2>1, <2>2, <2>3, Zenon
<1>1. ASSUME Ended \/ Retry PROVE loop' # "open"
  BY <1>1, SMT DEF Ended, Retry
<1>2. ASSUME loop' = loop, UNCHANGED <<due, fetching, fetched, pending, expires, failed>>
      PROVE  (loop = "open" => Chained)'
  BY <1>0, <1>2, Zenon
<1>3. CASE \E expiring \in SUBSET Kinds : SetupDone(expiring)
  BY <1>3, NewChained, Zenon DEF SetupDone
<1>4. CASE \E why \in {"ordinary", "refused", "overflow"} : SetupFails(why)
  BY <1>1, <1>4, Zenon DEF SetupFails
<1>5. CASE RetryOver
  BY <1>5, SMT DEF RetryOver
<1>6. CASE ResumeStops \/ ConnectionFails \/ BadPublication \/ Unsubscribed \/ Close
  BY <1>1, <1>6, Zenon DEF ResumeStops, ConnectionFails, BadPublication, Unsubscribed, Close, Fails, ServerEnded
<1>7. CASE Publish \/ SendsError \/ \E temporary \in BOOLEAN : Unsubscribes(temporary)
  BY <1>2, <1>7, Zenon DEF Publish, SendsError, Unsubscribes, renewer
<1>8. CASE \E id \in Ids, refused, ttl \in BOOLEAN : Answers(id, refused, ttl)
  BY <1>2, <1>8, Zenon DEF Answers
<1>9. CASE Delivers
  BY <1>1, <1>2, <1>9, Zenon DEF Delivers, Overflows, renewer
<1>10. CASE Reply
  <2>1. PICK p \in pending : TakeReply(p, Next1.refused, Next1.ttl)
    BY <1>10, Zenon DEF Reply
  <2> QED
    BY <1>10, <2>1, TakeReplyChained, Zenon DEF Reply
<1>11. CASE Renews
  <2>1. loop' = loop
    BY <1>11, Zenon DEF Renews
  <2> SUFFICES ASSUME loop = "open" PROVE Chained'
    BY <2>1
  <2>2. CASE \E kinds \in SUBSET Kinds : StartDue(kinds)
    BY <2>2, StartChained
  <2>3. CASE \E kind \in Kinds, ok \in BOOLEAN : FetchEnds(kind, ok)
    BY <2>3, FetchEndsChained
  <2> QED
    BY <1>11, <2>2, <2>3, PresentChained, FetchFailedChained DEF Renews
<1>12. CASE Recv \/ RecvEnd \/ UNCHANGED vars
  BY <1>2, <1>12, Zenon DEF Recv, RecvEnd, vars, renewer
<1> QED
  BY <1>3, <1>4, <1>5, <1>6, <1>7, <1>8, <1>9, <1>10, <1>11, <1>12 DEF Next

\* RenewalGoesOn holds of every behaviour, for any kinds of tokens: each event of
\* a renewal moves its kind to the next place of the chain or reports it failed.
THEOREM RenewalTheorem == Spec => []RenewalGoesOn
<1>1. Init => (loop = "open" => Chained)
  BY SMT DEF Init
<1>2. IInv /\ (loop = "open" => Chained) /\ [Next]_vars => (loop = "open" => Chained)'
  BY RenewalStep DEF IInv
<1>3. (loop = "open" => Chained) => RenewalGoesOn
  BY ChainedLinks DEF RenewalGoesOn
<1> QED
  BY <1>1, <1>2, <1>3, InvHolds, PTL DEF Spec

-----------------------------------------------------------------------------
(* The catalogs *)

\* Assigning a member of the range keeps a function in its function set.
LEMMA UpdateType ==
  ASSUME NEW D, NEW E, NEW f \in [D -> E], NEW d, NEW e \in E
  PROVE  [f EXCEPT ![d] = e] \in [D -> E]
OBVIOUS

\* The initial states satisfy the invariant.
LEMMA InitIInv == CatalogInit => CatalogIInv
<1> SUFFICES ASSUME CatalogInit PROVE CatalogIInv
  OBVIOUS
<1> USE CatalogAssumption
<1>1. CatalogTypeOK
  <2>1. pc \in [Tasks -> Places]
    BY DEF CatalogInit, Places
  <2>2. op \in [Tasks -> Ops]
    BY DEF CatalogInit, Ops
  <2>3. Nothing \in Fetched
    BY DEF Nothing, Fetched
  <2>4. got \in [Tasks -> Fetched]
    BY <2>3 DEF CatalogInit
  <2>5. returned \in [Tasks -> {"none", "ok", "error"}]
    BY DEF CatalogInit
  <2>6. /\ version \in 1..MaxVersion /\ spot \in 0..MaxVersion /\ zipper \in 0..MaxVersion
        /\ calls \in 0..MaxCalls
    BY DEF CatalogInit
  <2>7. /\ cell \in {"empty", "ok", "error"} /\ lastError \in BOOLEAN
        /\ permit \in Tasks \cup {NoTask} /\ lock \in Tasks \cup {NoTask}
    BY DEF CatalogInit
  <2>8. enabled \in BOOLEAN
    BY DEF CatalogInit
  <2> QED
    BY <2>1, <2>2, <2>4, <2>5, <2>6, <2>7, <2>8 DEF CatalogTypeOK
<1>2. OneAttempt
  BY DEF CatalogInit, OneAttempt, Attempting
<1>3. Initialisers
  BY DEF CatalogInit, Initialisers, Attempting
<1>4. FetchedIsNewer
  BY DEF CatalogInit, FetchedIsNewer, Nothing, Attempting
<1>5. OkIsReady /\ FailureIsExplained /\ OkMeansReady
  BY DEF CatalogInit, OkIsReady, FailureIsExplained, OkMeansReady
<1> QED
  BY <1>1, <1>2, <1>3, <1>4, <1>5 DEF CatalogIInv

\* A call starts with nothing fetched.
LEMMA NothingFetched == Nothing \in Fetched /\ Nothing.spot = 0 /\ Nothing.zipper = 0
BY CatalogAssumption DEF Nothing, Fetched

\* A fetched version is recorded with the other half of the attempt.
LEMMA GotType ==
  ASSUME CatalogTypeOK, NEW t \in Tasks, NEW v \in 0..MaxVersion
  PROVE  /\ [got EXCEPT ![t].spot = v] \in [Tasks -> Fetched]
         /\ [got EXCEPT ![t].zipper = v] \in [Tasks -> Fetched]
<1>1. got[t] \in Fetched
  BY DEF CatalogTypeOK
<1>2. [got[t] EXCEPT !.spot = v] \in Fetched /\ [got[t] EXCEPT !.zipper = v] \in Fetched
  BY <1>1 DEF Fetched
<1> QED
  BY <1>2, UpdateType DEF CatalogTypeOK

\* A new call starts at its first look.
LEMMA CallIInv ==
  ASSUME CatalogIInv, NEW t \in Tasks, NEW o \in Ops \ {"init"}, Call(t, o)
  PROVE  CatalogIInv'
<1> USE DEF Call, GoTo, Return, catalogs, shared, call
<1>0. CatalogTypeOK
  BY DEF CatalogIInv
<1>1. CatalogTypeOK'
  <2>1. pc' \in [Tasks -> Places]
    BY <1>0, UpdateType DEF CatalogTypeOK, Places, Attempting
  <2>2. op' \in [Tasks -> Ops]
    BY <1>0, UpdateType DEF CatalogTypeOK, Ops
  <2>3. got' \in [Tasks -> Fetched]
    BY <1>0, UpdateType, GotType DEF CatalogTypeOK
  <2>4. returned' \in [Tasks -> {"none", "ok", "error"}]
    BY <1>0, UpdateType DEF CatalogTypeOK
  <2>5. /\ version' \in 1..MaxVersion /\ spot' \in 0..MaxVersion /\ zipper' \in 0..MaxVersion
        /\ calls' \in 0..MaxCalls
    BY <1>0, CatalogAssumption DEF CatalogTypeOK
  <2>6. /\ cell' \in {"empty", "ok", "error"} /\ lastError' \in BOOLEAN
        /\ permit' \in Tasks \cup {NoTask} /\ lock' \in Tasks \cup {NoTask}
    BY <1>0 DEF CatalogTypeOK
  <2>7. enabled' \in BOOLEAN
    BY <1>0 DEF CatalogTypeOK
  <2> QED
    BY <2>1, <2>2, <2>3, <2>4, <2>5, <2>6, <2>7 DEF CatalogTypeOK
<1>2. OneAttempt'
  BY <1>0, CatalogAssumption DEF CatalogIInv, CatalogTypeOK, OneAttempt, Attempting
<1>3. Initialisers'
  BY <1>0, CatalogAssumption DEF CatalogIInv, CatalogTypeOK, Initialisers, Attempting
<1>4. FetchedIsNewer'
  BY <1>0 DEF CatalogIInv, CatalogTypeOK, FetchedIsNewer, OneAttempt, Attempting, Fetched
<1>5. OkIsReady'
  BY <1>0 DEF CatalogIInv, CatalogTypeOK, OkIsReady, IsReady
<1>6. FailureIsExplained'
  BY <1>0 DEF CatalogIInv, CatalogTypeOK, FailureIsExplained, IsReady
<1>7. OkMeansReady'
  BY <1>0 DEF CatalogIInv, CatalogTypeOK, OkMeansReady, OkIsReady, IsReady
<1> QED
  BY <1>1, <1>2, <1>3, <1>4, <1>5, <1>6, <1>7 DEF CatalogIInv

\* A look at the catalogs changes only the caller.
LEMMA CheckIInv ==
  ASSUME CatalogIInv, NEW t \in Tasks, Check(t)
  PROVE  CatalogIInv'
<1> USE DEF Check, GoTo, Return, catalogs, shared, call
<1>0. CatalogTypeOK
  BY DEF CatalogIInv
<1>1. CatalogTypeOK'
  <2>1. pc' \in [Tasks -> Places]
    BY <1>0, UpdateType DEF CatalogTypeOK, Places, Attempting
  <2>2. op' \in [Tasks -> Ops]
    BY <1>0, UpdateType DEF CatalogTypeOK, Ops
  <2>3. got' \in [Tasks -> Fetched]
    BY <1>0, UpdateType, GotType DEF CatalogTypeOK
  <2>4. returned' \in [Tasks -> {"none", "ok", "error"}]
    BY <1>0, UpdateType DEF CatalogTypeOK
  <2>5. /\ version' \in 1..MaxVersion /\ spot' \in 0..MaxVersion /\ zipper' \in 0..MaxVersion
        /\ calls' \in 0..MaxCalls
    BY <1>0, CatalogAssumption DEF CatalogTypeOK
  <2>6. /\ cell' \in {"empty", "ok", "error"} /\ lastError' \in BOOLEAN
        /\ permit' \in Tasks \cup {NoTask} /\ lock' \in Tasks \cup {NoTask}
    BY <1>0 DEF CatalogTypeOK
  <2>7. enabled' \in BOOLEAN
    BY <1>0 DEF CatalogTypeOK
  <2> QED
    BY <2>1, <2>2, <2>3, <2>4, <2>5, <2>6, <2>7 DEF CatalogTypeOK
<1>2. OneAttempt'
  BY <1>0, CatalogAssumption DEF CatalogIInv, CatalogTypeOK, OneAttempt, Attempting
<1>3. Initialisers'
  BY <1>0, CatalogAssumption DEF CatalogIInv, CatalogTypeOK, Initialisers, Attempting
<1>4. FetchedIsNewer'
  BY <1>0 DEF CatalogIInv, CatalogTypeOK, FetchedIsNewer, OneAttempt, Attempting, Fetched
<1>5. OkIsReady'
  BY <1>0 DEF CatalogIInv, CatalogTypeOK, OkIsReady, IsReady
<1>6. FailureIsExplained'
  BY <1>0 DEF CatalogIInv, CatalogTypeOK, FailureIsExplained, IsReady
<1>7. OkMeansReady'
  <2>0. op' = op /\ enabled' = enabled /\ IsReady' = IsReady
    BY DEF IsReady
  <2>1. op[t] # "hydrate"
    BY DEF CatalogIInv, OkIsReady
  <2>2. returned' = returned \/ returned' = [returned EXCEPT ![t] = "ok"]
    OBVIOUS
  <2>3. \A u \in Tasks : returned'[u] = "ok" => returned[u] = "ok" \/ (u = t /\ returned'[t] = "ok")
    BY <1>0, <2>2 DEF CatalogTypeOK
  <2>4. returned'[t] = "ok" /\ ~(returned[t] = "ok") => ~enabled \/ IsReady
    BY <1>0, <2>2
  <2> QED
    BY <2>0, <2>1, <2>3, <2>4 DEF CatalogIInv, OkMeansReady
<1> QED
  BY <1>1, <1>2, <1>3, <1>4, <1>5, <1>6, <1>7 DEF CatalogIInv

\* A look at the cell changes only the caller.
LEMMA LookAtCellIInv ==
  ASSUME CatalogIInv, NEW t \in Tasks, LookAtCell(t)
  PROVE  CatalogIInv'
<1> USE DEF LookAtCell, GoTo, Return, catalogs, shared, call
<1>0. CatalogTypeOK
  BY DEF CatalogIInv
<1>1. CatalogTypeOK'
  <2>1. pc' \in [Tasks -> Places]
    BY <1>0, UpdateType DEF CatalogTypeOK, Places, Attempting
  <2>2. op' \in [Tasks -> Ops]
    BY <1>0, UpdateType DEF CatalogTypeOK, Ops
  <2>3. got' \in [Tasks -> Fetched]
    BY <1>0, UpdateType, GotType DEF CatalogTypeOK
  <2>4. returned' \in [Tasks -> {"none", "ok", "error"}]
    BY <1>0, UpdateType DEF CatalogTypeOK
  <2>5. /\ version' \in 1..MaxVersion /\ spot' \in 0..MaxVersion /\ zipper' \in 0..MaxVersion
        /\ calls' \in 0..MaxCalls
    BY <1>0, CatalogAssumption DEF CatalogTypeOK
  <2>6. /\ cell' \in {"empty", "ok", "error"} /\ lastError' \in BOOLEAN
        /\ permit' \in Tasks \cup {NoTask} /\ lock' \in Tasks \cup {NoTask}
    BY <1>0 DEF CatalogTypeOK
  <2>7. enabled' \in BOOLEAN
    BY <1>0 DEF CatalogTypeOK
  <2> QED
    BY <2>1, <2>2, <2>3, <2>4, <2>5, <2>6, <2>7 DEF CatalogTypeOK
<1>2. OneAttempt'
  BY <1>0, CatalogAssumption DEF CatalogIInv, CatalogTypeOK, OneAttempt, Attempting
<1>3. Initialisers'
  BY <1>0, CatalogAssumption DEF CatalogIInv, CatalogTypeOK, Initialisers, Attempting
<1>4. FetchedIsNewer'
  BY <1>0 DEF CatalogIInv, CatalogTypeOK, FetchedIsNewer, OneAttempt, Attempting, Fetched
<1>5. OkIsReady'
  BY <1>0 DEF CatalogIInv, CatalogTypeOK, OkIsReady, IsReady
<1>6. FailureIsExplained'
  BY <1>0 DEF CatalogIInv, CatalogTypeOK, FailureIsExplained, IsReady
<1>7. OkMeansReady'
  BY <1>0 DEF CatalogIInv, CatalogTypeOK, OkMeansReady, OkIsReady, IsReady
<1> QED
  BY <1>1, <1>2, <1>3, <1>4, <1>5, <1>6, <1>7 DEF CatalogIInv

\* The permit goes to one caller while the cell is empty.
LEMMA InitialiseIInv ==
  ASSUME CatalogIInv, NEW t \in Tasks, Initialise(t)
  PROVE  CatalogIInv'
<1> USE DEF Initialise, GoTo, Return, catalogs, shared, call
<1>0. CatalogTypeOK
  BY DEF CatalogIInv
<1>1. CatalogTypeOK'
  <2>1. pc' \in [Tasks -> Places]
    BY <1>0, UpdateType DEF CatalogTypeOK, Places, Attempting
  <2>2. op' \in [Tasks -> Ops]
    BY <1>0, UpdateType DEF CatalogTypeOK, Ops
  <2>3. got' \in [Tasks -> Fetched]
    BY <1>0, UpdateType, GotType DEF CatalogTypeOK
  <2>4. returned' \in [Tasks -> {"none", "ok", "error"}]
    BY <1>0, UpdateType DEF CatalogTypeOK
  <2>5. /\ version' \in 1..MaxVersion /\ spot' \in 0..MaxVersion /\ zipper' \in 0..MaxVersion
        /\ calls' \in 0..MaxCalls
    BY <1>0, CatalogAssumption DEF CatalogTypeOK
  <2>6. /\ cell' \in {"empty", "ok", "error"} /\ lastError' \in BOOLEAN
        /\ permit' \in Tasks \cup {NoTask} /\ lock' \in Tasks \cup {NoTask}
    BY <1>0 DEF CatalogTypeOK
  <2>7. enabled' \in BOOLEAN
    BY <1>0 DEF CatalogTypeOK
  <2> QED
    BY <2>1, <2>2, <2>3, <2>4, <2>5, <2>6, <2>7 DEF CatalogTypeOK
<1>2. OneAttempt'
  BY <1>0, CatalogAssumption DEF CatalogIInv, CatalogTypeOK, OneAttempt, Attempting
<1>3. Initialisers'
  BY <1>0, CatalogAssumption DEF CatalogIInv, CatalogTypeOK, Initialisers, Attempting
<1>4. FetchedIsNewer'
  BY <1>0 DEF CatalogIInv, CatalogTypeOK, FetchedIsNewer, OneAttempt, Attempting, Fetched
<1>5. OkIsReady'
  BY <1>0 DEF CatalogIInv, CatalogTypeOK, OkIsReady, IsReady
<1>6. FailureIsExplained'
  BY <1>0 DEF CatalogIInv, CatalogTypeOK, FailureIsExplained, IsReady
<1>7. OkMeansReady'
  BY <1>0 DEF CatalogIInv, CatalogTypeOK, OkMeansReady, OkIsReady, IsReady
<1> QED
  BY <1>1, <1>2, <1>3, <1>4, <1>5, <1>6, <1>7 DEF CatalogIInv

\* An order call changes only itself.
LEMMA PollIInv ==
  ASSUME CatalogIInv, NEW t \in Tasks, Poll(t)
  PROVE  CatalogIInv'
<1> USE DEF Poll, GoTo, Return, catalogs, shared, call
<1>0. CatalogTypeOK
  BY DEF CatalogIInv
<1>1. CatalogTypeOK'
  <2>1. pc' \in [Tasks -> Places]
    BY <1>0, UpdateType DEF CatalogTypeOK, Places, Attempting
  <2>2. op' \in [Tasks -> Ops]
    BY <1>0, UpdateType DEF CatalogTypeOK, Ops
  <2>3. got' \in [Tasks -> Fetched]
    BY <1>0, UpdateType, GotType DEF CatalogTypeOK
  <2>4. returned' \in [Tasks -> {"none", "ok", "error"}]
    BY <1>0, UpdateType DEF CatalogTypeOK
  <2>5. /\ version' \in 1..MaxVersion /\ spot' \in 0..MaxVersion /\ zipper' \in 0..MaxVersion
        /\ calls' \in 0..MaxCalls
    BY <1>0, CatalogAssumption DEF CatalogTypeOK
  <2>6. /\ cell' \in {"empty", "ok", "error"} /\ lastError' \in BOOLEAN
        /\ permit' \in Tasks \cup {NoTask} /\ lock' \in Tasks \cup {NoTask}
    BY <1>0 DEF CatalogTypeOK
  <2>7. enabled' \in BOOLEAN
    BY <1>0 DEF CatalogTypeOK
  <2> QED
    BY <2>1, <2>2, <2>3, <2>4, <2>5, <2>6, <2>7 DEF CatalogTypeOK
<1>2. OneAttempt'
  BY <1>0, CatalogAssumption DEF CatalogIInv, CatalogTypeOK, OneAttempt, Attempting
<1>3. Initialisers'
  BY <1>0, CatalogAssumption DEF CatalogIInv, CatalogTypeOK, Initialisers, Attempting
<1>4. FetchedIsNewer'
  BY <1>0 DEF CatalogIInv, CatalogTypeOK, FetchedIsNewer, OneAttempt, Attempting, Fetched
<1>5. OkIsReady'
  BY <1>0 DEF CatalogIInv, CatalogTypeOK, OkIsReady, IsReady
<1>6. FailureIsExplained'
  BY <1>0 DEF CatalogIInv, CatalogTypeOK, FailureIsExplained, IsReady
<1>7. OkMeansReady'
  BY <1>0 DEF CatalogIInv, CatalogTypeOK, OkMeansReady, OkIsReady, IsReady
<1> QED
  BY <1>1, <1>2, <1>3, <1>4, <1>5, <1>6, <1>7 DEF CatalogIInv

\* The lock goes to one attempt, which has fetched nothing yet.
LEMMA LockIInv ==
  ASSUME CatalogIInv, NEW t \in Tasks, Lock(t)
  PROVE  CatalogIInv'
<1> USE DEF Lock, GoTo, Return, catalogs, shared, call, CanLock
<1>0. CatalogTypeOK
  BY DEF CatalogIInv
<1>1. CatalogTypeOK'
  <2>1. pc' \in [Tasks -> Places]
    BY <1>0, UpdateType DEF CatalogTypeOK, Places, Attempting
  <2>2. op' \in [Tasks -> Ops]
    BY <1>0, UpdateType DEF CatalogTypeOK, Ops
  <2>3. got' \in [Tasks -> Fetched]
    BY <1>0, UpdateType, NothingFetched DEF CatalogTypeOK
  <2>4. returned' \in [Tasks -> {"none", "ok", "error"}]
    BY <1>0, UpdateType DEF CatalogTypeOK
  <2>5. /\ version' \in 1..MaxVersion /\ spot' \in 0..MaxVersion /\ zipper' \in 0..MaxVersion
        /\ calls' \in 0..MaxCalls
    BY <1>0, CatalogAssumption DEF CatalogTypeOK
  <2>6. /\ cell' \in {"empty", "ok", "error"} /\ lastError' \in BOOLEAN
        /\ permit' \in Tasks \cup {NoTask} /\ lock' \in Tasks \cup {NoTask}
    BY <1>0 DEF CatalogTypeOK
  <2>7. enabled' \in BOOLEAN
    BY <1>0 DEF CatalogTypeOK
  <2> QED
    BY <2>1, <2>2, <2>3, <2>4, <2>5, <2>6, <2>7 DEF CatalogTypeOK
<1>2. OneAttempt'
  BY <1>0, CatalogAssumption DEF CatalogIInv, CatalogTypeOK, OneAttempt, Attempting
<1>3. Initialisers'
  BY <1>0, CatalogAssumption DEF CatalogIInv, CatalogTypeOK, Initialisers, Attempting
<1>4. FetchedIsNewer'
  <2>1. /\ \A u \in Tasks : got'[u] = IF u = t THEN Nothing ELSE got[u]
        /\ \A u \in Tasks : u # t => pc'[u] = pc[u]
        /\ spot' = spot /\ zipper' = zipper /\ version' = version
    BY <1>0 DEF CatalogTypeOK
  <2>2. version \in Nat /\ version >= 0
    BY <1>0, CatalogAssumption DEF CatalogTypeOK
  <2> QED
    BY <2>1, <2>2, NothingFetched DEF CatalogIInv, FetchedIsNewer
<1>5. OkIsReady'
  BY <1>0 DEF CatalogIInv, CatalogTypeOK, OkIsReady, IsReady
<1>6. FailureIsExplained'
  BY <1>0 DEF CatalogIInv, CatalogTypeOK, FailureIsExplained, IsReady
<1>7. OkMeansReady'
  BY <1>0 DEF CatalogIInv, CatalogTypeOK, OkMeansReady, OkIsReady, IsReady
<1> QED
  BY <1>1, <1>2, <1>3, <1>4, <1>5, <1>6, <1>7 DEF CatalogIInv

\* What is fetched is the server's version, at least the installed one.
LEMMA FetchSpotIInv ==
  ASSUME CatalogIInv, NEW t \in Tasks, NEW ok \in BOOLEAN, FetchSpot(t, ok)
  PROVE  CatalogIInv'
<1> USE DEF FetchSpot, GoTo, Return, catalogs, shared, call
<1>0. CatalogTypeOK
  BY DEF CatalogIInv
<1>1. CatalogTypeOK'
  <2>1. pc' \in [Tasks -> Places]
    BY <1>0, UpdateType DEF CatalogTypeOK, Places, Attempting
  <2>2. op' \in [Tasks -> Ops]
    BY <1>0, UpdateType DEF CatalogTypeOK, Ops
  <2>3. got' \in [Tasks -> Fetched]
    <3>1. (IF ok THEN version ELSE 0) \in 0..MaxVersion
      BY <1>0, CatalogAssumption DEF CatalogTypeOK
    <3> QED
      BY <1>0, <3>1, GotType
  <2>4. returned' \in [Tasks -> {"none", "ok", "error"}]
    BY <1>0, UpdateType DEF CatalogTypeOK
  <2>5. /\ version' \in 1..MaxVersion /\ spot' \in 0..MaxVersion /\ zipper' \in 0..MaxVersion
        /\ calls' \in 0..MaxCalls
    BY <1>0, CatalogAssumption DEF CatalogTypeOK
  <2>6. /\ cell' \in {"empty", "ok", "error"} /\ lastError' \in BOOLEAN
        /\ permit' \in Tasks \cup {NoTask} /\ lock' \in Tasks \cup {NoTask}
    BY <1>0 DEF CatalogTypeOK
  <2>7. enabled' \in BOOLEAN
    BY <1>0 DEF CatalogTypeOK
  <2> QED
    BY <2>1, <2>2, <2>3, <2>4, <2>5, <2>6, <2>7 DEF CatalogTypeOK
<1>2. OneAttempt'
  BY <1>0, CatalogAssumption DEF CatalogIInv, CatalogTypeOK, OneAttempt, Attempting
<1>3. Initialisers'
  BY <1>0, CatalogAssumption DEF CatalogIInv, CatalogTypeOK, Initialisers, Attempting
<1>4. FetchedIsNewer'
  BY <1>0 DEF CatalogIInv, CatalogTypeOK, FetchedIsNewer, OneAttempt, Attempting, Fetched
<1>5. OkIsReady'
  BY <1>0 DEF CatalogIInv, CatalogTypeOK, OkIsReady, IsReady
<1>6. FailureIsExplained'
  BY <1>0 DEF CatalogIInv, CatalogTypeOK, FailureIsExplained, IsReady
<1>7. OkMeansReady'
  BY <1>0 DEF CatalogIInv, CatalogTypeOK, OkMeansReady, OkIsReady, IsReady
<1> QED
  BY <1>1, <1>2, <1>3, <1>4, <1>5, <1>6, <1>7 DEF CatalogIInv

\* What is fetched is the server's version, at least the installed one.
LEMMA FetchZipperIInv ==
  ASSUME CatalogIInv, NEW t \in Tasks, NEW ok \in BOOLEAN, FetchZipper(t, ok)
  PROVE  CatalogIInv'
<1> USE DEF FetchZipper, GoTo, Return, catalogs, shared, call
<1>0. CatalogTypeOK
  BY DEF CatalogIInv
<1>1. CatalogTypeOK'
  <2>1. pc' \in [Tasks -> Places]
    BY <1>0, UpdateType DEF CatalogTypeOK, Places, Attempting
  <2>2. op' \in [Tasks -> Ops]
    BY <1>0, UpdateType DEF CatalogTypeOK, Ops
  <2>3. got' \in [Tasks -> Fetched]
    <3>1. (IF ok THEN version ELSE 0) \in 0..MaxVersion
      BY <1>0, CatalogAssumption DEF CatalogTypeOK
    <3> QED
      BY <1>0, <3>1, GotType
  <2>4. returned' \in [Tasks -> {"none", "ok", "error"}]
    BY <1>0, UpdateType DEF CatalogTypeOK
  <2>5. /\ version' \in 1..MaxVersion /\ spot' \in 0..MaxVersion /\ zipper' \in 0..MaxVersion
        /\ calls' \in 0..MaxCalls
    BY <1>0, CatalogAssumption DEF CatalogTypeOK
  <2>6. /\ cell' \in {"empty", "ok", "error"} /\ lastError' \in BOOLEAN
        /\ permit' \in Tasks \cup {NoTask} /\ lock' \in Tasks \cup {NoTask}
    BY <1>0 DEF CatalogTypeOK
  <2>7. enabled' \in BOOLEAN
    BY <1>0 DEF CatalogTypeOK
  <2> QED
    BY <2>1, <2>2, <2>3, <2>4, <2>5, <2>6, <2>7 DEF CatalogTypeOK
<1>2. OneAttempt'
  BY <1>0, CatalogAssumption DEF CatalogIInv, CatalogTypeOK, OneAttempt, Attempting
<1>3. Initialisers'
  BY <1>0, CatalogAssumption DEF CatalogIInv, CatalogTypeOK, Initialisers, Attempting
<1>4. FetchedIsNewer'
  BY <1>0 DEF CatalogIInv, CatalogTypeOK, FetchedIsNewer, OneAttempt, Attempting, Fetched
<1>5. OkIsReady'
  BY <1>0 DEF CatalogIInv, CatalogTypeOK, OkIsReady, IsReady
<1>6. FailureIsExplained'
  BY <1>0 DEF CatalogIInv, CatalogTypeOK, FailureIsExplained, IsReady
<1>7. OkMeansReady'
  BY <1>0 DEF CatalogIInv, CatalogTypeOK, OkMeansReady, OkIsReady, IsReady
<1> QED
  BY <1>1, <1>2, <1>3, <1>4, <1>5, <1>6, <1>7 DEF CatalogIInv

\* Only the holder of the lock installs, so no other attempt is overtaken.
LEMMA InstallIInv ==
  ASSUME CatalogIInv, NEW t \in Tasks, NEW valid \in BOOLEAN, Install(t, valid)
  PROVE  CatalogIInv'
<1> USE DEF Install, GoTo, Return, catalogs, shared, call, Succeeded, Record, SetCell
<1>0. CatalogTypeOK
  BY DEF CatalogIInv
<1>1. CatalogTypeOK'
  <2>1. pc' \in [Tasks -> Places]
    BY <1>0, UpdateType DEF CatalogTypeOK, Places, Attempting
  <2>2. op' \in [Tasks -> Ops]
    BY <1>0, UpdateType DEF CatalogTypeOK, Ops
  <2>3. got' \in [Tasks -> Fetched]
    BY <1>0, UpdateType, GotType DEF CatalogTypeOK
  <2>4. returned' \in [Tasks -> {"none", "ok", "error"}]
    BY <1>0, UpdateType DEF CatalogTypeOK
  <2>5. /\ version' \in 1..MaxVersion /\ spot' \in 0..MaxVersion /\ zipper' \in 0..MaxVersion
        /\ calls' \in 0..MaxCalls
    <3>1. got[t] \in Fetched
      BY <1>0 DEF CatalogTypeOK
    <3>2. got[t].spot \in 0..MaxVersion /\ got[t].zipper \in 0..MaxVersion
      BY <3>1 DEF Fetched
    <3> QED
      BY <1>0, <3>2 DEF CatalogTypeOK
  <2>6. /\ cell' \in {"empty", "ok", "error"} /\ lastError' \in BOOLEAN
        /\ permit' \in Tasks \cup {NoTask} /\ lock' \in Tasks \cup {NoTask}
    BY <1>0 DEF CatalogTypeOK
  <2>7. enabled' \in BOOLEAN
    BY <1>0 DEF CatalogTypeOK
  <2> QED
    BY <2>1, <2>2, <2>3, <2>4, <2>5, <2>6, <2>7 DEF CatalogTypeOK
<1>2. OneAttempt'
  BY <1>0, CatalogAssumption DEF CatalogIInv, CatalogTypeOK, OneAttempt, Attempting
<1>3. Initialisers'
  BY <1>0, CatalogAssumption DEF CatalogIInv, CatalogTypeOK, Initialisers, Attempting
<1>4. FetchedIsNewer'
  BY <1>0 DEF CatalogIInv, CatalogTypeOK, FetchedIsNewer, OneAttempt, Attempting, Fetched
<1>5. OkIsReady'
  BY <1>0 DEF CatalogIInv, CatalogTypeOK, OkIsReady, IsReady
<1>6. FailureIsExplained'
  BY <1>0 DEF CatalogIInv, CatalogTypeOK, FailureIsExplained, IsReady
<1>7. OkMeansReady'
  BY <1>0 DEF CatalogIInv, CatalogTypeOK, OkMeansReady, OkIsReady, IsReady
<1> QED
  BY <1>1, <1>2, <1>3, <1>4, <1>5, <1>6, <1>7 DEF CatalogIInv

\* The initialiser's outcome fits what its attempt left.
LEMMA InitialisedIInv ==
  ASSUME CatalogIInv, NEW t \in Tasks, Initialised(t)
  PROVE  CatalogIInv'
<1> USE DEF Initialised, GoTo, Return, catalogs, shared, call
<1>0. CatalogTypeOK
  BY DEF CatalogIInv
<1>1. CatalogTypeOK'
  <2>1. pc' \in [Tasks -> Places]
    BY <1>0, UpdateType DEF CatalogTypeOK, Places, Attempting
  <2>2. op' \in [Tasks -> Ops]
    BY <1>0, UpdateType DEF CatalogTypeOK, Ops
  <2>3. got' \in [Tasks -> Fetched]
    BY <1>0, UpdateType, GotType DEF CatalogTypeOK
  <2>4. returned' \in [Tasks -> {"none", "ok", "error"}]
    BY <1>0, UpdateType DEF CatalogTypeOK
  <2>5. /\ version' \in 1..MaxVersion /\ spot' \in 0..MaxVersion /\ zipper' \in 0..MaxVersion
        /\ calls' \in 0..MaxCalls
    BY <1>0, CatalogAssumption DEF CatalogTypeOK
  <2>6. /\ cell' \in {"empty", "ok", "error"} /\ lastError' \in BOOLEAN
        /\ permit' \in Tasks \cup {NoTask} /\ lock' \in Tasks \cup {NoTask}
    BY <1>0 DEF CatalogTypeOK
  <2>7. enabled' \in BOOLEAN
    BY <1>0 DEF CatalogTypeOK
  <2> QED
    BY <2>1, <2>2, <2>3, <2>4, <2>5, <2>6, <2>7 DEF CatalogTypeOK
<1>2. OneAttempt'
  BY <1>0, CatalogAssumption DEF CatalogIInv, CatalogTypeOK, OneAttempt, Attempting
<1>3. Initialisers'
  BY <1>0, CatalogAssumption DEF CatalogIInv, CatalogTypeOK, Initialisers, Attempting
<1>4. FetchedIsNewer'
  BY <1>0 DEF CatalogIInv, CatalogTypeOK, FetchedIsNewer, OneAttempt, Attempting, Fetched
<1>5. OkIsReady'
  BY <1>0 DEF CatalogIInv, CatalogTypeOK, OkIsReady, IsReady
<1>6. FailureIsExplained'
  BY <1>0 DEF CatalogIInv, CatalogTypeOK, FailureIsExplained, IsReady
<1>7. OkMeansReady'
  BY <1>0 DEF CatalogIInv, CatalogTypeOK, OkMeansReady, OkIsReady, IsReady
<1> QED
  BY <1>1, <1>2, <1>3, <1>4, <1>5, <1>6, <1>7 DEF CatalogIInv

\* A dropped future gives back what it holds.
LEMMA CancelIInv ==
  ASSUME CatalogIInv, NEW t \in Tasks, Cancel(t)
  PROVE  CatalogIInv'
<1> USE DEF Cancel, GoTo, Return, catalogs, shared, call, Release
<1>0. CatalogTypeOK
  BY DEF CatalogIInv
<1>1. CatalogTypeOK'
  <2>1. pc' \in [Tasks -> Places]
    BY <1>0, UpdateType DEF CatalogTypeOK, Places, Attempting
  <2>2. op' \in [Tasks -> Ops]
    BY <1>0, UpdateType DEF CatalogTypeOK, Ops
  <2>3. got' \in [Tasks -> Fetched]
    BY <1>0, UpdateType, GotType DEF CatalogTypeOK
  <2>4. returned' \in [Tasks -> {"none", "ok", "error"}]
    BY <1>0, UpdateType DEF CatalogTypeOK
  <2>5. /\ version' \in 1..MaxVersion /\ spot' \in 0..MaxVersion /\ zipper' \in 0..MaxVersion
        /\ calls' \in 0..MaxCalls
    BY <1>0, CatalogAssumption DEF CatalogTypeOK
  <2>6. /\ cell' \in {"empty", "ok", "error"} /\ lastError' \in BOOLEAN
        /\ permit' \in Tasks \cup {NoTask} /\ lock' \in Tasks \cup {NoTask}
    BY <1>0 DEF CatalogTypeOK
  <2>7. enabled' \in BOOLEAN
    BY <1>0 DEF CatalogTypeOK
  <2> QED
    BY <2>1, <2>2, <2>3, <2>4, <2>5, <2>6, <2>7 DEF CatalogTypeOK
<1>2. OneAttempt'
  BY <1>0, CatalogAssumption DEF CatalogIInv, CatalogTypeOK, OneAttempt, Attempting
<1>3. Initialisers'
  BY <1>0, CatalogAssumption DEF CatalogIInv, CatalogTypeOK, Initialisers, Attempting
<1>4. FetchedIsNewer'
  BY <1>0 DEF CatalogIInv, CatalogTypeOK, FetchedIsNewer, OneAttempt, Attempting, Fetched
<1>5. OkIsReady'
  BY <1>0 DEF CatalogIInv, CatalogTypeOK, OkIsReady, IsReady
<1>6. FailureIsExplained'
  BY <1>0 DEF CatalogIInv, CatalogTypeOK, FailureIsExplained, IsReady
<1>7. OkMeansReady'
  BY <1>0 DEF CatalogIInv, CatalogTypeOK, OkMeansReady, OkIsReady, IsReady
<1> QED
  BY <1>1, <1>2, <1>3, <1>4, <1>5, <1>6, <1>7 DEF CatalogIInv

\* A newer configuration on the server leaves the client alone.
LEMMA PublishIInv ==
  ASSUME CatalogIInv, PublishCatalog
  PROVE  CatalogIInv'
<1> USE DEF PublishCatalog, catalogs, shared, call
<1>0. CatalogTypeOK
  BY DEF CatalogIInv
<1>1. CatalogTypeOK'
  BY <1>0, CatalogAssumption DEF CatalogTypeOK
<1>2. OneAttempt' /\ Initialisers'
  BY DEF CatalogIInv, OneAttempt, Initialisers
<1>3. FetchedIsNewer'
  <2>1. \A t \in Tasks : got[t].spot \in Nat /\ got[t].zipper \in Nat
    BY <1>0 DEF CatalogTypeOK, Fetched
  <2>2. version \in Nat /\ spot \in Nat /\ zipper \in Nat
    BY <1>0 DEF CatalogTypeOK
  <2> QED
    BY <2>1, <2>2 DEF CatalogIInv, FetchedIsNewer
<1>4. OkIsReady' /\ FailureIsExplained' /\ OkMeansReady'
  BY DEF CatalogIInv, OkIsReady, FailureIsExplained, OkMeansReady, IsReady
<1> QED
  BY <1>1, <1>2, <1>3, <1>4 DEF CatalogIInv

\* Every step keeps the invariant.
LEMMA NextIInv ==
  ASSUME CatalogIInv, [CatalogNext]_catalogVars
  PROVE  CatalogIInv'
<1>1. ASSUME NEW t \in Tasks, Runs(t) PROVE CatalogIInv'
  BY <1>1, CheckIInv, LookAtCellIInv, InitialiseIInv, PollIInv, LockIInv, FetchSpotIInv,
     FetchZipperIInv, InstallIInv, InitialisedIInv DEF Runs
<1>2. ASSUME NEW t \in Tasks, Cancel(t) PROVE CatalogIInv'
  BY <1>2, CancelIInv
<1>3. ASSUME NEW t \in Tasks, NEW o \in Ops \ {"init"}, Call(t, o) PROVE CatalogIInv'
  BY <1>3, CallIInv
<1>4. CASE PublishCatalog
  BY <1>4, PublishIInv
<1>5. CASE UNCHANGED catalogVars
  BY <1>5 DEF CatalogIInv, CatalogTypeOK, OneAttempt, Initialisers, FetchedIsNewer, OkIsReady,
              FailureIsExplained, OkMeansReady, IsReady, catalogVars
<1> QED
  BY <1>1, <1>2, <1>3, <1>4, <1>5 DEF CatalogNext

\* The invariant holds, and with it each of its parts: at most one attempt
\* holds the lock, whoever made it and however it ends (client.rs:418).
THEOREM Invariance == CatalogSpec => []CatalogIInv
BY InitIInv, NextIInv, PTL DEF CatalogSpec

\* A call that returned Ok found usable catalogs, whichever of the ways to the
\* result it took (services/mod.rs:70); with hydration disabled only one that
\* hydrated them itself says so (client.rs:417).
THEOREM ReadyTheorem == CatalogSpec => []OkMeansReady
<1>1. CatalogIInv => OkMeansReady
  BY DEF CatalogIInv
<1> QED
  BY <1>1, Invariance, PTL

\* The failure of the first attempt is recorded before the cell has it, so that
\* who finds it can look it up, or the catalogs are there (client.rs:371).
THEOREM ExplainedTheorem == CatalogSpec => []FailureIsExplained
<1>1. CatalogIInv => FailureIsExplained
  BY DEF CatalogIInv
<1> QED
  BY <1>1, Invariance, PTL

\* A step that installs does not go back.
LEMMA InstallIsNewer ==
  ASSUME CatalogIInv, NEW t \in Tasks, NEW valid \in BOOLEAN, Install(t, valid)
  PROVE  spot' >= spot /\ zipper' >= zipper
<1>1. spot \in Nat /\ zipper \in Nat
  BY DEF CatalogIInv, CatalogTypeOK
<1>2. CASE Succeeded(t) /\ valid
  <2>1. /\ got[t].spot # 0 /\ got[t].zipper # 0 /\ pc[t] \in Attempting
        /\ spot' = got[t].spot /\ zipper' = got[t].zipper
    BY <1>2 DEF Install, Succeeded, Attempting
  <2> QED
    BY <2>1 DEF CatalogIInv, FetchedIsNewer
<1>3. CASE ~(Succeeded(t) /\ valid)
  BY <1>1, <1>3 DEF Install, catalogs
<1> QED
  BY <1>2, <1>3

\* The catalogs never go back to an older configuration: an attempt that is
\* slow to fetch does not overwrite a later one (client.rs:418).
THEOREM NeverOlderTheorem == CatalogSpec => NeverOlder
<1>1. ASSUME CatalogIInv, [CatalogNext]_catalogVars PROVE [spot' >= spot /\ zipper' >= zipper]_catalogVars
  <2>1. spot \in Nat /\ zipper \in Nat
    BY <1>1 DEF CatalogIInv, CatalogTypeOK
  <2>2. ASSUME NEW t \in Tasks, NEW valid \in BOOLEAN, Install(t, valid)
        PROVE  spot' >= spot /\ zipper' >= zipper
    BY <1>1, <2>2, InstallIsNewer
  <2>3. ASSUME UNCHANGED catalogs PROVE spot' >= spot /\ zipper' >= zipper
    BY <2>1, <2>3 DEF catalogs
  <2>4. ASSUME NEW t \in Tasks,
               Check(t) \/ LookAtCell(t) \/ Initialise(t) \/ Poll(t) \/ Lock(t)
                 \/ Initialised(t) \/ Cancel(t)
                 \/ (\E ok \in BOOLEAN : FetchSpot(t, ok) \/ FetchZipper(t, ok))
                 \/ (\E o \in Ops \ {"init"} : Call(t, o))
        PROVE  UNCHANGED catalogs
    BY <2>4 DEF Check, LookAtCell, Initialise, Poll, Lock, Initialised, Cancel, FetchSpot,
                FetchZipper, Call, catalogs
  <2>5. CASE PublishCatalog
    BY <2>3, <2>5 DEF PublishCatalog
  <2>6. CASE UNCHANGED catalogVars
    BY <2>6
  <2> QED
    BY <1>1, <2>2, <2>3, <2>4, <2>5, <2>6 DEF CatalogNext, Runs
<1> QED
  BY <1>1, Invariance, PTL DEF CatalogSpec, NeverOlder
=============================================================================
