---------------------------- MODULE TokenRenewal ----------------------------
(***************************************************************************)
(* The TokenRenewer of one private connection (src/realtime/renewal.rs):   *)
(* what the subscription loop does to it, as actions on its state, and     *)
(* what the server has still to answer.  A time to live runs out at any    *)
(* time.  Command ids are counted and wrap after 2^32 commands; here an id *)
(* is one that no unanswered command has.                                  *)
(***************************************************************************)
EXTENDS Naturals, Sequences, FiniteSets

CONSTANT Kinds   \* RenewalKind: the connection's token and the subscription's

ASSUME TokenRenewalAssumption == IsFiniteSet(Kinds)

VARIABLES
  due,       \* kinds whose renewal is scheduled
  fetching,  \* kinds whose token is being fetched
  fetched,   \* the channel of fetched tokens, or of the failures to fetch
  pending,   \* commands sent and not answered, as the renewer knows them
  asked,     \* the ids the server has to answer
  expires,   \* history: kinds whose last answer said that the token expires
  failed     \* history: kinds whose renewal failed and was reported

renewer == <<due, fetching, fetched, pending, asked, expires, failed>>

Ids == 3..(2 + 2 * Cardinality(Kinds))

\* A new connection schedules the kinds that expire; an ended one has none.
NewRenewer(expiring) ==
  /\ due' = expiring /\ expires' = expiring
  /\ fetching' = {} /\ fetched' = <<>> /\ pending' = {} /\ asked' = {} /\ failed' = {}

RenewerInit ==
  /\ due = {} /\ expires = {}
  /\ fetching = {} /\ fetched = <<>> /\ pending = {} /\ asked = {} /\ failed = {}

\* MUTANT: what was started stays scheduled.
MutantStartDue(kinds) ==
  /\ kinds # {} /\ kinds \subseteq due
  /\ fetching' = fetching \cup kinds
  /\ UNCHANGED <<due, fetched, pending, asked, expires, failed>>

\* start_due: the renewals whose time has come.
StartDue(kinds) ==
  /\ kinds # {} /\ kinds \subseteq due
  /\ due' = due \ kinds
  /\ fetching' = fetching \cup kinds
  /\ UNCHANGED <<fetched, pending, asked, expires, failed>>

FetchEnds(kind, ok) ==
  /\ kind \in fetching
  /\ fetching' = fetching \ {kind}
  /\ fetched' = Append(fetched, [kind |-> kind, ok |-> ok])
  /\ UNCHANGED <<due, pending, asked, expires, failed>>

\* command: present a fetched token.
Present ==
  /\ fetched # <<>> /\ Head(fetched).ok
  /\ \E id \in Ids \ {p.id : p \in pending} :
       /\ pending' = pending \cup {[id |-> id, kind |-> Head(fetched).kind]}
       /\ asked' = asked \cup {id}
  /\ fetched' = Tail(fetched)
  /\ UNCHANGED <<due, fetching, expires, failed>>

\* The token could not be fetched, which the loop records.
FetchFailed ==
  /\ fetched # <<>> /\ ~Head(fetched).ok
  /\ fetched' = Tail(fetched)
  /\ failed' = failed \cup {Head(fetched).kind}
  /\ UNCHANGED <<due, fetching, pending, asked, expires>>

\* MUTANT: a renewed token is not scheduled again.
MutantTakeReply(p, refused, ttl) ==
  /\ pending' = pending \ {p}
  /\ failed' = IF refused THEN failed \cup {p.kind} ELSE failed
  /\ expires' = IF ~refused /\ ~ttl THEN expires \ {p.kind} ELSE expires
  /\ UNCHANGED <<due, fetching, fetched, asked>>

\* take_reply for the pending command p: schedule the next renewal if the
\* token expires, or report the refusal.
TakeReply(p, refused, ttl) ==
  /\ pending' = pending \ {p}
  /\ failed' = IF refused THEN failed \cup {p.kind} ELSE failed
  /\ due' = IF ~refused /\ ttl THEN due \cup {p.kind} ELSE due
  /\ expires' = IF ~refused /\ ~ttl THEN expires \ {p.kind} ELSE expires
  /\ UNCHANGED <<fetching, fetched, asked>>

\* The links of a kind's chain that exist: scheduled, fetching, fetched, sent.
Links(kind) ==
  {<<"due", 0>> : k \in due \cap {kind}}
    \cup {<<"fetching", 0>> : k \in fetching \cap {kind}}
    \cup {<<"fetched", i>> : i \in {j \in DOMAIN fetched : fetched[j].kind = kind}}
    \cup {<<"sent", p.id>> : p \in {q \in pending : q.kind = kind}}

RenewerTypeOK ==
  /\ due \subseteq Kinds /\ fetching \subseteq Kinds
  /\ fetched \in Seq([kind : Kinds, ok : BOOLEAN])
  /\ pending \subseteq [id : Ids, kind : Kinds]
  /\ asked \subseteq Ids
  /\ expires \subseteq Kinds /\ failed \subseteq Kinds
=============================================================================
