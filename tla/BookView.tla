------------------------------ MODULE BookView ------------------------------
(***************************************************************************)
(* What a snapshot-then-stream consumer is promised, with no tasks, locks  *)
(* or generations: the server keeps a log, the consumer holds a position   *)
(* in it.  While the view is live the position follows the log one entry   *)
(* at a time; only a suspended view may jump, never backwards, never past  *)
(* the log; and a view that was asked to refresh goes live again only once *)
(* it has reached the log as it stood when it was last asked.              *)
(***************************************************************************)
EXTENDS Naturals

VARIABLES
  log,    \* number of updates the server has made
  asked,  \* value of log when a refresh was last asked for
  live,   \* the view is being followed
  pos     \* updates reflected in the view

vars == <<log, asked, live, pos>>

Init == log = 0 /\ asked = 0 /\ live = FALSE /\ pos = 0

Publish == log' = log + 1 /\ UNCHANGED <<asked, live, pos>>
Ask == asked' = log /\ UNCHANGED <<log, live, pos>>
Suspend == live /\ live' = FALSE /\ UNCHANGED <<log, asked, pos>>
Resume == ~live /\ asked <= pos /\ live' = TRUE /\ UNCHANGED <<log, asked, pos>>
Follow == pos < log /\ pos' = pos + 1 /\ UNCHANGED <<log, asked, live>>
Jump == ~live /\ pos' \in pos..log /\ UNCHANGED <<log, asked, live>>

Next == Publish \/ Ask \/ Suspend \/ Resume \/ Follow \/ Jump

Spec == Init /\ [][Next]_vars
=============================================================================
