-------------------------- MODULE CatalogHydration --------------------------
(***************************************************************************)
(* The catalogs and who fills them (src/client.rs 345-458, src/catalogs,   *)
(* src/services/mod.rs): the task started at construction, callers of      *)
(* wait_for_catalogs and hydrate_catalogs, and order calls that need the   *)
(* catalogs.  They share a once-cell that holds the first attempt's        *)
(* result, a lock around every attempt, and the last error.                *)
(*                                                                         *)
(* A configuration is its version on the server.  The once-cell is tokio's *)
(* OnceCell: get_or_init holds its permit while it initialises, set fails  *)
(* when there is a value or a holder, and a future dropped at an await     *)
(* gives back the permit and the lock.                                     *)
(***************************************************************************)
EXTENDS Naturals

CONSTANTS
  Tasks,
  Background,   \* the task of start_catalog_hydration
  NoTask,
  MaxVersion,   \* bound: versions of the server's configuration
  MaxCalls      \* bound: calls in all

ASSUME CatalogAssumption ==
  /\ Background \in Tasks /\ NoTask \notin Tasks
  /\ MaxVersion \in Nat \ {0} /\ MaxCalls \in Nat

VARIABLES
  enabled,    \* Config.hydrate_catalogs
  version,    \* the server's configuration
  spot,       \* installed spot configuration, 0 when there is none
  zipper,     \* installed zipper configuration
  cell,       \* catalog_ready
  permit,     \* who initialises the cell
  lock,       \* who holds catalog_hydrate_lock
  lastError,  \* catalog_last_error is set
  pc,
  op,         \* what a task calls
  got,        \* what an attempt has fetched
  returned,   \* of a task's last call
  calls

catalogVars ==
  <<enabled, version, spot, zipper, cell, permit, lock, lastError, pc, op, got, returned,
    calls>>

catalogs == <<spot, zipper>>
shared == <<cell, permit, lock, lastError>>
call == <<op, calls, returned>>

Nothing == [spot |-> 0, zipper |-> 0]
IsReady == spot # 0 /\ zipper # 0

Ops == {"init", "wait", "hydrate", "order"}
Attempting == {"spot", "zipper", "install"}
Places == {"idle", "check", "cell", "permit", "lock", "ok", "error"} \cup Attempting
Fetched == [spot : 0..MaxVersion, zipper : 0..MaxVersion]

\* Built inside a runtime, the client starts the background task; outside,
\* the cell holds an error from the start.  With hydration disabled nothing is
\* started, and the cell stays empty.
CatalogInit ==
  /\ version = 1 /\ spot = 0 /\ zipper = 0
  /\ \/ /\ enabled = TRUE /\ cell = "empty" /\ lastError = FALSE
        /\ pc = [t \in Tasks |-> IF t = Background THEN "cell" ELSE "idle"]
     \/ /\ enabled = TRUE /\ cell = "error" /\ lastError = TRUE
        /\ pc = [t \in Tasks |-> "idle"]
     \/ /\ enabled = FALSE /\ cell = "empty" /\ lastError = FALSE
        /\ pc = [t \in Tasks |-> "idle"]
  /\ permit = NoTask /\ lock = NoTask
  /\ op = [t \in Tasks |-> IF t = Background THEN "init" ELSE "wait"]
  /\ got = [t \in Tasks |-> Nothing]
  /\ returned = [t \in Tasks |-> "none"]
  /\ calls = 0

GoTo(t, to) == pc' = [pc EXCEPT ![t] = to]

Return(t, r) ==
  /\ pc' = [pc EXCEPT ![t] = "idle"]
  /\ returned' = [returned EXCEPT ![t] = r]

-----------------------------------------------------------------------------
(* Calls *)

Call(t, o) ==
  /\ t # Background /\ pc[t] = "idle" /\ calls < MaxCalls
  /\ op' = [op EXCEPT ![t] = o]
  /\ calls' = calls + 1
  /\ GoTo(t, IF o = "hydrate" THEN "lock" ELSE "check")
  /\ returned' = [returned EXCEPT ![t] = "none"]
  /\ UNCHANGED <<enabled, version, catalogs, shared, got>>

\* The catalogs may be there already.  With hydration disabled nobody waits for
\* them, in wait_for_catalogs and before an order alike.
Check(t) ==
  /\ pc[t] = "check"
  /\ \/ ~enabled /\ Return(t, "ok")
     \/ enabled /\ IsReady /\ Return(t, "ok")
     \/ enabled /\ ~IsReady /\ GoTo(t, "cell") /\ UNCHANGED returned
  /\ UNCHANGED <<enabled, version, catalogs, shared, op, got, calls>>

\* wait_for_catalogs after a failure makes an attempt of its own; otherwise,
\* as the background task, it shares the cell.
LookAtCell(t) ==
  /\ pc[t] = "cell" /\ op[t] # "order"
  /\ \/ /\ cell = "error" /\ op[t] = "wait"
        /\ GoTo(t, "lock")
        /\ UNCHANGED returned
     \/ /\ cell = "ok" \/ (cell = "error" /\ op[t] = "init")
        /\ Return(t, cell)
     \/ /\ cell = "empty"
        /\ GoTo(t, "permit")
        /\ UNCHANGED returned
  /\ UNCHANGED <<enabled, version, catalogs, shared, op, got, calls>>

\* get_or_init: wait for the value or become the one that initialises it.
Initialise(t) ==
  /\ pc[t] = "permit"
  /\ \/ /\ cell # "empty"
        /\ Return(t, cell)
        /\ UNCHANGED permit
     \/ /\ cell = "empty" /\ permit = NoTask
        /\ permit' = t
        /\ GoTo(t, "lock")
        /\ UNCHANGED returned
  /\ UNCHANGED <<enabled, version, catalogs, cell, lock, lastError, op, got, calls>>

\* An order call takes the cell's result, or polls until it is there, the
\* catalogs are, or its deadline has passed.
Poll(t) ==
  /\ pc[t] = "cell" /\ op[t] = "order"
  /\ \/ cell = "empty" /\ IsReady /\ Return(t, "ok")
     \/ cell = "empty" /\ Return(t, "error")
     \/ cell # "empty" /\ Return(t, cell)
     \/ cell # "empty" /\ IsReady /\ Return(t, "ok")
  /\ UNCHANGED <<enabled, version, catalogs, shared, op, got, calls>>

-----------------------------------------------------------------------------
(* An attempt, under the lock *)

\* MUTANT: a retry does not take the lock.
MutantCanLock(t) == lock = NoTask \/ (op[t] = "wait" /\ permit # t)

CanLock(t) == lock = NoTask

\* A retry looks again once it has the lock.
Lock(t) ==
  /\ pc[t] = "lock" /\ CanLock(t)
  /\ \/ /\ op[t] = "wait" /\ permit # t /\ IsReady
        /\ Return(t, "ok")
        /\ UNCHANGED lock
     \/ /\ ~(op[t] = "wait" /\ permit # t /\ IsReady)
        /\ lock' = t
        /\ GoTo(t, "spot")
        /\ UNCHANGED returned
  /\ got' = [got EXCEPT ![t] = Nothing]
  /\ UNCHANGED <<enabled, version, catalogs, cell, permit, lastError, op, calls>>

FetchSpot(t, ok) ==
  /\ pc[t] = "spot"
  /\ got' = [got EXCEPT ![t].spot = IF ok THEN version ELSE 0]
  /\ GoTo(t, IF ok THEN "zipper" ELSE "install")
  /\ UNCHANGED <<enabled, version, catalogs, shared, call>>

FetchZipper(t, ok) ==
  /\ pc[t] = "zipper"
  /\ got' = [got EXCEPT ![t].zipper = IF ok THEN version ELSE 0]
  /\ GoTo(t, "install")
  /\ UNCHANGED <<enabled, version, catalogs, shared, call>>

\* MUTANT: a zipper that could not be fetched is not an error.
MutantSucceeded(t) == got[t].spot # 0

\* Both fetched, and both valid.
Succeeded(t) == got[t].spot # 0 /\ got[t].zipper # 0

\* MUTANT: set waits for whoever initialises the cell.
MutantSetCell(outcome) ==
  /\ cell # "empty" \/ permit = NoTask
  /\ cell' = IF cell = "empty" THEN outcome ELSE cell

\* OnceCell::set by hydrate_catalogs.
SetCell(outcome) == cell' = IF cell = "empty" /\ permit = NoTask THEN outcome ELSE cell

\* MUTANT: the background task keeps its error to itself.
MutantRecord(t, ok) == lastError' = IF op[t] = "init" THEN lastError ELSE ~ok

Record(t, ok) == lastError' = ~ok

\* Both are installed in one write lock, or none; the error is recorded and
\* the lock given back.  The initialiser's value reaches the cell after that.
Install(t, valid) ==
  LET ok == Succeeded(t) /\ valid
      outcome == IF ok THEN "ok" ELSE "error"
  IN  /\ pc[t] = "install"
      /\ IF ok THEN spot' = got[t].spot /\ zipper' = got[t].zipper ELSE UNCHANGED catalogs
      /\ Record(t, ok)
      /\ lock' = NoTask
      /\ IF permit = t
         THEN GoTo(t, outcome) /\ UNCHANGED <<cell, returned>>
         ELSE /\ Return(t, outcome)
              /\ IF op[t] = "hydrate" THEN SetCell(outcome) ELSE UNCHANGED cell
  /\ UNCHANGED <<enabled, version, permit, op, got, calls>>

Initialised(t) ==
  /\ pc[t] \in {"ok", "error"}
  /\ cell' = pc[t]
  /\ permit' = NoTask
  /\ Return(t, pc[t])
  /\ UNCHANGED <<enabled, version, catalogs, lock, lastError, op, got, calls>>

\* What a dropped future gives back.
Release(t) ==
  /\ permit' = IF permit = t THEN NoTask ELSE permit
  /\ lock' = IF lock = t THEN NoTask ELSE lock

\* The caller drops its future at an await.
Cancel(t) ==
  /\ t # Background
  /\ pc[t] \in {"permit", "lock", "spot", "zipper"}
  /\ Release(t)
  /\ Return(t, "none")
  /\ UNCHANGED <<enabled, version, catalogs, cell, lastError, op, got, calls>>

\* The server's configuration changes.
PublishCatalog ==
  /\ version < MaxVersion
  /\ version' = version + 1
  /\ UNCHANGED <<enabled, catalogs, shared, pc, call, got>>

Runs(t) ==
  \/ Check(t)
  \/ LookAtCell(t)
  \/ Initialise(t)
  \/ Poll(t)
  \/ Lock(t)
  \/ \E ok \in BOOLEAN : FetchSpot(t, ok) \/ FetchZipper(t, ok) \/ Install(t, ok)
  \/ Initialised(t)

CatalogNext ==
  \/ \E t \in Tasks : Runs(t) \/ Cancel(t) \/ \E o \in Ops \ {"init"} : Call(t, o)
  \/ PublishCatalog

CatalogSpec == CatalogInit /\ [][CatalogNext]_catalogVars
CatalogFairSpec == CatalogSpec /\ \A t \in Tasks : WF_catalogVars(Runs(t))

-----------------------------------------------------------------------------
(* Properties *)

CatalogTypeOK ==
  /\ enabled \in BOOLEAN
  /\ version \in 1..MaxVersion
  /\ spot \in 0..MaxVersion /\ zipper \in 0..MaxVersion
  /\ cell \in {"empty", "ok", "error"}
  /\ permit \in Tasks \cup {NoTask} /\ lock \in Tasks \cup {NoTask}
  /\ lastError \in BOOLEAN
  /\ pc \in [Tasks -> Places]
  /\ op \in [Tasks -> Ops]
  /\ got \in [Tasks -> Fetched]
  /\ returned \in [Tasks -> {"none", "ok", "error"}]
  /\ calls \in 0..MaxCalls

\* One attempt at a time holds the lock, and one that no longer runs does not.
OneAttempt == \A t \in Tasks : pc[t] \in Attempting <=> lock = t

\* Who holds the permit of the cell is on the way to its value.
Initialisers ==
  /\ cell # "empty" => permit = NoTask
  /\ \A t \in Tasks : /\ permit = t => pc[t] \in Attempting \cup {"lock", "ok", "error"}
                      /\ pc[t] \in {"ok", "error"} => permit = t

\* What an attempt fetched is not older than what is installed, which no other
\* attempt replaces meanwhile.
FetchedIsNewer ==
  /\ spot <= version /\ zipper <= version
  /\ \A t \in Tasks :
       /\ got[t].spot <= version /\ got[t].zipper <= version
       /\ pc[t] \in Attempting /\ got[t].spot # 0 => got[t].spot >= spot
       /\ pc[t] \in Attempting /\ got[t].zipper # 0 => got[t].zipper >= zipper

\* A result of Ok, wherever it is on its way, has its catalogs; hydrate_catalogs
\* does not return before its attempt.
OkIsReady ==
  /\ cell = "ok" => IsReady
  /\ \A t \in Tasks : /\ pc[t] = "ok" => IsReady
                      /\ pc[t] = "check" => op[t] # "hydrate"

\* A failure of the first attempt can be looked up, or is repaired: the error
\* is recorded before the cell has it (client.rs:370).
FailureIsExplained ==
  /\ cell = "error" => lastError \/ IsReady
  /\ \A t \in Tasks : pc[t] = "error" => lastError \/ IsReady

\* A call that returned Ok found usable catalogs, whichever of the ways to
\* the result it took (services/mod.rs:70).  With hydration disabled only
\* hydrate_catalogs says so: the others return at once (client.rs:417).
OkMeansReady ==
  \A t \in Tasks : returned[t] = "ok" /\ (enabled \/ op[t] = "hydrate") => IsReady

\* The inductive invariant of BackgroundProofs.
CatalogIInv ==
  /\ CatalogTypeOK /\ OneAttempt /\ Initialisers /\ FetchedIsNewer /\ OkIsReady
  /\ FailureIsExplained /\ OkMeansReady

\* The catalogs never go back to an older configuration: an attempt that is
\* slow to fetch does not overwrite a later one (client.rs:418).
NeverOlder == [][spot' >= spot /\ zipper' >= zipper]_catalogVars

\* Every call returns, also when the caller that initialises the cell or
\* holds the lock is dropped, and whoever hydrates meanwhile (client.rs:414).
CallsReturn == \A t \in Tasks : pc[t] # "idle" ~> pc[t] = "idle"
=============================================================================
