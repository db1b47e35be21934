------------------------ MODULE SnapshotStreamProofs ------------------------
(***************************************************************************)
(* Type correctness of the coordinator, the bound of the recovery buffer   *)
(* included, its inductive invariant, and that it implements BookView.     *)
(* The lemmas named Type show that a part of the code keeps the types,     *)
(* those named Keeps that it keeps the invariant, those named View that it *)
(* is a step or a stutter of BookView.  The last two parts strengthen the  *)
(* invariant, for the single worker, and for the publications a book that  *)
(* serves its readers must hold.                                           *)
(***************************************************************************)
EXTENDS SnapshotStream, TLAPS

(* Type correctness *)

\* The stream as SnapshotThenStream::new builds it is well typed.
LEMMA TypeInit == Init => TypeOK
<1> SUFFICES ASSUME Init PROVE TypeOK
  OBVIOUS
<1>0. FlagsOK
  BY Zenon DEF Init, FlagsOK, Errors, Links
<1>1. CountersOK
  BY SMT DEF Init, CountersOK
<1>2. DeltasOK
  BY BoundsAssumption, SMT DEF Init, DeltasOK
<1>3. TasksOK
  BY SMT DEF Init, TasksOK, Labels
<1> QED
  BY <1>0, <1>1, <1>2, <1>3 DEF TypeOK

(* How the helpers change a task's locals *)

\* A task that only moves stays well typed.
LEMMA MoveType ==
  ASSUME TasksOK, NEW t \in Tasks, NEW l \in Labels, Move(t, l)
  PROVE  TasksOK'
BY SMT DEF TasksOK, Move, Goto, localVars

\* A task that takes publications out of the buffer stays well typed.
LEMMA HoldType ==
  ASSUME TasksOK, NEW t \in Tasks, NEW l \in Labels, NEW d \in Seq(Nat),
         Hold(t, d, l)
  PROVE  TasksOK'
BY SMT DEF TasksOK, Hold, Goto

\* A task that enters fail_closed stays well typed.
LEMMA FailingType ==
  ASSUME TasksOK, NEW t \in Tasks, NEW r \in BOOLEAN, NEW c \in Labels,
         Failing(t, r, c), batch' \in [Tasks -> Seq(Nat)]
  PROVE  TasksOK'
<1>1. "fail" \in Labels
  BY DEF Labels
<1>2. at' \in [Tasks -> Labels] /\ next' \in [Tasks -> Labels]
  BY <1>1, SMT DEF TasksOK, Failing, Goto
<1>3. recorded' \in [Tasks -> BOOLEAN]
  BY Zenon DEF TasksOK, Failing
<1> QED
  BY <1>2, <1>3 DEF TasksOK, Failing

\* A task that returns from refresh_snapshot_once stays well typed.
LEMMA ReturnType ==
  ASSUME TasksOK, NEW t \in Tasks, NEW r \in BOOLEAN, Return(t, r)
  PROVE  TasksOK' /\ gate' = NoTask
<1>1. AfterRefresh(t, r) \in Labels /\ "unready" \in Labels
  BY SMT DEF AfterRefresh, Labels
<1>2. at' \in [Tasks -> Labels] /\ next' \in [Tasks -> Labels]
  BY <1>1, SMT DEF TasksOK, Return, Goto
<1>3. batch' \in [Tasks -> Seq(Nat)] /\ tries' \in [Tasks -> Nat]
  BY SMT DEF TasksOK, Return
<1>4. recorded' \in [Tasks -> BOOLEAN] /\ UNCHANGED <<gen, snap>> /\ gate' = NoTask
  BY SMT DEF TasksOK, Return
<1> QED
  BY <1>2, <1>3, <1>4 DEF TasksOK

\* A function stays in its type when one value is replaced.
LEMMA UpdateType ==
  \A S, f, x, v : f \in [Tasks -> S] /\ v \in S => [f EXCEPT ![x] = v] \in [Tasks -> S]
  OBVIOUS

\* Whoever called fail_closed is returned to.
LEMMA ResumeType == \A t : Resume(t) \in Labels
BY SMT DEF Resume, Labels

\* request_refresh.
LEMMA RequestType ==
  ASSUME TypeOK, NEW t \in Tasks, RequestStep(t)
  PROVE  TypeOK'
<1> USE DEF TypeOK, bufferVars, endVars, refreshVars, transportVars, budgetVars, historyVars
<1>1. CASE ReqMark(t)
  <2>1. FlagsOK'
    BY <1>1, ZenonT(60) DEF FlagsOK, Tasks, Errors, Links, ReqMark
  <2>2. CountersOK' /\ DeltasOK'
    BY <1>1, BoundsAssumption, SMT DEF CountersOK, DeltasOK, ReqMark
  <2>3. TasksOK'
    BY <1>1, MoveType, HoldType, ReturnType, ResumeType, SMT DEF Tasks, Labels, ReqMark
  <2> QED
    BY <2>1, <2>2, <2>3
<1>2. CASE ReqBump(t)
  <2>1. FlagsOK'
    BY <1>2, ZenonT(60) DEF FlagsOK, Tasks, Errors, Links, ReqBump
  <2>2. CountersOK' /\ DeltasOK'
    BY <1>2, BoundsAssumption, SMT DEF CountersOK, DeltasOK, ReqBump
  <2>3. TasksOK'
    BY <1>2, MoveType, HoldType, ReturnType, ResumeType, Zenon DEF Tasks, Labels, ReqBump
  <2> QED
    BY <2>1, <2>2, <2>3
<1>3. CASE ReqBuffer(t)
  <2>1. FlagsOK'
    BY <1>3, ZenonT(60) DEF FlagsOK, Tasks, Errors, Links, ReqBuffer, BeginBuffering
  <2>2. CountersOK' /\ DeltasOK'
    BY <1>3, BoundsAssumption, SMT DEF CountersOK, DeltasOK, ReqBuffer, BeginBuffering
  <2>3. TasksOK'
    BY <1>3, MoveType, HoldType, ReturnType, ResumeType, Zenon DEF Tasks, Labels, ReqBuffer
  <2> QED
    BY <2>1, <2>2, <2>3
<1>4. CASE ReqSpawn(t)
  <2>1. FlagsOK'
    BY <1>4, ZenonT(60) DEF FlagsOK, Tasks, Errors, Links, ReqSpawn
  <2>2. CountersOK' /\ DeltasOK'
    BY <1>4, BoundsAssumption, SMT DEF CountersOK, DeltasOK, ReqSpawn
  <2>3. TasksOK'
    <3>1. CASE workerRunning
      BY <1>4, <3>1, MoveType, ResumeType, Zenon DEF ReqSpawn
    <3>2. CASE ~workerRunning
      <4>1. PICK w \in Workers : /\ at' = [at EXCEPT ![t] = Resume(t), ![w] = "round"]
                                 /\ tries' = [tries EXCEPT ![w] = 0]
        BY <1>4, <3>2, Zenon DEF ReqSpawn
      <4>2. Resume(t) \in Labels /\ "round" \in Labels
        BY ResumeType, SMT DEF Labels
      <4>3. at' \in [Tasks -> Labels] /\ tries' \in [Tasks -> Nat]
        <5>1. at \in [Tasks -> Labels] /\ tries \in [Tasks -> Nat] /\ 0 \in Nat
          BY DEF TasksOK
        <5>2. tries' \in [Tasks -> Nat]
          BY <4>1, <5>1, UpdateType, Zenon
        <5> QED
          BY <4>1, <4>2, <5>1, <5>2, SMT
      <4> QED
        BY <1>4, <3>2, <4>3, Zenon DEF ReqSpawn, TasksOK
    <3> QED
      BY <3>1, <3>2
  <2> QED
    BY <2>1, <2>2, <2>3
<1> QED
  BY <1>1, <1>2, <1>3, <1>4 DEF RequestStep

\* refresh_snapshot_once.
LEMMA RefreshType ==
  ASSUME TypeOK, NEW t \in Tasks, RefreshStep(t)
  PROVE  TypeOK'
<1> USE DEF TypeOK, bufferVars, endVars, refreshVars, transportVars, budgetVars, historyVars
<1>1. CASE AcquireGate(t)
  <2>1. FlagsOK'
    BY <1>1, ZenonT(60) DEF FlagsOK, Tasks, Errors, Links, AcquireGate
  <2>2. CountersOK' /\ DeltasOK'
    BY <1>1, BoundsAssumption, SMT DEF CountersOK, DeltasOK, AcquireGate
  <2>3. TasksOK'
    BY <1>1, MoveType, HoldType, ReturnType, ResumeType, Zenon DEF Tasks, Labels, AcquireGate
  <2> QED
    BY <2>1, <2>2, <2>3
<1>2. CASE BeginRefresh(t)
  <2>1. FlagsOK'
    BY <1>2, ZenonT(60) DEF FlagsOK, Tasks, Errors, Links, BeginRefresh, Return
  <2>2. CountersOK' /\ DeltasOK'
    BY <1>2, BoundsAssumption, SMT DEF CountersOK, DeltasOK, BeginRefresh, Return
  <2>3. TasksOK'
    <3>1. CASE disposed
      BY <1>2, <3>1, ReturnType, Zenon DEF BeginRefresh
    <3>2. CASE ~disposed
      <4>1. generation' \in Nat
        BY <2>2 DEF CountersOK
      <4>2. "buffer" \in Labels
        BY DEF Labels
      <4> QED
        BY <1>2, <3>2, <4>1, <4>2, UpdateType, ZenonT(60) DEF BeginRefresh, TasksOK, Goto
    <3> QED
      BY <3>1, <3>2
  <2> QED
    BY <2>1, <2>2, <2>3
<1>3. CASE Buffer(t)
  <2>1. FlagsOK'
    BY <1>3, ZenonT(60) DEF FlagsOK, Tasks, Errors, Links, Buffer, BeginBuffering
  <2>2. CountersOK' /\ DeltasOK'
    BY <1>3, BoundsAssumption, SMT DEF CountersOK, DeltasOK, Buffer, BeginBuffering
  <2>3. TasksOK'
    BY <1>3, MoveType, HoldType, ReturnType, ResumeType, Zenon DEF Tasks, Labels, Buffer
  <2> QED
    BY <2>1, <2>2, <2>3
<1>4. CASE FetchAnswered(t)
  <2>1. FlagsOK'
    BY <1>4, ZenonT(60) DEF FlagsOK, Tasks, Errors, Links, FetchAnswered
  <2>2. CountersOK' /\ DeltasOK'
    BY <1>4, BoundsAssumption, SMT DEF CountersOK, DeltasOK, FetchAnswered
  <2>3. TasksOK'
    BY <1>4, SMT DEF TasksOK, CountersOK, Labels, FetchAnswered, Goto
  <2> QED
    BY <2>1, <2>2, <2>3
<1>5. CASE FetchStopped(t)
  <2>1. FlagsOK'
    BY <1>5, ZenonT(60) DEF FlagsOK, Tasks, Errors, Links, FetchStopped, Return
  <2>2. CountersOK' /\ DeltasOK'
    BY <1>5, BoundsAssumption, SMT DEF CountersOK, DeltasOK, FetchStopped, Return
  <2>3. TasksOK'
    BY <1>5, MoveType, HoldType, ReturnType, ResumeType, Zenon DEF Tasks, Labels, FetchStopped
  <2> QED
    BY <2>1, <2>2, <2>3
<1>6. CASE TakeBuffered(t)
  <2>1. FlagsOK'
    BY <1>6, ZenonT(60) DEF FlagsOK, Tasks, Errors, Links, TakeBuffered, Return
  <2>2. CountersOK' /\ DeltasOK'
    <3>0. <<>> \in Seq(Nat) /\ Len(<<>>) <= MaxBuffered
        BY BoundsAssumption, SMT
    <3>1. CountersOK'
      BY <1>6, SMT DEF CountersOK, TakeBuffered, Return
    <3>2. DeltasOK'
      BY <1>6, <3>0, Zenon DEF DeltasOK, TakeBuffered, Return
    <3> QED
      BY <3>1, <3>2
  <2>3. TasksOK'
    <3>1. CASE Return(t, FALSE)
      BY <3>1, ReturnType, Zenon
    <3>2. CASE Hold(t, pending, "install")
      <4>1. pending \in Seq(Nat) /\ "install" \in Labels
        BY SMT DEF DeltasOK, Labels
      <4> QED
        BY <3>2, <4>1, HoldType, Zenon
    <3> QED
      BY <1>6, <3>1, <3>2, Zenon DEF TakeBuffered
  <2> QED
    BY <2>1, <2>2, <2>3
<1>7. CASE InstallSnapshot(t)
  <2>1. FlagsOK'
    BY <1>7, ZenonT(60) DEF FlagsOK, Tasks, Errors, Links, InstallSnapshot
  <2>2. CountersOK' /\ DeltasOK'
    <3>1. book' \in Nat
      BY <1>7, SMT DEF InstallSnapshot, TasksOK
    <3> QED
      BY <1>7, <3>1, SMT DEF CountersOK, DeltasOK, InstallSnapshot
  <2>3. TasksOK'
    BY <1>7, MoveType, HoldType, ReturnType, ResumeType, Zenon DEF Tasks, Labels, InstallSnapshot
  <2> QED
    BY <2>1, <2>2, <2>3
<1>8. CASE ApplyDelta(t)
  <2>1. FlagsOK'
    BY <1>8, ZenonT(60) DEF FlagsOK, Tasks, Errors, Links, ApplyDelta, Absorb
  <2>2. CountersOK' /\ DeltasOK'
    <3>1. book' \in Nat
      <4>1. batch[t] # <<>> => Head(batch[t]) \in Nat
        BY SMT DEF TasksOK
      <4> QED
        BY <1>8, <4>1, SMT DEF ApplyDelta, Absorb, CountersOK
    <3> QED
      BY <1>8, <3>1, SMT DEF CountersOK, DeltasOK, ApplyDelta
  <2>3. TasksOK'
    <3>1. CASE batch[t] = <<>>
      BY <1>8, <3>1, MoveType, ResumeType, Zenon DEF ApplyDelta
    <3>2. CASE batch[t] # <<>> /\ Gap(t)
      <4>1. <<>> \in Seq(Nat) /\ "request" \in Labels
        BY SMT DEF Labels
      <4> QED
        BY <1>8, <3>2, <4>1, HoldType, Zenon DEF ApplyDelta
    <3>3. CASE batch[t] # <<>> /\ ~Gap(t)
      <4>1. Tail(batch[t]) \in Seq(Nat) /\ "apply" \in Labels
        BY <3>3, SMT DEF TasksOK, Labels
      <4> QED
        BY <1>8, <3>3, <4>1, HoldType, Zenon DEF ApplyDelta
    <3> QED
      BY <3>1, <3>2, <3>3
  <2> QED
    BY <2>1, <2>2, <2>3
<1>9. CASE ReturnErr(t)
  <2>1. FlagsOK'
    BY <1>9, ZenonT(60) DEF FlagsOK, Tasks, Errors, Links, ReturnErr, Return
  <2>2. CountersOK' /\ DeltasOK'
    BY <1>9, BoundsAssumption, SMT DEF CountersOK, DeltasOK, ReturnErr, Return
  <2>3. TasksOK'
    BY <1>9, MoveType, HoldType, ReturnType, ResumeType, Zenon DEF Tasks, Labels, ReturnErr
  <2> QED
    BY <2>1, <2>2, <2>3
<1>10. CASE DrainOrReady(t)
  <2>1. FlagsOK'
    BY <1>10, ZenonT(60) DEF FlagsOK, Tasks, Errors, Links, DrainOrReady, Return
  <2>2. CountersOK' /\ DeltasOK'
    <3>0. <<>> \in Seq(Nat) /\ Len(<<>>) <= MaxBuffered
        BY BoundsAssumption, SMT
    <3>1. CountersOK'
      BY <1>10, SMT DEF CountersOK, DrainOrReady, Return
    <3>2. DeltasOK'
      BY <1>10, <3>0, Zenon DEF DeltasOK, DrainOrReady, Return
    <3> QED
      BY <3>1, <3>2
  <2>3. TasksOK'
    <3>0. "apply" \in Labels /\ "clearError" \in Labels
      BY SMT DEF Labels
    <3>1. CASE Return(t, FALSE)
      BY <3>1, ReturnType, Zenon
    <3>2. CASE Move(t, "clearError")
      BY <3>0, <3>2, MoveType, Zenon
    <3>3. CASE Hold(t, pending, "apply")
      <4>1. pending \in Seq(Nat)
        BY SMT DEF DeltasOK
      <4> QED
        BY <3>0, <3>3, <4>1, HoldType, Zenon
    <3> QED
      BY <1>10, <3>1, <3>2, <3>3, Zenon DEF DrainOrReady
  <2> QED
    BY <2>1, <2>2, <2>3
<1>11. CASE ClearError(t)
  <2>1. FlagsOK'
    BY <1>11, ZenonT(60) DEF FlagsOK, Tasks, Errors, Links, ClearError, Return
  <2>2. CountersOK' /\ DeltasOK'
    BY <1>11, BoundsAssumption, SMT DEF CountersOK, DeltasOK, ClearError, Return
  <2>3. TasksOK'
    BY <1>11, MoveType, HoldType, ReturnType, ResumeType, Zenon DEF Tasks, Labels, ClearError
  <2> QED
    BY <2>1, <2>2, <2>3
<1> QED
  BY <1>1, <1>2, <1>3, <1>4, <1>5, <1>6, <1>7, <1>8, <1>9, <1>10, <1>11 DEF RefreshStep

\* fail_closed.
LEMMA FailType ==
  ASSUME TypeOK, NEW t \in Tasks, FailStep(t)
  PROVE  TypeOK'
<1> USE DEF TypeOK, bufferVars, endVars, refreshVars, transportVars, budgetVars, historyVars
<1>1. CASE FailUnready(t)
  <2>1. FlagsOK'
    BY <1>1, ZenonT(60) DEF FlagsOK, Tasks, Errors, Links, FailUnready
  <2>2. CountersOK' /\ DeltasOK'
    BY <1>1, BoundsAssumption, SMT DEF CountersOK, DeltasOK, FailUnready
  <2>3. TasksOK'
    BY <1>1, MoveType, HoldType, ReturnType, ResumeType, Zenon DEF Tasks, Labels, FailUnready
  <2> QED
    BY <2>1, <2>2, <2>3
<1>2. CASE FailDispose(t)
  <2>1. FlagsOK'
    BY <1>2, ZenonT(60) DEF FlagsOK, Tasks, Errors, Links, FailDispose
  <2>2. CountersOK' /\ DeltasOK'
    BY <1>2, BoundsAssumption, SMT DEF CountersOK, DeltasOK, FailDispose
  <2>3. TasksOK'
    BY <1>2, MoveType, HoldType, ReturnType, ResumeType, Zenon DEF Tasks, Labels, FailDispose
  <2> QED
    BY <2>1, <2>2, <2>3
<1>3. CASE FailClear(t)
  <2>1. FlagsOK'
    BY <1>3, ZenonT(60) DEF FlagsOK, Tasks, Errors, Links, FailClear, ClearPublications
  <2>2. CountersOK' /\ DeltasOK'
    BY <1>3, BoundsAssumption, SMT DEF CountersOK, DeltasOK, FailClear, ClearPublications
  <2>3. TasksOK'
    BY <1>3, MoveType, HoldType, ReturnType, ResumeType, Zenon DEF Tasks, Labels, FailClear
  <2> QED
    BY <2>1, <2>2, <2>3
<1>4. CASE FailStop(t)
  <2>1. FlagsOK'
    BY <1>4, ZenonT(60) DEF FlagsOK, Tasks, Errors, Links, FailStop
  <2>2. CountersOK' /\ DeltasOK'
    BY <1>4, BoundsAssumption, SMT DEF CountersOK, DeltasOK, FailStop
  <2>3. TasksOK'
    <3>1. next[t] \in Labels
      BY SMT DEF TasksOK
    <3> QED
      BY <1>4, <3>1, MoveType DEF FailStop
  <2> QED
    BY <2>1, <2>2, <2>3
<1> QED
  BY <1>1, <1>2, <1>3, <1>4 DEF FailStep

\* The failures of the network and of the callbacks.
LEMMA FaultType ==
  ASSUME TypeOK, NEW t \in Tasks, TaskFault(t)
  PROVE  TypeOK'
<1> USE DEF TypeOK, bufferVars, endVars, refreshVars, transportVars, budgetVars, historyVars
<1>1. CASE FetchFails(t)
  <2>1. FlagsOK'
    BY <1>1, ZenonT(60) DEF FlagsOK, Tasks, Errors, Links, FetchFails, Return, Fault
  <2>2. CountersOK' /\ DeltasOK'
    BY <1>1, BoundsAssumption, SMT DEF CountersOK, DeltasOK, FetchFails, Return, Fault
  <2>3. TasksOK'
    BY <1>1, MoveType, HoldType, ReturnType, ResumeType, Zenon DEF Tasks, Labels, FetchFails
  <2> QED
    BY <2>1, <2>2, <2>3
<1>2. CASE InstallGarbled(t)
  <2>1. FlagsOK'
    BY <1>2, ZenonT(60) DEF FlagsOK, Tasks, Errors, Links, InstallGarbled, Fault
  <2>2. CountersOK' /\ DeltasOK'
    BY <1>2, BoundsAssumption, SMT DEF CountersOK, DeltasOK, InstallGarbled, Fault
  <2>3. TasksOK'
    <3>1. <<>> \in Seq(Nat) /\ "request" \in Labels
      BY SMT DEF Labels
    <3> QED
      BY <1>2, <3>1, HoldType, Zenon DEF InstallGarbled
  <2> QED
    BY <2>1, <2>2, <2>3
<1>3. CASE ApplyOverflows(t)
  <2>1. FlagsOK'
    BY <1>3, ZenonT(60) DEF FlagsOK, Tasks, Errors, Links, ApplyOverflows, Fault, Absorb
  <2>2. CountersOK' /\ DeltasOK'
    <3>1. book' \in Nat
      <4>1. batch[t] # <<>> => Head(batch[t]) \in Nat
        BY SMT DEF TasksOK
      <4> QED
        BY <1>3, <4>1, SMT DEF ApplyOverflows, Absorb, CountersOK
    <3> QED
      BY <1>3, <3>1, SMT DEF CountersOK, DeltasOK, ApplyOverflows, Fault
  <2>3. TasksOK'
    <3>1. batch' \in [Tasks -> Seq(Nat)]
      <4>1. batch \in [Tasks -> Seq(Nat)]
        BY DEF TasksOK
      <4>2. CASE batch[t] = <<>>
        BY <1>3, <4>1, <4>2, Zenon DEF ApplyOverflows
      <4>3. CASE batch[t] # <<>>
        <5>1. Tail(batch[t]) \in Seq(Nat)
          BY <4>1, <4>3, SMT
        <5>2. batch' = [batch EXCEPT ![t] = Tail(batch[t])]
          BY <1>3, <4>3, Zenon DEF ApplyOverflows
        <5> QED
          BY <4>1, <5>1, <5>2, UpdateType, Zenon
      <4> QED
        BY <4>2, <4>3
    <3>2. Failing(t, FALSE, "apply") /\ "apply" \in Labels
      BY <1>3 DEF ApplyOverflows, Labels
    <3> QED
      BY <3>1, <3>2, FailingType, Zenon
  <2> QED
    BY <2>1, <2>2, <2>3
<1>4. CASE ApplyPanics(t)
  <2>1. FlagsOK'
    BY <1>4, ZenonT(60) DEF FlagsOK, Tasks, Errors, Links, ApplyPanics, Fault
  <2>2. CountersOK' /\ DeltasOK'
    BY <1>4, BoundsAssumption, SMT DEF CountersOK, DeltasOK, ApplyPanics, Fault
  <2>3. TasksOK'
    <3>1. "returnErr" \in Labels /\ "done" \in Labels
      BY SMT DEF Labels
    <3>2. batch' \in [Tasks -> Seq(Nat)]
      BY <1>4, Zenon DEF ApplyPanics, TasksOK
    <3> QED
      BY <1>4, <3>1, <3>2, FailingType, Zenon DEF ApplyPanics
  <2> QED
    BY <2>1, <2>2, <2>3
<1> QED
  BY <1>1, <1>2, <1>3, <1>4 DEF TaskFault

\* run_requested_refreshes.
LEMMA WorkerType ==
  ASSUME TypeOK, NEW w \in Workers, WorkerStep(w)
  PROVE  TypeOK'
<1> USE DEF TypeOK, bufferVars, endVars, refreshVars, transportVars, budgetVars, historyVars
<1>0. w \in Tasks
  BY DEF Tasks
<1>1. CASE Round(w)
  <2>1. FlagsOK'
    BY <1>1, ZenonT(60) DEF FlagsOK, Tasks, Errors, Links, Round
  <2>2. CountersOK' /\ DeltasOK'
    BY <1>1, BoundsAssumption, SMT DEF CountersOK, DeltasOK, Round
  <2>3. TasksOK'
    BY <1>1, <1>0, SMT DEF TasksOK, Labels, Round, Goto
  <2> QED
    BY <2>1, <2>2, <2>3
<1>2. CASE Check(w)
  <2>1. FlagsOK'
    BY <1>2, ZenonT(60) DEF FlagsOK, Tasks, Errors, Links, Check
  <2>2. CountersOK' /\ DeltasOK'
    BY <1>2, BoundsAssumption, SMT DEF CountersOK, DeltasOK, Check
  <2>3. TasksOK'
    <3>0. {"idle", "idling", "pause"} \subseteq Labels
      BY SMT DEF Labels
    <3>1. CASE Failing(w, At(w, "checkErr"), "idle") /\ UNCHANGED batch
      <4>1. batch' \in [Tasks -> Seq(Nat)]
        BY <3>1, Zenon DEF TasksOK
      <4>2. At(w, "checkErr") \in BOOLEAN
        BY Zenon DEF At
      <4> QED
        BY <1>0, <3>0, <3>1, <4>1, <4>2, FailingType
    <3>2. CASE Move(w, "idle") \/ Move(w, "idling") \/ Move(w, "pause")
      BY <1>0, <3>0, <3>2, MoveType, Zenon
    <3> QED
      BY <1>2, <3>1, <3>2, Zenon DEF Check
  <2> QED
    BY <2>1, <2>2, <2>3
<1>3. CASE Pause(w)
  <2>1. FlagsOK'
    BY <1>3, ZenonT(60) DEF FlagsOK, Tasks, Errors, Links, Pause
  <2>2. CountersOK' /\ DeltasOK'
    BY <1>3, BoundsAssumption, SMT DEF CountersOK, DeltasOK, Pause
  <2>3. TasksOK'
    BY <1>3, MoveType, HoldType, ReturnType, ResumeType, Zenon DEF Tasks, Labels, Pause
  <2> QED
    BY <2>1, <2>2, <2>3
<1>4. CASE Idling(w)
  <2>1. FlagsOK'
    BY <1>4, ZenonT(60) DEF FlagsOK, Tasks, Errors, Links, Idling
  <2>2. CountersOK' /\ DeltasOK'
    BY <1>4, BoundsAssumption, SMT DEF CountersOK, DeltasOK, Idling
  <2>3. TasksOK'
    BY <1>4, MoveType, HoldType, ReturnType, ResumeType, Zenon DEF Tasks, Labels, Idling
  <2> QED
    BY <2>1, <2>2, <2>3
<1>5. CASE Handoff(w)
  <2>1. FlagsOK'
    <3>1. CASE TakesBack
      BY <1>5, <3>1, ZenonT(60) DEF FlagsOK, Tasks, Errors, Links, Handoff
    <3>2. CASE ~TakesBack
      BY <1>5, <3>2, ZenonT(60) DEF FlagsOK, Tasks, Errors, Links, Handoff
    <3> QED
      BY <3>1, <3>2
  <2>2. CountersOK' /\ DeltasOK'
    BY <1>5, BoundsAssumption, SMT DEF CountersOK, DeltasOK, Handoff
  <2>3. TasksOK'
    <3>0. "round" \in Labels /\ 0 \in Nat
      BY SMT DEF Labels
    <3>1. CASE TakesBack
      BY <1>5, <1>0, <3>0, <3>1, UpdateType, ZenonT(60) DEF TasksOK, Handoff, Goto
    <3>2. CASE ~TakesBack
      BY <1>5, <1>0, <3>2, MoveType, Zenon DEF Handoff, Labels
    <3> QED
      BY <3>1, <3>2
  <2> QED
    BY <2>1, <2>2, <2>3
<1> QED
  BY <1>1, <1>2, <1>3, <1>4, <1>5 DEF WorkerStep

\* run and pump_subscription.
LEMMA RunType ==
  ASSUME TypeOK, RunStep
  PROVE  TypeOK'
<1> USE DEF TypeOK, bufferVars, endVars, refreshVars, transportVars, budgetVars, historyVars
<1>1. CASE Connect
  <2>1. FlagsOK'
    BY <1>1, ZenonT(60) DEF FlagsOK, Tasks, Errors, Links, Connect
  <2>2. CountersOK' /\ DeltasOK'
    <3>0. <<>> \in Seq(Nat) /\ Len(<<>>) <= MaxBuffered
        BY BoundsAssumption, SMT
    <3>1. CountersOK'
      BY <1>1, SMT DEF CountersOK, Connect
    <3>2. DeltasOK'
      BY <1>1, <3>0, Zenon DEF DeltasOK, Connect
    <3> QED
      BY <3>1, <3>2
  <2>3. TasksOK'
    BY <1>1, MoveType, HoldType, ReturnType, ResumeType, Zenon DEF Tasks, Labels, Connect
  <2> QED
    BY <2>1, <2>2, <2>3
<1>2. CASE ConnectPause
  <2>1. FlagsOK'
    BY <1>2, ZenonT(60) DEF FlagsOK, Tasks, Errors, Links, ConnectPause
  <2>2. CountersOK' /\ DeltasOK'
    BY <1>2, BoundsAssumption, SMT DEF CountersOK, DeltasOK, ConnectPause
  <2>3. TasksOK'
    BY <1>2, MoveType, HoldType, ReturnType, ResumeType, Zenon DEF Tasks, Labels, ConnectPause
  <2> QED
    BY <2>1, <2>2, <2>3
<1>3. CASE Connected
  <2>1. FlagsOK'
    BY <1>3, ZenonT(60) DEF FlagsOK, Tasks, Errors, Links, Connected
  <2>2. CountersOK' /\ DeltasOK'
    BY <1>3, BoundsAssumption, SMT DEF CountersOK, DeltasOK, Connected
  <2>3. TasksOK'
    <3>1. Run \in Tasks /\ {"done", "pump", "gate"} \subseteq Labels
      BY SMT DEF Tasks, Labels
    <3>2. CASE disposed \/ stopped
      BY <1>3, <3>1, <3>2, MoveType, Zenon DEF Connected
    <3>3. CASE ~disposed /\ ~stopped
      <4>1. 1 \in Nat /\ (IF tries[Run] = 0 THEN "pump" ELSE "gate") \in Labels
        BY <3>1, SMT
      <4>2. at' = [at EXCEPT ![Run] = IF tries[Run] = 0 THEN "pump" ELSE "gate"]
        BY <1>3, <3>3, Zenon DEF Connected, Goto
      <4>3. at' \in [Tasks -> Labels]
        BY <4>1, <4>2, UpdateType DEF TasksOK
      <4> QED
        BY <1>3, <3>3, <4>1, <4>3, UpdateType, Zenon DEF TasksOK, Connected
    <3> QED
      BY <3>2, <3>3
  <2> QED
    BY <2>1, <2>2, <2>3
<1>4. CASE HandlePublication
  <2>1. FlagsOK'
    BY <1>4, ZenonT(60) DEF FlagsOK, Tasks, Errors, Links, HandlePublication
  <2>2. CountersOK' /\ DeltasOK'
    <3>0. <<>> \in Seq(Nat) /\ Len(<<>>) <= MaxBuffered
        BY BoundsAssumption, SMT
    <3>1. queue' \in Seq(Nat) /\ Head(queue) \in Nat
      BY <1>4, SMT DEF HandlePublication, DeltasOK
    <3>2. CountersOK'
      <4>1. handled' \in Nat
        BY <1>4, <3>1, Zenon DEF CountersOK, HandlePublication
      <4> QED
        BY <1>4, <4>1, Zenon DEF CountersOK, HandlePublication
    <3>3. Len(pending) < MaxBuffered => /\ Append(pending, Head(queue)) \in Seq(Nat)
                                       /\ Len(Append(pending, Head(queue))) <= MaxBuffered
      BY <3>1, BoundsAssumption, SMT DEF DeltasOK
    <3>4. pending' \in Seq(Nat) /\ Len(pending') <= MaxBuffered
      BY <1>4, <3>0, <3>3, Zenon DEF HandlePublication, HasRoom, DeltasOK
    <3> QED
      BY <3>1, <3>2, <3>4 DEF DeltasOK
  <2>3. TasksOK'
    <3>1. Run \in Tasks /\ "pump" \in Labels /\ "live" \in Labels
      BY SMT DEF Tasks, Labels
    <3>2. <<Head(queue)>> \in Seq(Nat)
      BY <1>4, SMT DEF HandlePublication, DeltasOK
    <3>3. CASE UNCHANGED <<at, localVars>>
      BY <3>3, Zenon DEF TasksOK, localVars
    <3>4. CASE Failing(Run, FALSE, "pump") /\ UNCHANGED batch
      <4>1. batch' \in [Tasks -> Seq(Nat)]
        BY <3>4, Zenon DEF TasksOK
      <4> QED
        BY <3>1, <3>4, <4>1, FailingType, Zenon
    <3>5. CASE Hold(Run, <<Head(queue)>>, "live")
      BY <3>1, <3>2, <3>5, HoldType, Zenon
    <3> QED
      BY <1>4, <3>3, <3>4, <3>5, Zenon DEF HandlePublication
  <2> QED
    BY <2>1, <2>2, <2>3
<1>5. CASE ApplyLive
  <2>1. FlagsOK'
    BY <1>5, ZenonT(60) DEF FlagsOK, Tasks, Errors, Links, ApplyLive
  <2>2. CountersOK' /\ DeltasOK'
    BY <1>5, BoundsAssumption, SMT DEF CountersOK, DeltasOK, ApplyLive
  <2>3. TasksOK'
    <3>1. Run \in Tasks /\ <<>> \in Seq(Nat)
      BY SMT DEF Tasks
    <3>2. CASE disposed
      BY <1>5, <3>1, <3>2, HoldType, Zenon DEF ApplyLive, Labels
    <3>3. CASE ~disposed
      BY <1>5, <3>1, <3>3, MoveType, Zenon DEF ApplyLive, Labels
    <3> QED
      BY <3>2, <3>3
  <2> QED
    BY <2>1, <2>2, <2>3
<1>6. CASE PumpLosesLink
  <2>1. FlagsOK'
    BY <1>6, ZenonT(60) DEF FlagsOK, Tasks, Errors, Links, PumpLosesLink
  <2>2. CountersOK' /\ DeltasOK'
    BY <1>6, BoundsAssumption, SMT DEF CountersOK, DeltasOK, PumpLosesLink
  <2>3. TasksOK'
    BY <1>6, MoveType, HoldType, ReturnType, ResumeType, Zenon DEF Tasks, Labels, PumpLosesLink
  <2> QED
    BY <2>1, <2>2, <2>3
<1>7. CASE PumpEnds
  <2>1. FlagsOK'
    BY <1>7, ZenonT(60) DEF FlagsOK, Tasks, Errors, Links, PumpEnds
  <2>2. CountersOK' /\ DeltasOK'
    BY <1>7, BoundsAssumption, SMT DEF CountersOK, DeltasOK, PumpEnds
  <2>3. TasksOK'
    <3>1. Run \in Tasks /\ "done" \in Labels
      BY SMT DEF Tasks, Labels
    <3>2. CASE disposed
      BY <1>7, <3>1, <3>2, MoveType, Zenon DEF PumpEnds
    <3>3. CASE ~disposed
      <4>1. Failing(Run, FALSE, "done") /\ batch' = batch
        BY <1>7, <3>3 DEF PumpEnds
      <4>2. batch' \in [Tasks -> Seq(Nat)]
        BY <4>1, Zenon DEF TasksOK
      <4> QED
        BY <3>1, <4>1, <4>2, FailingType, Zenon
    <3> QED
      BY <3>2, <3>3
  <2> QED
    BY <2>1, <2>2, <2>3
<1>8. CASE PumpStops
  <2>1. FlagsOK'
    BY <1>8, ZenonT(60) DEF FlagsOK, Tasks, Errors, Links, PumpStops
  <2>2. CountersOK' /\ DeltasOK'
    BY <1>8, BoundsAssumption, SMT DEF CountersOK, DeltasOK, PumpStops
  <2>3. TasksOK'
    BY <1>8, MoveType, HoldType, ReturnType, ResumeType, Zenon DEF Tasks, Labels, PumpStops
  <2> QED
    BY <2>1, <2>2, <2>3
<1>9. CASE RunUnready
  <2>1. FlagsOK'
    BY <1>9, ZenonT(60) DEF FlagsOK, Tasks, Errors, Links, RunUnready
  <2>2. CountersOK' /\ DeltasOK'
    BY <1>9, BoundsAssumption, SMT DEF CountersOK, DeltasOK, RunUnready
  <2>3. TasksOK'
    BY <1>9, MoveType, HoldType, ReturnType, ResumeType, Zenon DEF Tasks, Labels, RunUnready
  <2> QED
    BY <2>1, <2>2, <2>3
<1> QED
  BY <1>1, <1>2, <1>3, <1>4, <1>5, <1>6, <1>7, <1>8, <1>9 DEF RunStep

\* The callers of the handle.
LEMMA CallerType ==
  ASSUME TypeOK, NEW c \in Callers, CallerStep(c) \/ CallerCalls(c) \/ CallerCancels(c)
  PROVE  TypeOK'
<1> USE DEF TypeOK, bufferVars, endVars, refreshVars, transportVars, budgetVars, historyVars
<1>0. c \in Tasks
  BY DEF Tasks
<1>1. CASE CloseDispose(c)
  <2>1. FlagsOK'
    BY <1>1, ZenonT(60) DEF FlagsOK, Tasks, Errors, Links, CloseDispose
  <2>2. CountersOK' /\ DeltasOK'
    BY <1>1, BoundsAssumption, SMT DEF CountersOK, DeltasOK, CloseDispose
  <2>3. TasksOK'
    BY <1>1, MoveType, HoldType, ReturnType, ResumeType, Zenon DEF Tasks, Labels, CloseDispose
  <2> QED
    BY <2>1, <2>2, <2>3
<1>2. CASE CloseClear(c)
  <2>1. FlagsOK'
    BY <1>2, ZenonT(60) DEF FlagsOK, Tasks, Errors, Links, CloseClear, ClearPublications
  <2>2. CountersOK' /\ DeltasOK'
    BY <1>2, BoundsAssumption, SMT DEF CountersOK, DeltasOK, CloseClear, ClearPublications
  <2>3. TasksOK'
    BY <1>2, MoveType, HoldType, ReturnType, ResumeType, Zenon DEF Tasks, Labels, CloseClear
  <2> QED
    BY <2>1, <2>2, <2>3
<1>3. CASE CloseStop(c)
  <2>1. FlagsOK'
    BY <1>3, ZenonT(60) DEF FlagsOK, Tasks, Errors, Links, CloseStop
  <2>2. CountersOK' /\ DeltasOK'
    BY <1>3, BoundsAssumption, SMT DEF CountersOK, DeltasOK, CloseStop
  <2>3. TasksOK'
    BY <1>3, MoveType, HoldType, ReturnType, ResumeType, Zenon DEF Tasks, Labels, CloseStop
  <2> QED
    BY <2>1, <2>2, <2>3
<1>4. CASE CallerCalls(c)
  <2>1. FlagsOK'
    BY <1>4, ZenonT(60) DEF FlagsOK, Tasks, Errors, Links, CallerCalls, Call
  <2>2. CountersOK' /\ DeltasOK'
    BY <1>4, BoundsAssumption, SMT DEF CountersOK, DeltasOK, CallerCalls, Call
  <2>3. TasksOK'
    BY <1>4, MoveType, HoldType, ReturnType, ResumeType, Zenon DEF Tasks, Labels, CallerCalls
  <2> QED
    BY <2>1, <2>2, <2>3
<1>5. CASE CallerCancels(c)
  <2>1. FlagsOK'
    BY <1>5, ZenonT(60) DEF FlagsOK, Tasks, Errors, Links, CallerCancels, Fault
  <2>2. CountersOK' /\ DeltasOK'
    BY <1>5, BoundsAssumption, SMT DEF CountersOK, DeltasOK, CallerCancels, Fault
  <2>3. TasksOK'
    BY <1>5, MoveType, HoldType, ReturnType, ResumeType, Zenon DEF Tasks, Labels, CallerCancels
  <2> QED
    BY <2>1, <2>2, <2>3
<1> QED
  BY <1>1, <1>2, <1>3, <1>4, <1>5 DEF CallerStep

\* The start, close, the exchange and the network.
LEMMA OutsideType ==
  ASSUME TypeOK, StartStep \/ StartTimesOut \/ ConnectFails \/ Publish \/ LinkFails
  PROVE  TypeOK'
<1> USE DEF TypeOK, bufferVars, endVars, refreshVars, transportVars, budgetVars, historyVars
<1>1. CASE StartStep
  <2>1. FlagsOK'
    BY <1>1, ZenonT(60) DEF FlagsOK, Tasks, Errors, Links, StartStep
  <2>2. CountersOK' /\ DeltasOK'
    BY <1>1, BoundsAssumption, SMT DEF CountersOK, DeltasOK, StartStep
  <2>3. TasksOK'
    BY <1>1, TasksAssumption, MoveType, Zenon DEF Tasks, Labels, StartStep
  <2> QED
    BY <2>1, <2>2, <2>3
<1>2. CASE StartTimesOut
  <2>1. FlagsOK'
    BY <1>2, ZenonT(60) DEF FlagsOK, Tasks, Errors, Links, StartTimesOut, Fault
  <2>2. CountersOK' /\ DeltasOK'
    BY <1>2, BoundsAssumption, SMT DEF CountersOK, DeltasOK, StartTimesOut, Fault
  <2>3. TasksOK'
    <3>1. Starter \in Tasks /\ "close" \in Labels
      BY TasksAssumption, SMT DEF Tasks, Labels
    <3>2. Failing(Starter, FALSE, "close") /\ batch' = batch
      BY <1>2 DEF StartTimesOut
    <3>3. batch' \in [Tasks -> Seq(Nat)]
      BY <3>2, Zenon DEF TasksOK
    <3> QED
      BY <3>1, <3>2, <3>3, FailingType, Zenon
  <2> QED
    BY <2>1, <2>2, <2>3
<1>3. CASE ConnectFails
  <2>1. FlagsOK'
    BY <1>3, ZenonT(60) DEF FlagsOK, Tasks, Errors, Links, ConnectFails, Fault
  <2>2. CountersOK' /\ DeltasOK'
    BY <1>3, BoundsAssumption, SMT DEF CountersOK, DeltasOK, ConnectFails, Fault
  <2>3. TasksOK'
    BY <1>3, MoveType, HoldType, ReturnType, ResumeType, Zenon DEF Tasks, Labels, ConnectFails
  <2> QED
    BY <2>1, <2>2, <2>3
<1>4. CASE Publish
  <2>1. FlagsOK'
    BY <1>4, ZenonT(60) DEF FlagsOK, Tasks, Errors, Links, Publish, Fault
  <2>2. CountersOK' /\ DeltasOK'
    <3>1. CountersOK'
      BY <1>4, SMT DEF CountersOK, Publish, Fault
    <3>2. Append(queue, server') \in Seq(Nat)
      BY <3>1, SMT DEF CountersOK, DeltasOK
    <3>3. DeltasOK'
      BY <1>4, <3>2, Zenon DEF DeltasOK, Publish
    <3> QED
      BY <3>1, <3>3
  <2>3. TasksOK'
    BY <1>4, Zenon DEF TasksOK, localVars, Publish
  <2> QED
    BY <2>1, <2>2, <2>3
<1>5. CASE LinkFails
  <2>1. FlagsOK'
    BY <1>5, ZenonT(60) DEF FlagsOK, Tasks, Errors, Links, LinkFails, Fault
  <2>2. CountersOK' /\ DeltasOK'
    BY <1>5, BoundsAssumption, SMT DEF CountersOK, DeltasOK, LinkFails, Fault
  <2>3. TasksOK'
    BY <1>5, Zenon DEF TasksOK, localVars, LinkFails
  <2> QED
    BY <2>1, <2>2, <2>3
<1> QED
  BY <1>1, <1>2, <1>3, <1>4, <1>5

\* Every step.
LEMMA TypeStep ==
  ASSUME TypeOK, [Next]_vars
  PROVE  TypeOK'
<1>1. CASE Next
  BY <1>1, RequestType, RefreshType, FailType, FaultType, WorkerType, RunType,
     CallerType, OutsideType DEF Next, TaskStep, Environment
<1>2. CASE UNCHANGED vars
  <2> USE DEF vars, bufferVars, endVars, refreshVars, transportVars, budgetVars,
        historyVars, localVars
  <2>1. FlagsOK'
    BY <1>2, Zenon DEF TypeOK, FlagsOK
  <2>2. CountersOK' /\ DeltasOK'
    BY <1>2, Zenon DEF TypeOK, CountersOK, DeltasOK
  <2>3. TasksOK'
    BY <1>2, Zenon DEF TypeOK, TasksOK
  <2> QED
    BY <2>1, <2>2, <2>3 DEF TypeOK
<1> QED
  BY <1>1, <1>2

\* Type correctness: in every state of every stream, whatever the number of
\* tasks, updates, calls and faults, each position is a label of the code and
\* handle_publication never leaves more than max_buffered deltas waiting.
THEOREM TypeCorrect == Spec => []TypeOK
<1>1. Init => TypeOK
  BY TypeInit
<1>2. TypeOK /\ [Next]_vars => TypeOK'
  BY TypeStep
<1> QED
  BY <1>1, <1>2, PTL DEF Spec

-----------------------------------------------------------------------------
(* The invariant and the refinement *)

\* No publications are up to anything.
LEMMA UptoEmpty == \A n : Upto(<<>>, n)
BY SMT DEF Upto

\* What follows the first publication is still up to the same entry.
LEMMA UptoHead ==
  ASSUME NEW q \in Seq(Nat), q # <<>>, NEW n \in Nat, Upto(q, n)
  PROVE  Head(q) <= n /\ Upto(Tail(q), n) /\ Upto(<<Head(q)>>, n)
<1>1. Head(q) = q[1] /\ 1 \in DOMAIN q
  BY SMT
<1>2. \A i \in DOMAIN Tail(q) : Tail(q)[i] = q[i + 1] /\ i + 1 \in DOMAIN q
  BY SMT
<1>3. \A i \in DOMAIN <<Head(q)>> : <<Head(q)>>[i] = Head(q)
  BY SMT
<1> QED
  BY <1>1, <1>2, <1>3, SMT DEF Upto

\* A publication of the next entry may be appended.
LEMMA UptoAppend ==
  ASSUME NEW q \in Seq(Nat), NEW e \in Nat, NEW n \in Nat, Upto(q, n), e <= n
  PROVE  Upto(Append(q, e), n)
BY SMT DEF Upto

\* A longer log changes nothing about the publications at hand.
LEMMA UptoMore ==
  ASSUME NEW q \in Seq(Nat), NEW m \in Nat, NEW n \in Nat, Upto(q, m), m <= n
  PROVE  Upto(q, n)
BY SMT DEF Upto

\* Where a task that moves, and every other task, is after the step.
LEMMA MoveAt ==
  ASSUME TasksOK, NEW t \in Tasks, NEW l, Move(t, l)
  PROVE  /\ at'[t] = l /\ \A s \in Tasks : s # t => at'[s] = at[s]
         /\ next' = next /\ gen' = gen /\ snap' = snap /\ batch' = batch
BY Zenon DEF TasksOK, Move, Goto, localVars

\* What a task that takes publications holds, and where everybody is.
LEMMA HoldAt ==
  ASSUME TasksOK, NEW t \in Tasks, NEW l, NEW d, Hold(t, d, l)
  PROVE  /\ at'[t] = l /\ \A s \in Tasks : s # t => at'[s] = at[s]
         /\ batch'[t] = d /\ \A s \in Tasks : s # t => batch'[s] = batch[s]
         /\ next' = next /\ gen' = gen /\ snap' = snap
BY Zenon DEF TasksOK, Hold, Goto

\* Where a task that enters fail_closed is, and what it will return to.
LEMMA FailingAt ==
  ASSUME TasksOK, NEW t \in Tasks, NEW r, NEW c, Failing(t, r, c)
  PROVE  /\ at'[t] = "fail" /\ next'[t] = c
         /\ \A s \in Tasks : s # t => at'[s] = at[s] /\ next'[s] = next[s]
         /\ gen' = gen /\ snap' = snap
BY Zenon DEF TasksOK, Failing, Goto

Left == {"pump", "gate", "fail", "checkErr", "check", "close", "idle"}

\* Where a task that returns from a refresh is.
LEMMA ReturnAt ==
  ASSUME TasksOK, NEW t \in Tasks, NEW e, Return(t, e)
  PROVE  /\ gate' = NoTask
         /\ at'[t] \in Left
         /\ at'[t] = "fail" => next'[t] = "unready"
         /\ next'[t] \in {next[t], "unready"}
         /\ batch'[t] = <<>>
         /\ \A s \in Tasks : s # t => /\ at'[s] = at[s] /\ next'[s] = next[s]
                                      /\ batch'[s] = batch[s]
         /\ gen' = gen /\ snap' = snap
<1>1. gate' = NoTask /\ batch'[t] = <<>> /\ gen' = gen /\ snap' = snap
  BY Zenon DEF TasksOK, Return
<1>2. \A s \in Tasks : s # t => /\ at'[s] = at[s] /\ next'[s] = next[s]
                                /\ batch'[s] = batch[s]
  BY Zenon DEF TasksOK, Return, Goto
<1>3. at'[t] = AfterRefresh(t, e)
  BY Zenon DEF TasksOK, Return, Goto
<1>4. next'[t] = IF t = Run THEN "unready" ELSE next[t]
  BY SMT DEF TasksOK, Return
<1>5. AfterRefresh(t, e) \in Left /\ (AfterRefresh(t, e) = "fail" => t = Run)
  BY TasksAssumption, SMT DEF AfterRefresh, Left, Tasks
<1> QED
  BY <1>1, <1>2, <1>3, <1>4, <1>5, SMT

\* A worker that starts holds nothing.
LEMMA ReqSpawnKeeps ==
  ASSUME IInv, NEW t \in Tasks, ReqSpawn(t)
  PROVE  Consistent'
<1> USE DEF IInv, TypeOK, Consistent
<1>1. /\ UNCHANGED <<gate, book, asked, server, queue, pending, buffering, generation, disposed>>
      /\ UNCHANGED <<next, gen, snap, batch>>
  BY Zenon DEF ReqSpawn, Move, localVars, bufferVars, endVars, transportVars, historyVars
<1>2. at[t] = "reqSpawn" /\ at'[t] = Resume(t)
  <2>1. CASE workerRunning
    <3>1. Move(t, Resume(t)) /\ at[t] = "reqSpawn"
      BY <2>1 DEF ReqSpawn, At
    <3> QED
      BY <3>1, MoveAt
  <2>2. CASE ~workerRunning
    <3>1. PICK w \in Workers : at[w] = "idle" /\ at' = [at EXCEPT ![t] = Resume(t), ![w] = "round"]
      BY <2>2, Zenon DEF ReqSpawn, At
    <3>2. at[t] = "reqSpawn"
      BY DEF ReqSpawn, At
    <3> QED
      BY <3>1, <3>2, SMT DEF TasksOK
  <2> QED
    BY <2>1, <2>2
<1>3. \A s \in Tasks : s # t => at'[s] = at[s] \/ (at[s] = "idle" /\ at'[s] = "round")
  <2>1. CASE workerRunning
    <3>1. Move(t, Resume(t))
      BY <2>1 DEF ReqSpawn
    <3> QED
      BY <3>1, MoveAt
  <2>2. CASE ~workerRunning
    <3>1. PICK w \in Workers : at[w] = "idle" /\ at' = [at EXCEPT ![t] = Resume(t), ![w] = "round"]
      BY <2>2, Zenon DEF ReqSpawn, At
    <3> QED
      BY <3>1, SMT DEF TasksOK
  <2> QED
    BY <2>1, <2>2
<1>4. HolderOK' /\ SharedOK'
  BY <1>1, <1>2, <1>3, SMT DEF HolderOK, SharedOK, FlagsOK, Resume, Refreshing, Requesting, FailSteps, Upto
<1>5. ASSUME NEW s \in Tasks PROVE TaskOK(s)'
  <2>1. CASE s = t
    BY <1>1, <1>2, <2>1, SMT DEF TaskOK, PlaceOK, HeldOK, FetchOK, AnswerOK, Current, Upto, Resume, Refreshing, AfterFail, FailSteps, CountersOK, TasksOK
  <2>2. CASE s # t
    BY <1>1, <1>3, <2>2, SMT DEF TaskOK, PlaceOK, HeldOK, FetchOK, AnswerOK, Current, Upto, Refreshing, AfterFail, FailSteps
  <2> QED
    BY <2>1, <2>2
<1> QED
  BY <1>4, <1>5

\* A refresh that begins has fetched nothing, and the gate buffers.
LEMMA BeginRefreshKeeps ==
  ASSUME IInv, NEW t \in Tasks, BeginRefresh(t)
  PROVE  Consistent'
<1> USE DEF IInv, TypeOK, Consistent
<1>1. /\ at[t] = "begin"
      /\ UNCHANGED <<book, server, queue, pending, buffering, disposed, snap>>
  BY Zenon DEF BeginRefresh, Return, At, bufferVars, endVars, transportVars
<1>2. CASE disposed
  <2>1. PICK e \in BOOLEAN : Return(t, e) /\ UNCHANGED <<generation, asked>>
    BY <1>2, Zenon DEF BeginRefresh
  <2>2. HolderOK' /\ SharedOK'
    BY <1>1, <2>1, SMT DEF Return, HolderOK, SharedOK, Upto
  <2>3. gate' = NoTask /\ at'[t] \in Left /\ (at'[t] = "fail" => next'[t] = "unready")
        /\ next'[t] \in {next[t], "unready"} /\ batch'[t] = <<>> /\ gen' = gen
    BY <2>1, ReturnAt, Zenon
  <2>4. \A s \in Tasks : s # t => at'[s] = at[s] /\ next'[s] = next[s] /\ batch'[s] = batch[s]
    BY <2>1, ReturnAt, Zenon
  <2>5. ASSUME NEW s \in Tasks PROVE TaskOK(s)'
    <3>1. CASE s = t
      BY <1>1, <2>1, <2>3, <3>1, TasksAssumption, SMT DEF TaskOK, PlaceOK, HeldOK, FetchOK, AnswerOK, Current, Upto, Left, Refreshing, AfterFail, FailSteps, Tasks
    <3>2. CASE s # t
      BY <1>1, <2>1, <2>3, <2>4, <3>2, TasksAssumption, SMT DEF TaskOK, PlaceOK, HeldOK, FetchOK, AnswerOK, Current, Upto, Refreshing, AfterFail, FailSteps, Tasks
    <3> QED
      BY <3>1, <3>2
  <2> QED
    BY <2>2, <2>5
<1>3. CASE ~disposed
  <2>1. /\ generation' = generation + 1 /\ asked' = server /\ gate' = gate
        /\ at'[t] = "buffer" /\ gen'[t] = generation'
        /\ next' = next /\ batch' = batch
    BY <1>3, Zenon DEF BeginRefresh, Goto, TasksOK
  <2>2. \A s \in Tasks : s # t => at'[s] = at[s] /\ gen'[s] = gen[s]
    BY <1>3, Zenon DEF BeginRefresh, Goto, TasksOK
  <2>3. HolderOK' /\ SharedOK'
    BY <1>1, <2>1, <2>2, SMT DEF HolderOK, SharedOK, Upto, FlagsOK, CountersOK, Refreshing, AfterFail, FailSteps
  <2>4. ASSUME NEW s \in Tasks PROVE TaskOK(s)'
    <3>1. CASE s = t
      BY <1>1, <2>1, <3>1, SMT DEF TaskOK, PlaceOK, HeldOK, FetchOK, AnswerOK, Refreshing, AfterFail, FailSteps, CountersOK
    <3>2. CASE s # t
      BY <1>1, <2>1, <2>2, <3>2, SMTT(60) DEF TaskOK, PlaceOK, HeldOK, FetchOK, AnswerOK, Current, Upto, Refreshing, AfterFail, FailSteps, CountersOK, TasksOK
    <3> QED
      BY <3>1, <3>2
  <2> QED
    BY <2>3, <2>4
<1> QED
  BY <1>2, <1>3

\* take_buffered_if_current: what was buffered since the request is held.
LEMMA TakeBufferedKeeps ==
  ASSUME IInv, NEW t \in Tasks, TakeBuffered(t)
  PROVE  Consistent'
<1> USE DEF IInv, TypeOK, Consistent
<1>1. /\ at[t] = "take"
      /\ UNCHANGED <<book, asked, server, queue, buffering, disposed, generation>>
      /\ pending' = pending \/ pending' = <<>>
  BY Zenon DEF TakeBuffered, At, endVars, transportVars, historyVars
<1>2. CASE Return(t, FALSE)
  <2>1. gate' = NoTask /\ at'[t] \in Left /\ next'[t] \in {next[t], "unready"}
        /\ (at'[t] = "fail" => next'[t] = "unready") /\ batch'[t] = <<>> /\ gen' = gen
    BY <1>2, ReturnAt, Zenon
  <2>2. \A s \in Tasks : s # t => at'[s] = at[s] /\ next'[s] = next[s] /\ batch'[s] = batch[s]
    BY <1>2, ReturnAt, Zenon
  <2>3. snap' = snap /\ HolderOK' /\ SharedOK'
    BY <1>1, <1>2, UptoEmpty, SMT DEF Return, HolderOK, SharedOK
  <2>4. ASSUME NEW s \in Tasks PROVE TaskOK(s)'
    <3>1. CASE s = t
      BY <1>1, <2>1, <2>3, <3>1, TasksAssumption, SMT DEF TaskOK, PlaceOK, HeldOK, FetchOK, AnswerOK, Upto, Left, Refreshing, AfterFail, FailSteps, Tasks
    <3>2. CASE s # t
      BY <1>1, <2>1, <2>2, <2>3, <3>2, TasksAssumption, SMT DEF TaskOK, PlaceOK, HeldOK, FetchOK, AnswerOK, Current, Upto, Refreshing, AfterFail, FailSteps, Tasks
    <3> QED
      BY <3>1, <3>2
  <2> QED
    BY <2>3, <2>4
<1>3. CASE ~Return(t, FALSE)
  <2>1. gate' = gate /\ buffering /\ Hold(t, pending, "install")
    BY <1>3, Zenon DEF TakeBuffered
  <2>2. at'[t] = "install" /\ batch'[t] = pending /\ next' = next /\ gen' = gen /\ snap' = snap
    BY <2>1, HoldAt, Zenon
  <2>3. \A s \in Tasks : s # t => at'[s] = at[s] /\ batch'[s] = batch[s]
    BY <2>1, HoldAt, Zenon
  <2>4. HolderOK' /\ SharedOK'
    BY <1>1, <2>1, <2>2, <2>3, UptoEmpty, SMT DEF HolderOK, SharedOK, FlagsOK, Refreshing, AfterFail, FailSteps
  <2>5. ASSUME NEW s \in Tasks PROVE TaskOK(s)'
    <3>1. CASE s = t
      BY <1>1, <2>1, <2>2, <2>3, <3>1, SMT DEF TaskOK, PlaceOK, HeldOK, FetchOK, AnswerOK, Current, Upto, Refreshing, AfterFail, FailSteps, SharedOK, Tasks
    <3>2. CASE s # t
      BY <1>1, <2>1, <2>2, <2>3, <3>2, SMT DEF TaskOK, PlaceOK, HeldOK, FetchOK, AnswerOK, Current, Upto, Refreshing, AfterFail, FailSteps, Tasks
    <3> QED
      BY <3>1, <3>2
  <2> QED
    BY <2>4, <2>5
<1> QED
  BY <1>2, <1>3

\* take_or_mark_ready: the gate opens only for a book that is up to date.
LEMMA DrainOrReadyKeeps ==
  ASSUME IInv, NEW t \in Tasks, DrainOrReady(t)
  PROVE  Consistent'
<1> USE DEF IInv, TypeOK, Consistent
<1>1. /\ at[t] = "drain" /\ gate = t
      /\ UNCHANGED <<book, asked, server, queue, disposed, generation>>
      /\ pending' = pending \/ pending' = <<>>
  BY Zenon DEF DrainOrReady, At, endVars, transportVars, historyVars, bufferVars, TaskOK, PlaceOK, Refreshing
<1>2. \A s \in Tasks : s # t => at[s] \notin Refreshing
  BY <1>1, SMT DEF TaskOK, PlaceOK
<1>3. CASE ~Current(t)
  <2>1. gate' = NoTask /\ at'[t] \in Left /\ next'[t] \in {next[t], "unready"}
        /\ (at'[t] = "fail" => next'[t] = "unready") /\ batch'[t] = <<>> /\ gen' = gen
    BY <1>3, ReturnAt, Zenon DEF DrainOrReady
  <2>2. \A s \in Tasks : s # t => at'[s] = at[s] /\ next'[s] = next[s] /\ batch'[s] = batch[s]
    BY <1>3, ReturnAt, Zenon DEF DrainOrReady
  <2>3. HolderOK' /\ SharedOK'
    BY <1>1, <2>1, UptoEmpty, SMT DEF HolderOK, SharedOK
  <2>4. ASSUME NEW s \in Tasks PROVE TaskOK(s)'
    <3>1. CASE s = t
      BY <1>1, <2>1, <3>1, TasksAssumption, SMT DEF TaskOK, PlaceOK, HeldOK, FetchOK, AnswerOK, Upto, Left, Refreshing, AfterFail, FailSteps, Tasks
    <3>2. CASE s # t
      BY <1>1, <1>2, <2>1, <2>2, <3>2, TasksAssumption, SMT DEF TaskOK, PlaceOK, HeldOK, FetchOK, AnswerOK, Upto, Refreshing, AfterFail, FailSteps, Tasks
    <3> QED
      BY <3>1, <3>2
  <2> QED
    BY <2>3, <2>4
<1>4. CASE Current(t)
  <2>1. /\ gate' = gate /\ next' = next /\ gen' = gen
        /\ \/ at'[t] = "clearError" /\ batch' = batch
           \/ at'[t] = "apply" /\ batch'[t] = pending
        /\ \A s \in Tasks : s # t => at'[s] = at[s] /\ batch'[s] = batch[s]
    <3>1. CASE Drained
      BY <1>4, <3>1, MoveAt, Zenon DEF DrainOrReady
    <3>2. CASE ~Drained
      BY <1>4, <3>2, HoldAt, Zenon DEF DrainOrReady
    <3> QED
      BY <3>1, <3>2
  <2>2. HolderOK' /\ SharedOK'
    BY <1>1, <2>1, UptoEmpty, SMT DEF HolderOK, SharedOK, Refreshing, AfterFail, FailSteps
  <2>3. ASSUME NEW s \in Tasks PROVE TaskOK(s)'
    <3>1. CASE s = t
      BY <1>1, <2>1, <3>1, SMT DEF TaskOK, PlaceOK, HeldOK, FetchOK, AnswerOK, Current, Upto, Refreshing, AfterFail, FailSteps, SharedOK
    <3>2. CASE s # t
      BY <1>1, <1>2, <2>1, <3>2, SMT DEF TaskOK, PlaceOK, HeldOK, FetchOK, AnswerOK, Upto, Refreshing, AfterFail, FailSteps
    <3> QED
      BY <3>1, <3>2
  <2> QED
    BY <2>2, <2>3
<1> QED
  BY <1>3, <1>4

\* A publication held by a refresh or by the pump is the next of the book.
LEMMA ApplyDeltaKeeps ==
  ASSUME IInv, NEW t \in Tasks, ApplyDelta(t)
  PROVE  Consistent'
<1> USE DEF IInv, TypeOK, Consistent
<1>1. /\ at[t] = "apply"
      /\ UNCHANGED <<asked, server, queue, pending, buffering, disposed, generation, gate>>
  BY Zenon DEF ApplyDelta, At, endVars, transportVars, historyVars, bufferVars
<1>2. /\ next' = next /\ gen' = gen /\ snap' = snap
      /\ \A s \in Tasks : s # t => at'[s] = at[s] /\ batch'[s] = batch[s]
      /\ at'[t] \in {Resume(t), "request", "apply"}
      /\ at'[t] = "apply" \/ batch'[t] = <<>>
      /\ Upto(batch'[t], server)
      /\ book' = book \/ (batch[t] # <<>> /\ Absorb(t) /\ at'[t] = "apply")
      /\ \A n \in Nat : Upto(batch[t], n) => Upto(batch'[t], n)
  <2>1. CASE batch[t] = <<>>
    <3>1. Move(t, Resume(t)) /\ book' = book
      BY <2>1 DEF ApplyDelta
    <3> QED
      BY <2>1, <3>1, MoveAt, UptoEmpty
  <2>2. CASE batch[t] # <<>> /\ Gap(t)
    BY <2>2, HoldAt, UptoEmpty, Zenon DEF ApplyDelta
  <2>3. CASE batch[t] # <<>> /\ ~Gap(t)
    <3>1. Hold(t, Tail(batch[t]), "apply") /\ Absorb(t)
      BY <2>3, Zenon DEF ApplyDelta
    <3>2. batch[t] \in Seq(Nat) /\ server \in Nat /\ Upto(batch[t], server)
      BY DEF TasksOK, CountersOK, TaskOK, HeldOK
    <3>3. \A n \in Nat : Upto(batch[t], n) => Upto(Tail(batch[t]), n)
      BY <2>3, <3>2, UptoHead
    <3> QED
      BY <2>3, <3>1, <3>2, <3>3, HoldAt, Zenon
  <2> QED
    BY <2>1, <2>2, <2>3
<1>3. /\ book' \in Nat /\ book' <= server /\ book <= book'
      /\ t = Run => \A n \in Nat : book <= n /\ Upto(batch[Run], n) => book' <= n
  <2>1. book \in Nat /\ server \in Nat /\ book <= server /\ batch[t] \in Seq(Nat) /\ Upto(batch[t], server)
    BY DEF TasksOK, CountersOK, TaskOK, HeldOK, SharedOK
  <2>2. CASE book' = book
    BY <2>1, <2>2, SMT
  <2>3. CASE batch[t] # <<>> /\ Absorb(t)
    <3>1. \A n \in Nat : Upto(batch[t], n) => Head(batch[t]) <= n
      BY <2>1, <2>3, UptoHead
    <3>2. Head(batch[t]) \in Nat
      BY <2>1, <2>3, SMT
    <3> QED
      BY <2>1, <2>3, <3>1, <3>2, SMT DEF Absorb
  <2> QED
    BY <1>2, <2>2, <2>3
<1>5. HolderOK' /\ SharedOK'
  BY <1>1, <1>2, <1>3, SMT DEF HolderOK, SharedOK, Upto, FlagsOK, Resume, Refreshing, Requesting, FailSteps
<1>6. ASSUME NEW s \in Tasks PROVE TaskOK(s)'
  <2>0. asked \in Nat /\ book \in Nat /\ snap[s] \in Nat /\ TaskOK(s) /\ TaskOK(t)
    BY DEF CountersOK, TasksOK
  <2>1. CASE s = t
    <3>1. PlaceOK(s)'
      BY <1>1, <1>2, <2>0, <2>1, SMT DEF TaskOK, PlaceOK, Resume, Refreshing, AfterFail, FailSteps
    <3>2. HeldOK(s)' /\ FetchOK(s)'
      BY <1>1, <1>2, <2>0, <2>1, SMT DEF TaskOK, HeldOK, FetchOK, Resume
    <3>3. AnswerOK(s)'
      BY <1>1, <1>2, <1>3, <2>0, <2>1, SMT DEF TaskOK, AnswerOK, Current, Resume, FailSteps
    <3> QED
      BY <3>1, <3>2, <3>3 DEF TaskOK
  <2>2. CASE s # t
    <3>1. PlaceOK(s)' /\ HeldOK(s)'
      BY <1>1, <1>2, <2>0, <2>2, SMT DEF TaskOK, PlaceOK, HeldOK
    <3>2. AnswerOK(s)'
      BY <1>1, <1>2, <1>3, <2>0, <2>2, SMT DEF TaskOK, AnswerOK, Current
    <3>3. at[s] \in {"take", "install"} => t = Run /\ s # Run
      BY <1>1, <2>0, <2>2, SMT DEF TaskOK, PlaceOK, Refreshing
    <3>4. FetchOK(s)'
      BY <1>1, <1>2, <1>3, <2>0, <2>2, <3>3, SMT DEF TaskOK, FetchOK, Current
    <3> QED
      BY <3>1, <3>2, <3>4 DEF TaskOK
  <2> QED
    BY <2>1, <2>2
<1> QED
  BY <1>5, <1>6

\* A gap drops what is held and asks for a refresh.
LEMMA ApplyOverflowsKeeps ==
  ASSUME IInv, NEW t \in Tasks, ApplyOverflows(t)
  PROVE  Consistent'
<1> USE DEF IInv, TypeOK, Consistent
<1>1. /\ at[t] = "apply"
      /\ UNCHANGED <<asked, server, queue, pending, buffering, disposed, generation, gate>>
  BY Zenon DEF ApplyOverflows, At, endVars, transportVars, historyVars, bufferVars
<1>2. /\ gen' = gen /\ snap' = snap /\ at'[t] = "fail" /\ next'[t] = "apply"
      /\ \A s \in Tasks : s # t => at'[s] = at[s] /\ next'[s] = next[s] /\ batch'[s] = batch[s]
  <2>1. \A s \in Tasks : s # t => batch'[s] = batch[s]
    BY Zenon DEF ApplyOverflows, TasksOK
  <2>2. Failing(t, FALSE, "apply")
    BY DEF ApplyOverflows
  <2> QED
    BY <2>1, <2>2, FailingAt, Zenon
<1>3. /\ book' \in Nat /\ book' <= server /\ book <= book'
      /\ \A n \in Nat : book <= n /\ Upto(batch[t], n) => book' <= n
      /\ Upto(batch'[t], server)
      /\ \A n \in Nat : Upto(batch[t], n) => Upto(batch'[t], n)
  <2>1. book \in Nat /\ server \in Nat /\ book <= server /\ batch[t] \in Seq(Nat) /\ Upto(batch[t], server)
    BY DEF TasksOK, CountersOK, TaskOK, HeldOK, SharedOK
  <2>2. CASE book' = book /\ batch' = batch
    BY <2>1, <2>2, SMT
  <2>3. CASE batch[t] # <<>> /\ Absorb(t) /\ batch'[t] = Tail(batch[t])
    <3>1. \A n \in Nat : Upto(batch[t], n) => Head(batch[t]) <= n /\ Upto(Tail(batch[t]), n)
      BY <2>1, <2>3, UptoHead
    <3>2. Head(batch[t]) \in Nat
      BY <2>1, <2>3, SMT
    <3>3. Upto(batch'[t], server) /\ \A n \in Nat : Upto(batch[t], n) => Upto(batch'[t], n)
      BY <2>1, <2>3, <3>1
    <3> QED
      BY <2>1, <2>3, <3>1, <3>2, <3>3, SMT DEF Absorb
  <2> QED
    BY <2>2, <2>3, Zenon DEF ApplyOverflows, TasksOK
<1>5. HolderOK' /\ SharedOK'
  BY <1>1, <1>2, <1>3, SMT DEF HolderOK, SharedOK, FlagsOK, FailSteps
<1>6. ASSUME NEW s \in Tasks PROVE TaskOK(s)'
  <2>0. asked \in Nat /\ book \in Nat /\ snap[s] \in Nat /\ TaskOK(s) /\ TaskOK(t)
    BY DEF CountersOK, TasksOK
  <2>1. CASE s = t
    <3>1. PlaceOK(s)'
      BY <1>1, <1>2, <2>0, <2>1, SMT DEF TaskOK, PlaceOK, Refreshing, AfterFail, FailSteps
    <3>2. HeldOK(s)' /\ FetchOK(s)'
      BY <1>1, <1>2, <1>3, <2>0, <2>1, SMT DEF TaskOK, HeldOK, FetchOK
    <3>3. AnswerOK(s)'
      BY <1>1, <1>2, <1>3, <2>0, <2>1, SMT DEF TaskOK, AnswerOK, Current
    <3> QED
      BY <3>1, <3>2, <3>3 DEF TaskOK
  <2>2. CASE s # t
    <3>1. PlaceOK(s)' /\ HeldOK(s)'
      BY <1>1, <1>2, <2>0, <2>2, SMT DEF TaskOK, PlaceOK, HeldOK
    <3>2. AnswerOK(s)'
      BY <1>1, <1>2, <1>3, <2>0, <2>2, SMT DEF TaskOK, AnswerOK, Current
    <3>3. at[s] \in {"take", "install"} => t = Run /\ s # Run
      BY <1>1, <2>0, <2>2, SMT DEF TaskOK, PlaceOK, Refreshing
    <3>4. FetchOK(s)'
      BY <1>1, <1>2, <1>3, <2>0, <2>2, <3>3, SMT DEF TaskOK, FetchOK, Current
    <3> QED
      BY <3>1, <3>2, <3>4 DEF TaskOK
  <2> QED
    BY <2>1, <2>2
<1> QED
  BY <1>5, <1>6

\* Who touches neither gate, nor book, nor generation keeps the invariant.
LEMMA OutsideKeeps ==
  ASSUME IInv, NEW t \in Tasks, t # Run, gate # t,
         UNCHANGED <<asked, book, server, queue, pending, buffering, disposed,
                     generation, gate, gen, snap, batch>>,
         at'[t] \notin Refreshing \cup {"apply", "live"}, next'[t] \in AfterFail,
         at'[t] \in FailSteps => next'[t] \notin {"apply", "returnErr"},
         \A s \in Tasks : s # t => at'[s] = at[s] /\ next'[s] = next[s]
  PROVE  Consistent'
<1> USE DEF IInv, TypeOK, Consistent
<1>1. HolderOK' /\ SharedOK'
  BY SMT DEF HolderOK, SharedOK, FlagsOK
<1>2. ASSUME NEW s \in Tasks PROVE TaskOK(s)'
  <2>1. CASE s = t
    BY <2>1, SMT DEF TaskOK, PlaceOK, HeldOK, FetchOK, AnswerOK, Refreshing
  <2>2. CASE s # t
    BY <2>2, SMT DEF TaskOK, PlaceOK, HeldOK, FetchOK, AnswerOK, Current
  <2> QED
    BY <2>1, <2>2
<1> QED
  BY <1>1, <1>2

\* The worker's decision to go on or to retire.
LEMMA CheckKeeps ==
  ASSUME IInv, NEW w \in Workers, Check(w)
  PROVE  Consistent'
<1>0. w \in Tasks /\ w # Run /\ TasksOK
  BY TasksAssumption DEF Tasks, IInv, TypeOK
<1>1. gate # w
  BY <1>0, TasksAssumption, SMT DEF Check, Tasks, IInv, Consistent, HolderOK, Refreshing, Requesting, FailSteps
<1>2. UNCHANGED <<asked, book, server, queue, pending, buffering, disposed, generation, gate>>
  BY Zenon DEF Check, endVars, transportVars, historyVars, bufferVars
<1>3. /\ gen' = gen /\ snap' = snap /\ batch' = batch
      /\ at'[w] \in {"idle", "idling", "pause", "fail"}
      /\ next'[w] \in {next[w], "idle"}
      /\ at'[w] = "fail" => next'[w] = "idle"
      /\ \A s \in Tasks : s # w => at'[s] = at[s] /\ next'[s] = next[s]
  <2>1. CASE Failing(w, At(w, "checkErr"), "idle") /\ UNCHANGED batch
    BY <1>0, <2>1, FailingAt, Zenon
  <2>2. CASE \E l \in {"idle", "idling", "pause"} : Move(w, l)
    BY <1>0, <2>2, MoveAt, Zenon
  <2> QED
    BY <2>1, <2>2, Zenon DEF Check
<1>4. at'[w] \notin Refreshing \cup {"apply", "live"} /\ next'[w] \in AfterFail
  BY <1>0, <1>3, SMT DEF Refreshing, AfterFail, IInv, Consistent, TaskOK, PlaceOK, AfterFail
<1>5. at'[w] \in FailSteps => next'[w] \notin {"apply", "returnErr"}
  BY <1>3, SMT DEF FailSteps
<1> QED
  BY <1>0, <1>1, <1>2, <1>3, <1>4, <1>5, OutsideKeeps

\* The worker's handover to a request it did not see.
LEMMA HandoffKeeps ==
  ASSUME IInv, NEW w \in Workers, Handoff(w)
  PROVE  Consistent'
<1>0. w \in Tasks /\ w # Run /\ TasksOK
  BY TasksAssumption DEF Tasks, IInv, TypeOK
<1>1. gate # w
  BY <1>0, TasksAssumption, SMT DEF Handoff, At, Tasks, IInv, Consistent, HolderOK, Refreshing, Requesting, FailSteps
<1>2. UNCHANGED <<asked, book, server, queue, pending, buffering, disposed, generation, gate>>
  BY Zenon DEF Handoff, endVars, transportVars, historyVars, bufferVars
<1>3. /\ gen' = gen /\ snap' = snap /\ batch' = batch /\ next' = next
      /\ at'[w] \in {"idle", "round"}
      /\ \A s \in Tasks : s # w => at'[s] = at[s]
  <2>1. CASE TakesBack
    BY <1>0, <2>1, Zenon DEF Handoff, Goto, TasksOK
  <2>2. CASE ~TakesBack
    BY <1>0, <2>2, MoveAt, Zenon DEF Handoff
  <2> QED
    BY <2>1, <2>2
<1>4. at'[w] \notin Refreshing \cup FailSteps \cup {"apply", "live"} /\ next'[w] \in AfterFail
  BY <1>0, <1>3, SMT DEF Refreshing, AfterFail, FailSteps, IInv, Consistent, TaskOK, PlaceOK, AfterFail
<1> QED
  BY <1>0, <1>1, <1>2, <1>3, <1>4, OutsideKeeps

\* A caller that enters refresh_snapshot.
LEMMA CallerCallsKeeps ==
  ASSUME IInv, NEW c \in Callers, CallerCalls(c)
  PROVE  Consistent'
<1>0. c \in Tasks /\ c # Run /\ TasksOK
  BY TasksAssumption DEF Tasks, IInv, TypeOK
<1>1. gate # c
  BY <1>0, TasksAssumption, SMT DEF CallerCalls, At, Tasks, IInv, Consistent, HolderOK, Refreshing, Requesting, FailSteps
<1>2. UNCHANGED <<asked, book, server, queue, pending, buffering, disposed, generation, gate>>
  BY Zenon DEF CallerCalls, endVars, transportVars, historyVars, bufferVars
<1>3. /\ gen' = gen /\ snap' = snap /\ batch' = batch /\ next' = next
      /\ at'[c] \in {"request", "gate", "close"}
      /\ \A s \in Tasks : s # c => at'[s] = at[s]
  BY <1>0, MoveAt, Zenon DEF CallerCalls
<1>4. at'[c] \notin Refreshing \cup FailSteps \cup {"apply", "live"} /\ next'[c] \in AfterFail
  BY <1>0, <1>3, SMT DEF Refreshing, AfterFail, FailSteps, IInv, Consistent, TaskOK, PlaceOK, AfterFail
<1> QED
  BY <1>0, <1>1, <1>2, <1>3, <1>4, OutsideKeeps

\* fail_closed drops what was buffered.
LEMMA FailStopKeeps ==
  ASSUME IInv, NEW t \in Tasks, FailStop(t)
  PROVE  Consistent'
<1> USE DEF IInv, TypeOK, Consistent
<1>1. /\ at[t] = "failStop"
      /\ UNCHANGED <<asked, book, server, queue, pending, buffering, disposed, generation, gate>>
  BY Zenon DEF FailStop, At, transportVars, historyVars, bufferVars
<1>2. /\ gen' = gen /\ snap' = snap /\ batch' = batch /\ next' = next
      /\ at'[t] = next[t]
      /\ \A s \in Tasks : s # t => at'[s] = at[s]
  BY MoveAt, Zenon DEF FailStop
<1>3. next[t] \in AfterFail /\ TaskOK(t)
  BY Zenon DEF TaskOK, PlaceOK
<1>4. HolderOK' /\ SharedOK'
  BY <1>1, <1>2, <1>3, SMT DEF HolderOK, SharedOK, FlagsOK, Refreshing, AfterFail, FailSteps
<1>5. ASSUME NEW s \in Tasks PROVE TaskOK(s)'
  <2>1. CASE s = t
    BY <1>1, <1>2, <1>3, <2>1, SMT DEF TaskOK, PlaceOK, HeldOK, FetchOK, AnswerOK, Current, Refreshing, AfterFail, FailSteps
  <2>2. CASE s # t
    BY <1>1, <1>2, <2>2, SMT DEF TaskOK, PlaceOK, HeldOK, FetchOK, AnswerOK, Current
  <2> QED
    BY <2>1, <2>2
<1> QED
  BY <1>4, <1>5

\* close drops what was buffered.
LEMMA CloseClearKeeps ==
  ASSUME IInv, NEW c \in Callers, CloseClear(c)
  PROVE  Consistent'
<1> USE DEF IInv, TypeOK, Consistent
<1>0. c \in Tasks /\ c # Run
  BY TasksAssumption DEF Tasks
<1>1. /\ at[c] = "closeClear" /\ pending' = <<>> /\ buffering' = TRUE
      /\ generation' = generation + 1
      /\ UNCHANGED <<asked, book, server, queue, disposed, gate>>
  BY Zenon DEF CloseClear, ClearPublications, At, transportVars, historyVars, endVars
<1>2. /\ gen' = gen /\ snap' = snap /\ batch' = batch /\ next' = next
      /\ at'[c] = "closeStop"
      /\ \A s \in Tasks : s # c => at'[s] = at[s]
  BY <1>0, MoveAt, Zenon DEF CloseClear
<1>3. HolderOK' /\ SharedOK'
  BY <1>0, <1>1, <1>2, UptoEmpty, SMT DEF HolderOK, SharedOK, FlagsOK, Refreshing, Requesting, FailSteps
<1>4. ASSUME NEW s \in Tasks PROVE TaskOK(s)'
  <2>0. gen[s] \in Nat /\ generation \in Nat
    BY DEF TasksOK, CountersOK
  <2>1. CASE s = c
    BY <1>0, <1>1, <1>2, <2>0, <2>1, SMT DEF TaskOK, PlaceOK, HeldOK, FetchOK, AnswerOK, Refreshing, AfterFail, FailSteps
  <2>2. CASE s # c
    BY <1>1, <1>2, <2>0, <2>2, SMT DEF TaskOK, PlaceOK, HeldOK, FetchOK, AnswerOK, Current
  <2> QED
    BY <2>1, <2>2
<1> QED
  BY <1>3, <1>4

\* A publication is buffered while a refresh runs and held otherwise.
LEMMA HandlePublicationKeeps ==
  ASSUME IInv, HandlePublication
  PROVE  Consistent'
<1> USE DEF IInv, TypeOK, Consistent
<1>0. Run \in Tasks
  BY DEF Tasks
<1>1. /\ at[Run] = "pump" /\ queue # <<>> /\ queue' = Tail(queue)
      /\ UNCHANGED <<asked, book, server, buffering, disposed, generation, gate>>
  BY Zenon DEF HandlePublication, At, endVars
<1>2. /\ Head(queue) \in Nat /\ Head(queue) <= server
      /\ Upto(Tail(queue), server) /\ Upto(<<Head(queue)>>, server)
  <2>1. queue \in Seq(Nat) /\ server \in Nat /\ Upto(queue, server)
    BY DEF DeltasOK, CountersOK, SharedOK
  <2>2. Head(queue) \in Nat
    BY <1>1, <2>1, SMT
  <2> QED
    BY <1>1, <2>1, <2>2, UptoHead
<1>3. Upto(pending', server)
  <2>1. Upto(pending, server) /\ pending \in Seq(Nat) /\ server \in Nat
    BY DEF SharedOK, DeltasOK, CountersOK
  <2>2. Upto(Append(pending, Head(queue)), server)
    BY <1>2, <2>1, UptoAppend
  <2> QED
    BY <2>1, <2>2, UptoEmpty, Zenon DEF HandlePublication
<1>4. /\ gen' = gen /\ snap' = snap
      /\ \A s \in Tasks : s # Run => at'[s] = at[s] /\ next'[s] = next[s] /\ batch'[s] = batch[s]
      /\ \/ at' = at /\ next' = next /\ batch' = batch
         \/ at'[Run] = "fail" /\ next'[Run] = "pump" /\ batch' = batch
         \/ at'[Run] = "live" /\ next' = next /\ batch'[Run] = <<Head(queue)>> /\ ~buffering
  <2>1. CASE UNCHANGED <<at, localVars>>
    BY <2>1 DEF localVars
  <2>2. CASE Failing(Run, FALSE, "pump") /\ UNCHANGED batch
    BY <1>0, <2>2, FailingAt, Zenon
  <2>3. CASE Hold(Run, <<Head(queue)>>, "live") /\ ~buffering
    BY <1>0, <2>3, HoldAt, Zenon
  <2> QED
    BY <2>1, <2>2, <2>3, Zenon DEF HandlePublication
<1>5. HolderOK' /\ SharedOK'
  <2>1. gate # Run
    BY <1>0, <1>1, TasksAssumption, SMT DEF HolderOK, Refreshing, Requesting, FailSteps
  <2> QED
    BY <1>1, <1>2, <1>3, <1>4, <2>1, SMT DEF HolderOK, SharedOK, FlagsOK
<1>6. ASSUME NEW s \in Tasks PROVE TaskOK(s)'
  <2>0. TaskOK(s) /\ TaskOK(Run)
    BY <1>0
  <2>1. CASE s = Run
    BY <1>1, <1>2, <1>4, <2>0, <2>1, SMT DEF TaskOK, PlaceOK, HeldOK, FetchOK, AnswerOK, Refreshing, AfterFail, FailSteps
  <2>2. CASE s # Run
    <3>1. PlaceOK(s)' /\ HeldOK(s)' /\ AnswerOK(s)'
      BY <1>1, <1>4, <2>0, <2>2, SMT DEF TaskOK, PlaceOK, HeldOK, AnswerOK, Current
    <3>2. FetchOK(s)'
      BY <1>1, <1>4, <2>0, <2>2, SMT DEF TaskOK, FetchOK, Current
    <3> QED
      BY <3>1, <3>2 DEF TaskOK
  <2> QED
    BY <2>1, <2>2
<1> QED
  BY <1>5, <1>6

\* The exchange's next entry is sent to a live link, or lost with a dead one.
LEMMA PublishKeeps ==
  ASSUME IInv, Publish
  PROVE  Consistent'
<1> USE DEF IInv, TypeOK, Consistent
<1>1. /\ server' = server + 1 /\ queue' \in {queue, Append(queue, server')}
      /\ UNCHANGED <<asked, book, pending, buffering, disposed, generation, gate>>
      /\ UNCHANGED <<at, next, gen, snap, batch>>
  BY Zenon DEF Publish, bufferVars, endVars, historyVars, localVars
<1>2. server \in Nat /\ server' \in Nat /\ server <= server'
  BY <1>1, SMT DEF CountersOK
<1>3. \A q \in Seq(Nat) : Upto(q, server) => Upto(q, server')
  BY <1>2, UptoMore
<1>4. Upto(queue', server') /\ Upto(pending', server')
  <2>1. queue \in Seq(Nat) /\ pending \in Seq(Nat) /\ Upto(queue, server) /\ Upto(pending, server)
    BY DEF DeltasOK, SharedOK
  <2>2. Upto(queue, server') /\ Upto(pending, server')
    BY <1>3, <2>1
  <2>3. Upto(Append(queue, server'), server')
    BY <1>2, <2>1, <2>2, UptoAppend
  <2> QED
    BY <1>1, <2>2, <2>3
<1>5. HolderOK' /\ SharedOK'
  BY <1>1, <1>2, <1>4, SMT DEF HolderOK, SharedOK, CountersOK
<1>6. ASSUME NEW s \in Tasks PROVE TaskOK(s)'
  <2>1. Upto(batch[s], server')
    BY <1>3 DEF TaskOK, HeldOK, TasksOK
  <2>2. snap[s] \in Nat
    BY DEF TasksOK
  <2>3. PlaceOK(s)' /\ AnswerOK(s)' /\ HeldOK(s)'
    BY <1>1, <2>1, SMT DEF TaskOK, PlaceOK, HeldOK, AnswerOK, Current
  <2>4. FetchOK(s)'
    BY <1>1, <1>2, <2>2, SMT DEF TaskOK, FetchOK, Current
  <2> QED
    BY <2>3, <2>4 DEF TaskOK
<1> QED
  BY <1>5, <1>6


\* request_refresh.
LEMMA RequestKeeps ==
  ASSUME IInv, NEW t \in Tasks, RequestStep(t)
  PROVE  Consistent'
<1> USE DEF IInv, TypeOK, FlagsOK, CountersOK, DeltasOK, TasksOK, Consistent, HolderOK,
      SharedOK, TaskOK, PlaceOK, HeldOK, FetchOK, AnswerOK, Current, Refreshing,
      Requesting, FailSteps, AfterFail, Upto, Tasks, At
<1>1. CASE ReqMark(t)
  <2> USE DEF ReqMark, bufferVars, endVars, transportVars, historyVars, localVars, Move, Goto, Resume
  <2>1. HolderOK' /\ SharedOK'
    BY <1>1, TasksAssumption, SMTT(60)
  <2>2. ASSUME NEW s \in Tasks PROVE TaskOK(s)'
    BY <1>1, TasksAssumption, SMTT(60)
  <2> QED
    BY <2>1, <2>2
<1>2. CASE ReqBump(t)
  <2> USE DEF ReqBump, bufferVars, endVars, transportVars, historyVars, localVars, Move, Goto
  <2>1. HolderOK' /\ SharedOK'
    BY <1>2, TasksAssumption, SMTT(60)
  <2>2. ASSUME NEW s \in Tasks PROVE TaskOK(s)'
    BY <1>2, TasksAssumption, SMTT(60)
  <2> QED
    BY <2>1, <2>2
<1>3. CASE ReqBuffer(t)
  <2> USE DEF ReqBuffer, bufferVars, endVars, transportVars, historyVars, localVars, BeginBuffering, Move, Goto
  <2>1. HolderOK' /\ SharedOK'
    BY <1>3, TasksAssumption, SMTT(60)
  <2>2. ASSUME NEW s \in Tasks PROVE TaskOK(s)'
    BY <1>3, TasksAssumption, SMTT(60)
  <2> QED
    BY <2>1, <2>2
<1>4. CASE ReqSpawn(t)
  BY <1>4, ReqSpawnKeeps
<1> QED
  BY <1>1, <1>2, <1>3, <1>4 DEF RequestStep

\* refresh_snapshot_once.
LEMMA RefreshKeeps ==
  ASSUME IInv, NEW t \in Tasks, RefreshStep(t)
  PROVE  Consistent'
<1> USE DEF IInv, TypeOK, FlagsOK, CountersOK, DeltasOK, TasksOK, Consistent, HolderOK,
      SharedOK, TaskOK, PlaceOK, HeldOK, FetchOK, AnswerOK, Current, Refreshing,
      Requesting, FailSteps, AfterFail, Upto, Tasks, At
<1>1. CASE AcquireGate(t)
  <2> USE DEF AcquireGate, bufferVars, endVars, transportVars, historyVars, localVars, Move, Goto
  <2>1. HolderOK' /\ SharedOK'
    BY <1>1, TasksAssumption, SMTT(60)
  <2>2. ASSUME NEW s \in Tasks PROVE TaskOK(s)'
    BY <1>1, TasksAssumption, SMTT(60)
  <2> QED
    BY <2>1, <2>2
<1>2. CASE BeginRefresh(t)
  BY <1>2, BeginRefreshKeeps
<1>3. CASE Buffer(t)
  <2> USE DEF Buffer, bufferVars, endVars, transportVars, historyVars, localVars, BeginBuffering, Move, Goto
  <2>1. HolderOK' /\ SharedOK'
    BY <1>3, TasksAssumption, SMTT(60)
  <2>2. ASSUME NEW s \in Tasks PROVE TaskOK(s)'
    BY <1>3, TasksAssumption, SMTT(60)
  <2> QED
    BY <2>1, <2>2
<1>4. CASE FetchAnswered(t)
  <2> USE DEF FetchAnswered, bufferVars, endVars, transportVars, historyVars, localVars, Goto
  <2>1. HolderOK' /\ SharedOK'
    BY <1>4, TasksAssumption, SMTT(60)
  <2>2. ASSUME NEW s \in Tasks PROVE TaskOK(s)'
    BY <1>4, TasksAssumption, SMTT(60)
  <2> QED
    BY <2>1, <2>2
<1>5. CASE FetchStopped(t)
  <2> USE DEF FetchStopped, bufferVars, endVars, transportVars, historyVars, localVars, Return, AfterRefresh, Goto
  <2>1. HolderOK' /\ SharedOK'
    BY <1>5, TasksAssumption, SMTT(60)
  <2>2. ASSUME NEW s \in Tasks PROVE TaskOK(s)'
    BY <1>5, TasksAssumption, SMTT(60)
  <2> QED
    BY <2>1, <2>2
<1>6. CASE TakeBuffered(t)
  BY <1>6, TakeBufferedKeeps
<1>7. CASE InstallSnapshot(t)
  <2> USE DEF InstallSnapshot, bufferVars, endVars, transportVars, historyVars, localVars, Move, Goto
  <2>1. HolderOK' /\ SharedOK'
    BY <1>7, TasksAssumption, SMTT(60)
  <2>2. ASSUME NEW s \in Tasks PROVE TaskOK(s)'
    BY <1>7, TasksAssumption, SMTT(60)
  <2> QED
    BY <2>1, <2>2
<1>8. CASE ApplyDelta(t)
  BY <1>8, ApplyDeltaKeeps
<1>9. CASE ReturnErr(t)
  <2> USE DEF ReturnErr, bufferVars, endVars, transportVars, historyVars, localVars, Return, AfterRefresh, Goto
  <2>1. HolderOK' /\ SharedOK'
    BY <1>9, TasksAssumption, SMTT(60)
  <2>2. ASSUME NEW s \in Tasks PROVE TaskOK(s)'
    BY <1>9, TasksAssumption, SMTT(60)
  <2> QED
    BY <2>1, <2>2
<1>10. CASE DrainOrReady(t)
  BY <1>10, DrainOrReadyKeeps
<1>11. CASE ClearError(t)
  <2> USE DEF ClearError, bufferVars, endVars, transportVars, historyVars, localVars, Return, AfterRefresh, Goto
  <2>1. HolderOK' /\ SharedOK'
    BY <1>11, TasksAssumption, SMTT(60)
  <2>2. ASSUME NEW s \in Tasks PROVE TaskOK(s)'
    BY <1>11, TasksAssumption, SMTT(60)
  <2> QED
    BY <2>1, <2>2
<1> QED
  BY <1>1, <1>2, <1>3, <1>4, <1>5, <1>6, <1>7, <1>8, <1>9, <1>10, <1>11 DEF RefreshStep

\* fail_closed.
LEMMA FailKeeps ==
  ASSUME IInv, NEW t \in Tasks, FailStep(t)
  PROVE  Consistent'
<1> USE DEF IInv, TypeOK, FlagsOK, CountersOK, DeltasOK, TasksOK, Consistent, HolderOK,
      SharedOK, TaskOK, PlaceOK, HeldOK, FetchOK, AnswerOK, Current, Refreshing,
      Requesting, FailSteps, AfterFail, Upto, Tasks, At
<1>1. CASE FailUnready(t)
  <2> USE DEF FailUnready, bufferVars, endVars, transportVars, historyVars, localVars, Move, Goto
  <2>1. HolderOK' /\ SharedOK'
    BY <1>1, TasksAssumption, SMTT(60)
  <2>2. ASSUME NEW s \in Tasks PROVE TaskOK(s)'
    BY <1>1, TasksAssumption, SMTT(60)
  <2> QED
    BY <2>1, <2>2
<1>2. CASE FailDispose(t)
  <2> USE DEF FailDispose, bufferVars, endVars, transportVars, historyVars, localVars, Move, Goto
  <2>1. HolderOK' /\ SharedOK'
    BY <1>2, TasksAssumption, SMTT(60)
  <2>2. ASSUME NEW s \in Tasks PROVE TaskOK(s)'
    <3>1. CASE s = t
      BY <1>2, <3>1, TasksAssumption, SMTT(60)
    <3>2. CASE s # t
      BY <1>2, <3>2, TasksAssumption, SMTT(60)
    <3> QED
      BY <3>1, <3>2
  <2> QED
    BY <2>1, <2>2
<1>3. CASE FailClear(t)
  <2> USE DEF FailClear, bufferVars, endVars, transportVars, historyVars, localVars, ClearPublications, Move, Goto
  <2>1. HolderOK' /\ SharedOK'
    BY <1>3, TasksAssumption, SMTT(60)
  <2>2. ASSUME NEW s \in Tasks PROVE TaskOK(s)'
    <3>1. CASE s = t
      BY <1>3, <3>1, TasksAssumption, SMTT(60)
    <3>2. CASE s # t
      BY <1>3, <3>2, TasksAssumption, SMTT(60)
    <3> QED
      BY <3>1, <3>2
  <2> QED
    BY <2>1, <2>2
<1>4. CASE FailStop(t)
  BY <1>4, FailStopKeeps
<1> QED
  BY <1>1, <1>2, <1>3, <1>4 DEF FailStep

\* The failures of the network and of the callbacks.
LEMMA FaultKeeps ==
  ASSUME IInv, NEW t \in Tasks, TaskFault(t)
  PROVE  Consistent'
<1> USE DEF IInv, TypeOK, FlagsOK, CountersOK, DeltasOK, TasksOK, Consistent, HolderOK,
      SharedOK, TaskOK, PlaceOK, HeldOK, FetchOK, AnswerOK, Current, Refreshing,
      Requesting, FailSteps, AfterFail, Upto, Tasks, At
<1>1. CASE FetchFails(t)
  <2> USE DEF FetchFails, bufferVars, endVars, transportVars, historyVars, localVars, Return, AfterRefresh, Goto
  <2>1. HolderOK' /\ SharedOK'
    BY <1>1, TasksAssumption, SMTT(60)
  <2>2. ASSUME NEW s \in Tasks PROVE TaskOK(s)'
    BY <1>1, TasksAssumption, SMTT(60)
  <2> QED
    BY <2>1, <2>2
<1>2. CASE InstallGarbled(t)
  <2> USE DEF InstallGarbled, bufferVars, endVars, transportVars, historyVars, localVars, Hold, Goto
  <2>1. HolderOK' /\ SharedOK'
    BY <1>2, TasksAssumption, SMTT(60)
  <2>2. ASSUME NEW s \in Tasks PROVE TaskOK(s)'
    BY <1>2, TasksAssumption, SMTT(60)
  <2> QED
    BY <2>1, <2>2
<1>3. CASE ApplyOverflows(t)
  BY <1>3, ApplyOverflowsKeeps
<1>4. CASE ApplyPanics(t)
  <2> USE DEF ApplyPanics, bufferVars, endVars, transportVars, historyVars, localVars, Failing, Goto
  <2>1. HolderOK' /\ SharedOK'
    BY <1>4, TasksAssumption, SMTT(60)
  <2>2. ASSUME NEW s \in Tasks PROVE TaskOK(s)'
    BY <1>4, TasksAssumption, SMTT(60)
  <2> QED
    BY <2>1, <2>2
<1> QED
  BY <1>1, <1>2, <1>3, <1>4 DEF TaskFault

\* run_requested_refreshes.
LEMMA WorkerKeeps ==
  ASSUME IInv, NEW w \in Workers, WorkerStep(w)
  PROVE  Consistent'
<1> USE DEF IInv, TypeOK, FlagsOK, CountersOK, DeltasOK, TasksOK, Consistent, HolderOK,
      SharedOK, TaskOK, PlaceOK, HeldOK, FetchOK, AnswerOK, Current, Refreshing,
      Requesting, FailSteps, AfterFail, Upto, Tasks, At
<1>1. CASE Round(w)
  <2> USE DEF Round, bufferVars, endVars, transportVars, historyVars, localVars, Goto
  <2>1. HolderOK' /\ SharedOK'
    BY <1>1, TasksAssumption, SMTT(60)
  <2>2. ASSUME NEW s \in Tasks PROVE TaskOK(s)'
    BY <1>1, TasksAssumption, SMTT(60)
  <2> QED
    BY <2>1, <2>2
<1>2. CASE Check(w)
  BY <1>2, CheckKeeps
<1>3. CASE Pause(w)
  <2> USE DEF Pause, bufferVars, endVars, transportVars, historyVars, localVars, Move, Goto
  <2>1. HolderOK' /\ SharedOK'
    BY <1>3, TasksAssumption, SMTT(60)
  <2>2. ASSUME NEW s \in Tasks PROVE TaskOK(s)'
    BY <1>3, TasksAssumption, SMTT(60)
  <2> QED
    BY <2>1, <2>2
<1>4. CASE Idling(w)
  <2> USE DEF Idling, bufferVars, endVars, transportVars, historyVars, localVars, Move, Goto
  <2>1. HolderOK' /\ SharedOK'
    BY <1>4, TasksAssumption, SMTT(60)
  <2>2. ASSUME NEW s \in Tasks PROVE TaskOK(s)'
    BY <1>4, TasksAssumption, SMTT(60)
  <2> QED
    BY <2>1, <2>2
<1>5. CASE Handoff(w)
  BY <1>5, HandoffKeeps
<1> QED
  BY <1>1, <1>2, <1>3, <1>4, <1>5 DEF WorkerStep

\* run and pump_subscription.
LEMMA RunKeeps ==
  ASSUME IInv, RunStep
  PROVE  Consistent'
<1> USE DEF IInv, TypeOK, FlagsOK, CountersOK, DeltasOK, TasksOK, Consistent, HolderOK,
      SharedOK, TaskOK, PlaceOK, HeldOK, FetchOK, AnswerOK, Current, Refreshing,
      Requesting, FailSteps, AfterFail, Upto, Tasks, At
<1>1. CASE Connect
  <2> USE DEF Connect, bufferVars, endVars, transportVars, historyVars, localVars, Move, Goto
  <2>1. HolderOK' /\ SharedOK'
    BY <1>1, TasksAssumption, SMTT(60)
  <2>2. ASSUME NEW s \in Tasks PROVE TaskOK(s)'
    <3>1. CASE s = Run
      BY <1>1, <3>1, TasksAssumption, SMTT(60)
    <3>2. CASE s # Run
      BY <1>1, <3>2, TasksAssumption, SMTT(60)
    <3> QED
      BY <3>1, <3>2
  <2> QED
    BY <2>1, <2>2
<1>2. CASE ConnectPause
  <2> USE DEF ConnectPause, bufferVars, endVars, transportVars, historyVars, localVars, Move, Goto
  <2>1. HolderOK' /\ SharedOK'
    BY <1>2, TasksAssumption, SMTT(60)
  <2>2. ASSUME NEW s \in Tasks PROVE TaskOK(s)'
    BY <1>2, TasksAssumption, SMTT(60)
  <2> QED
    BY <2>1, <2>2
<1>3. CASE Connected
  <2> USE DEF Connected, bufferVars, endVars, transportVars, historyVars, localVars, Move, Goto
  <2>1. HolderOK' /\ SharedOK'
    BY <1>3, TasksAssumption, SMTT(60)
  <2>2. ASSUME NEW s \in Tasks PROVE TaskOK(s)'
    BY <1>3, TasksAssumption, SMTT(60)
  <2> QED
    BY <2>1, <2>2
<1>4. CASE HandlePublication
  BY <1>4, HandlePublicationKeeps
<1>5. CASE ApplyLive
  <2> USE DEF ApplyLive, bufferVars, endVars, transportVars, historyVars, localVars, Hold, Move, Goto
  <2>1. HolderOK' /\ SharedOK'
    BY <1>5, TasksAssumption, SMTT(60)
  <2>2. ASSUME NEW s \in Tasks PROVE TaskOK(s)'
    <3>1. CASE s = Run
      BY <1>5, <3>1, TasksAssumption, SMTT(60)
    <3>2. CASE s # Run
      BY <1>5, <3>2, TasksAssumption, SMTT(60)
    <3> QED
      BY <3>1, <3>2
  <2> QED
    BY <2>1, <2>2
<1>6. CASE PumpLosesLink
  <2> USE DEF PumpLosesLink, bufferVars, endVars, transportVars, historyVars, localVars, Move, Goto
  <2>1. HolderOK' /\ SharedOK'
    BY <1>6, TasksAssumption, SMTT(60)
  <2>2. ASSUME NEW s \in Tasks PROVE TaskOK(s)'
    BY <1>6, TasksAssumption, SMTT(60)
  <2> QED
    BY <2>1, <2>2
<1>7. CASE PumpEnds
  <2> USE DEF PumpEnds, bufferVars, endVars, transportVars, historyVars, localVars, Move, Failing, Goto
  <2>1. HolderOK' /\ SharedOK'
    BY <1>7, TasksAssumption, SMTT(60)
  <2>2. ASSUME NEW s \in Tasks PROVE TaskOK(s)'
    BY <1>7, TasksAssumption, SMTT(60)
  <2> QED
    BY <2>1, <2>2
<1>8. CASE PumpStops
  <2> USE DEF PumpStops, bufferVars, endVars, transportVars, historyVars, localVars, Move, Goto
  <2>1. HolderOK' /\ SharedOK'
    BY <1>8, TasksAssumption, SMTT(60)
  <2>2. ASSUME NEW s \in Tasks PROVE TaskOK(s)'
    BY <1>8, TasksAssumption, SMTT(60)
  <2> QED
    BY <2>1, <2>2
<1>9. CASE RunUnready
  <2> USE DEF RunUnready, bufferVars, endVars, transportVars, historyVars, localVars, Move, Goto
  <2>1. HolderOK' /\ SharedOK'
    BY <1>9, TasksAssumption, SMTT(60)
  <2>2. ASSUME NEW s \in Tasks PROVE TaskOK(s)'
    BY <1>9, TasksAssumption, SMTT(60)
  <2> QED
    BY <2>1, <2>2
<1> QED
  BY <1>1, <1>2, <1>3, <1>4, <1>5, <1>6, <1>7, <1>8, <1>9 DEF RunStep

\* The callers of the handle.
LEMMA CallerKeeps ==
  ASSUME IInv, NEW c \in Callers, CallerStep(c) \/ CallerCalls(c) \/ CallerCancels(c)
  PROVE  Consistent'
<1> USE DEF IInv, TypeOK, FlagsOK, CountersOK, DeltasOK, TasksOK, Consistent, HolderOK,
      SharedOK, TaskOK, PlaceOK, HeldOK, FetchOK, AnswerOK, Current, Refreshing,
      Requesting, FailSteps, AfterFail, Upto, Tasks, At
<1>1. CASE CloseDispose(c)
  <2> USE DEF CloseDispose, bufferVars, endVars, transportVars, historyVars, localVars, Move, Goto
  <2>1. HolderOK' /\ SharedOK'
    BY <1>1, TasksAssumption, SMTT(60)
  <2>2. ASSUME NEW s \in Tasks PROVE TaskOK(s)'
    BY <1>1, TasksAssumption, SMTT(60)
  <2> QED
    BY <2>1, <2>2
<1>2. CASE CloseClear(c)
  BY <1>2, CloseClearKeeps
<1>3. CASE CloseStop(c)
  <2> USE DEF CloseStop, bufferVars, endVars, transportVars, historyVars, localVars, Move, Goto
  <2>1. HolderOK' /\ SharedOK'
    BY <1>3, TasksAssumption, SMTT(60)
  <2>2. ASSUME NEW s \in Tasks PROVE TaskOK(s)'
    BY <1>3, TasksAssumption, SMTT(60)
  <2> QED
    BY <2>1, <2>2
<1>4. CASE CallerCalls(c)
  BY <1>4, CallerCallsKeeps
<1>5. CASE CallerCancels(c)
  <2> USE DEF CallerCancels, bufferVars, endVars, transportVars, historyVars, localVars, Move, Goto
  <2>1. HolderOK' /\ SharedOK'
    BY <1>5, TasksAssumption, SMTT(60)
  <2>2. ASSUME NEW s \in Tasks PROVE TaskOK(s)'
    <3>1. CASE s = c
      BY <1>5, <3>1, TasksAssumption, SMTT(60)
    <3>2. CASE s # c
      BY <1>5, <3>2, TasksAssumption, SMTT(60)
    <3> QED
      BY <3>1, <3>2
  <2> QED
    BY <2>1, <2>2
<1> QED
  BY <1>1, <1>2, <1>3, <1>4, <1>5 DEF CallerStep

\* The start, close, the exchange and the network.
LEMMA OutsideStepKeeps ==
  ASSUME IInv, StartStep \/ StartTimesOut \/ ConnectFails \/ Publish \/ LinkFails
  PROVE  Consistent'
<1> USE DEF IInv, TypeOK, FlagsOK, CountersOK, DeltasOK, TasksOK, Consistent, HolderOK,
      SharedOK, TaskOK, PlaceOK, HeldOK, FetchOK, AnswerOK, Current, Refreshing,
      Requesting, FailSteps, AfterFail, Upto, Tasks, At
<1>1. CASE StartStep
  <2> USE DEF StartStep, bufferVars, endVars, transportVars, historyVars, localVars, Move, Goto
  <2>1. HolderOK' /\ SharedOK'
    BY <1>1, TasksAssumption, SMTT(60)
  <2>2. ASSUME NEW s \in Tasks PROVE TaskOK(s)'
    <3>1. CASE s = Starter
      BY <1>1, <3>1, TasksAssumption, SMTT(60)
    <3>2. CASE s # Starter
      BY <1>1, <3>2, TasksAssumption, SMTT(60)
    <3> QED
      BY <3>1, <3>2
  <2> QED
    BY <2>1, <2>2
<1>2. CASE StartTimesOut
  <2> USE DEF StartTimesOut, bufferVars, endVars, transportVars, historyVars, localVars, Failing, Goto
  <2>1. HolderOK' /\ SharedOK'
    BY <1>2, TasksAssumption, SMTT(60)
  <2>2. ASSUME NEW s \in Tasks PROVE TaskOK(s)'
    BY <1>2, TasksAssumption, SMTT(60)
  <2> QED
    BY <2>1, <2>2
<1>3. CASE ConnectFails
  <2> USE DEF ConnectFails, bufferVars, endVars, transportVars, historyVars, localVars, Move, Goto
  <2>1. HolderOK' /\ SharedOK'
    BY <1>3, TasksAssumption, SMTT(60)
  <2>2. ASSUME NEW s \in Tasks PROVE TaskOK(s)'
    BY <1>3, TasksAssumption, SMTT(60)
  <2> QED
    BY <2>1, <2>2
<1>4. CASE Publish
  BY <1>4, PublishKeeps
<1>5. CASE LinkFails
  <2> USE DEF LinkFails, bufferVars, endVars, transportVars, historyVars, localVars
  <2>1. HolderOK' /\ SharedOK'
    BY <1>5, TasksAssumption, SMTT(60)
  <2>2. ASSUME NEW s \in Tasks PROVE TaskOK(s)'
    BY <1>5, TasksAssumption, SMTT(60)
  <2> QED
    BY <2>1, <2>2
<1> QED
  BY <1>1, <1>2, <1>3, <1>4, <1>5


\* The invariant holds of a new stream.
LEMMA IInvInit == Init => IInv
<1> SUFFICES ASSUME Init PROVE IInv
  OBVIOUS
<1>1. TypeOK
  BY TypeInit
<1>2. HolderOK /\ SharedOK
  BY UptoEmpty, SMT DEF Init, HolderOK, SharedOK
<1>3. ASSUME NEW t \in Tasks PROVE TaskOK(t)
  <2>1. /\ at[t] \in {"connect", "starting", "idle"} /\ next[t] = "idle"
        /\ batch[t] = <<>> /\ gen[t] = 0 /\ gate = NoTask /\ generation = 0
    BY SMT DEF Init
  <2>2. PlaceOK(t) /\ FetchOK(t)
    BY <2>1, SMT DEF PlaceOK, FetchOK, Refreshing, AfterFail, FailSteps
  <2>3. HeldOK(t)
    BY <2>1, UptoEmpty, SMT DEF HeldOK
  <2>4. AnswerOK(t)
    BY <2>1, TasksAssumption, SMT DEF AnswerOK, Tasks
  <2> QED
    BY <2>2, <2>3, <2>4 DEF TaskOK
<1> QED
  BY <1>1, <1>2, <1>3 DEF IInv, Consistent

\* The invariant is inductive.
LEMMA IInvStep ==
  ASSUME IInv, [Next]_vars
  PROVE  IInv'
<1>1. TypeOK'
  BY TypeStep DEF IInv
<1>2. Consistent'
  <2>1. CASE Next
    BY <2>1, RequestKeeps, RefreshKeeps, FailKeeps, FaultKeeps, WorkerKeeps, RunKeeps,
       CallerKeeps, OutsideStepKeeps DEF Next, TaskStep, Environment
  <2>2. CASE UNCHANGED vars
    BY <2>2, Zenon DEF vars, bufferVars, endVars, transportVars, historyVars, localVars,
       IInv, Consistent, HolderOK, SharedOK, TaskOK, PlaceOK, HeldOK, FetchOK, AnswerOK,
       Current
  <2> QED
    BY <2>1, <2>2
<1> QED
  BY <1>1, <1>2 DEF IInv

\* The strengthened invariant holds of every stream: one task at a time is
\* inside a refresh, nothing is ahead of the server, and the snapshot a refresh
\* is about to install is no older than the book it replaces.
THEOREM InvCorrect == Spec => []IInv
<1> QED
  BY IInvInit, IInvStep, PTL DEF Spec


\* A new stream is a new BookView.
LEMMA ViewInit == Init => View!Init
BY Zenon DEF Init, View!Init

(* Every step is a step of BookView or leaves its variables alone *)

SameView == UNCHANGED <<server, asked, buffering, book>>

\* A step that changes nothing BookView sees is a stutter of it.
LEMMA Stutter == SameView => [View!Next]_View!vars
BY SMT DEF SameView, View!vars

\* request_refresh is a request.
LEMMA RequestView ==
  ASSUME IInv, NEW t \in Tasks, RequestStep(t)
  PROVE  [View!Next]_View!vars
<1> USE DEF View!Next, View!vars, bufferVars, endVars, transportVars, historyVars
<1>1. CASE ReqMark(t)
  BY <1>1, Zenon DEF ReqMark
<1>2. CASE ReqBump(t)
  BY <1>2, Zenon DEF ReqBump, View!Ask
<1>3. CASE ReqBuffer(t)
  BY <1>3, SMT DEF ReqBuffer, BeginBuffering, View!Suspend, IInv, TypeOK, FlagsOK
<1>4. CASE ReqSpawn(t)
  BY <1>4, Zenon DEF ReqSpawn
<1> QED
  BY <1>1, <1>2, <1>3, <1>4 DEF RequestStep

\* A refresh installs, catches up and goes live.
LEMMA RefreshView ==
  ASSUME IInv, NEW t \in Tasks, RefreshStep(t)
  PROVE  [View!Next]_View!vars
<1> USE DEF View!Next, View!vars, bufferVars, endVars, transportVars, historyVars
<1>0. /\ book \in Nat /\ server \in Nat /\ asked \in Nat /\ buffering \in BOOLEAN
      /\ snap[t] \in Nat /\ batch[t] \in Seq(Nat) /\ TaskOK(t)
  BY DEF IInv, TypeOK, FlagsOK, CountersOK, TasksOK, Consistent
<1>1. CASE AcquireGate(t) \/ FetchAnswered(t) \/ FetchStopped(t) \/ TakeBuffered(t)
        \/ ReturnErr(t) \/ ClearError(t)
  <2>1. CASE AcquireGate(t)
    BY <2>1, Zenon DEF SameView, AcquireGate
  <2>2. CASE FetchAnswered(t)
    BY <2>2, Zenon DEF SameView, FetchAnswered
  <2>3. CASE FetchStopped(t)
    BY <2>3, Zenon DEF SameView, FetchStopped
  <2>4. CASE TakeBuffered(t)
    BY <2>4, Zenon DEF SameView, TakeBuffered
  <2>5. CASE ReturnErr(t)
    BY <2>5, Zenon DEF SameView, ReturnErr
  <2>6. CASE ClearError(t)
    BY <2>6, Zenon DEF SameView, ClearError
  <2> QED
    BY <1>1, <2>1, <2>2, <2>3, <2>4, <2>5, <2>6, Stutter
<1>2. CASE BeginRefresh(t)
  BY <1>2, Zenon DEF BeginRefresh, View!Ask
<1>3. CASE Buffer(t)
  BY <1>0, <1>3, SMT DEF Buffer, BeginBuffering, View!Suspend
<1>4. CASE InstallSnapshot(t)
  <2>1. buffering /\ book <= snap[t] /\ snap[t] <= server
    BY <1>0, <1>4, SMT DEF InstallSnapshot, At, TaskOK, FetchOK
  <2> QED
    BY <1>0, <1>4, <2>1, SMT DEF InstallSnapshot, View!Jump
<1>5. CASE ApplyDelta(t)
  <2>1. UNCHANGED <<server, asked, buffering>>
    BY <1>5, Zenon DEF ApplyDelta
  <2>2. book' = book \/ (batch[t] # <<>> /\ ~Gap(t) /\ Absorb(t))
    BY <1>5, Zenon DEF ApplyDelta
  <2>3. batch[t] # <<>> => Head(batch[t]) \in Nat /\ Head(batch[t]) <= server
    <3>1. Upto(batch[t], server)
      BY <1>0 DEF TaskOK, HeldOK
    <3>2. batch[t] # <<>> => Head(batch[t]) \in Nat
      BY <1>0, SMT
    <3> QED
      BY <1>0, <3>1, <3>2, UptoHead
  <2>4. book' = book \/ (book < server /\ book' = book + 1)
    BY <1>0, <2>2, <2>3, SMT DEF Gap, Absorb
  <2> QED
    BY <2>1, <2>4, Zenon DEF View!Follow
<1>6. CASE DrainOrReady(t)
  <2>1. UNCHANGED <<server, asked, book>>
    BY <1>6, Zenon DEF DrainOrReady
  <2>2. CASE buffering' = buffering
    BY <2>1, <2>2, Zenon
  <2>3. CASE buffering' # buffering
    <3>1. Current(t) /\ buffering /\ buffering' = FALSE
      BY <1>0, <1>6, <2>3, Zenon DEF DrainOrReady
    <3>2. asked <= book
      BY <1>0, <1>6, <3>1, SMT DEF DrainOrReady, At, TaskOK, PlaceOK, AnswerOK, Refreshing
    <3> QED
      BY <2>1, <3>1, <3>2, Zenon DEF View!Resume
  <2> QED
    BY <2>2, <2>3
<1> QED
  BY <1>1, <1>2, <1>3, <1>4, <1>5, <1>6 DEF RefreshStep

\* A failure, of fail_closed or of a callback, is no step or a request.
LEMMA FailView ==
  ASSUME IInv, NEW t \in Tasks, FailStep(t) \/ TaskFault(t)
  PROVE  [View!Next]_View!vars
<1> USE DEF View!Next, View!vars, bufferVars, endVars, transportVars, historyVars
<1>0. /\ book \in Nat /\ server \in Nat /\ buffering \in BOOLEAN
      /\ batch[t] \in Seq(Nat) /\ TaskOK(t)
  BY DEF IInv, TypeOK, FlagsOK, CountersOK, TasksOK, Consistent
<1>1. CASE FailUnready(t) \/ FailDispose(t) \/ FailStop(t) \/ FetchFails(t)
        \/ InstallGarbled(t) \/ ApplyPanics(t)
  <2>1. CASE FailUnready(t)
    BY <2>1, Zenon DEF SameView, FailUnready
  <2>2. CASE FailDispose(t)
    BY <2>2, Zenon DEF SameView, FailDispose
  <2>3. CASE FailStop(t)
    BY <2>3, Zenon DEF SameView, FailStop
  <2>4. CASE FetchFails(t)
    BY <2>4, Zenon DEF SameView, FetchFails
  <2>5. CASE InstallGarbled(t)
    BY <2>5, Zenon DEF SameView, InstallGarbled
  <2>6. CASE ApplyPanics(t)
    BY <2>6, Zenon DEF SameView, ApplyPanics
  <2> QED
    BY <1>1, <2>1, <2>2, <2>3, <2>4, <2>5, <2>6, Stutter
<1>2. CASE FailClear(t)
  BY <1>0, <1>2, SMT DEF FailClear, ClearPublications, View!Suspend
<1>3. CASE ApplyOverflows(t)
  <2>1. UNCHANGED <<server, asked, buffering>>
    BY <1>3, Zenon DEF ApplyOverflows
  <2>2. book' = book \/ (batch[t] # <<>> /\ ~Gap(t) /\ Absorb(t))
    BY <1>3, Zenon DEF ApplyOverflows
  <2>3. batch[t] # <<>> => Head(batch[t]) \in Nat /\ Head(batch[t]) <= server
    <3>1. Upto(batch[t], server)
      BY <1>0 DEF TaskOK, HeldOK
    <3>2. batch[t] # <<>> => Head(batch[t]) \in Nat
      BY <1>0, SMT
    <3> QED
      BY <1>0, <3>1, <3>2, UptoHead
  <2>4. book' = book \/ (book < server /\ book' = book + 1)
    BY <1>0, <2>2, <2>3, SMT DEF Gap, Absorb
  <2> QED
    BY <2>1, <2>4, Zenon DEF View!Follow
<1> QED
  BY <1>1, <1>2, <1>3 DEF FailStep, TaskFault

\* The pump follows the log; everything else is a stutter.
LEMMA OtherView ==
  ASSUME IInv,
         \/ \E w \in Workers : WorkerStep(w)
         \/ \E c \in Callers : CallerStep(c) \/ CallerCalls(c) \/ CallerCancels(c)
         \/ RunStep \/ StartStep \/ StartTimesOut \/ ConnectFails \/ Publish \/ LinkFails
  PROVE  [View!Next]_View!vars
<1> USE DEF View!Next, View!vars, bufferVars, endVars, transportVars, historyVars
<1>0. buffering \in BOOLEAN
  BY DEF IInv, TypeOK, FlagsOK
<1>1. CASE \E w \in Workers : WorkerStep(w)
  BY <1>1, Stutter, SMT DEF SameView, WorkerStep, Round, Check, Pause, Idling, Handoff
<1>2. CASE \E c \in Callers : CloseClear(c)
  BY <1>0, <1>2, SMT DEF CloseClear, ClearPublications, View!Suspend
<1>3. CASE \E c \in Callers : \/ CloseDispose(c) \/ CloseStop(c)
                              \/ CallerCalls(c) \/ CallerCancels(c)
  BY <1>3, Stutter, SMT DEF SameView, CloseDispose, CloseStop, CallerCalls, CallerCancels
<1>4. CASE Connect \/ ConnectPause \/ Connected \/ PumpLosesLink \/ PumpEnds \/ PumpStops
  <2>1. CASE Connect
    BY <2>1, Zenon DEF SameView, Connect
  <2>2. CASE ConnectPause
    BY <2>2, Zenon DEF SameView, ConnectPause
  <2>3. CASE Connected
    BY <2>3, Zenon DEF SameView, Connected
  <2>4. CASE PumpLosesLink
    BY <2>4, Zenon DEF SameView, PumpLosesLink
  <2>5. CASE PumpEnds
    BY <2>5, Zenon DEF SameView, PumpEnds
  <2>6. CASE PumpStops
    BY <2>6, Zenon DEF SameView, PumpStops
  <2> QED
    BY <1>4, <2>1, <2>2, <2>3, <2>4, <2>5, <2>6, Stutter
<1>5. CASE HandlePublication \/ ApplyLive \/ RunUnready
  <2>1. CASE HandlePublication
    BY <2>1, Zenon DEF SameView, HandlePublication
  <2>2. CASE ApplyLive
    BY <2>2, Zenon DEF SameView, ApplyLive
  <2>3. CASE RunUnready
    BY <2>3, Zenon DEF SameView, RunUnready
  <2> QED
    BY <1>5, <2>1, <2>2, <2>3, Stutter
<1>6. CASE StartStep \/ StartTimesOut \/ ConnectFails \/ LinkFails
  <2>1. CASE StartStep
    BY <2>1, Zenon DEF SameView, StartStep
  <2>2. CASE StartTimesOut
    BY <2>2, Zenon DEF SameView, StartTimesOut
  <2>3. CASE ConnectFails
    BY <2>3, Zenon DEF SameView, ConnectFails
  <2>4. CASE LinkFails
    BY <2>4, Zenon DEF SameView, LinkFails
  <2> QED
    BY <1>6, <2>1, <2>2, <2>3, <2>4, Stutter
<1>7. CASE Publish
  BY <1>7, Zenon DEF Publish, View!Publish
<1> QED
  BY <1>1, <1>2, <1>3, <1>4, <1>5, <1>6, <1>7 DEF CallerStep, RunStep

\* Every step of the coordinator is a step or a stutter of BookView.
LEMMA ViewStep ==
  ASSUME IInv, [Next]_vars
  PROVE  [View!Next]_View!vars
<1>1. CASE Next
  BY <1>1, RequestView, RefreshView, FailView, OtherView DEF Next, TaskStep, Environment
<1>2. CASE UNCHANGED vars
  BY <1>2, Zenon DEF vars, bufferVars, transportVars, historyVars, View!vars
<1> QED
  BY <1>1, <1>2

\* The refinement: whatever its tasks, callers, failures and reconnects do, the
\* stream keeps the promise of BookView.  A live book follows the log entry by
\* entry, a book is never rewound, and no refresh that was asked for is
\* answered with a book fetched before it was asked.
THEOREM StreamFollowsTheLog == Spec => FollowsTheLog
<1>1. Init => View!Init
  BY ViewInit
<1>2. IInv /\ [Next]_vars => [View!Next]_View!vars
  BY ViewStep
<1> QED
  BY <1>1, <1>2, InvCorrect, PTL DEF Spec, FollowsTheLog, View!Spec

-----------------------------------------------------------------------------
(* One worker, and what a task leaves alone *)

\* Where a worker is outside its rounds: not running, or retired and between
\* storing worker_running = false and looking for a request once more.
Outside == {"idle", "handoff"}

\* worker_running is set as long as a worker is inside.
WorkersCounted == \A w \in Workers : at[w] \notin Outside => workerRunning

\* The steps that follow the store of disposed.
Ending == {"failClear", "failStop", "closeClear", "closeStop"}

\* Nothing after that store is done of a stream that was not disposed.
EndedOK == \A t \in Tasks : at[t] \in Ending => disposed

\* A batch that reaches the last publication handled.
Reaches(seq) == \E i \in DOMAIN seq : seq[i] >= handled

\* What t is about to do with the last publication handled: give the stream up,
\* ask for a snapshot at least as new, or apply a batch that reaches it.
Carries(t) ==
  \/ at[t] \in {"fail", "failDispose"}
  \/ at[t] \in {"request", "reqBump"} /\ (t = Run \/ gate = t)
  \/ at[t] = "reqBuffer" /\ (t = Run \/ gate = t) /\ handled <= asked
  \/ at[t] \in {"install", "live", "apply"} /\ Reaches(batch[t])

\* The last publication handled is in the book, or covered by a request or by
\* the buffer of a stream that buffers, or carried by a task.
Covered ==
  \/ disposed \/ handled <= book
  \/ buffering /\ (handled <= asked \/ Reaches(pending))
  \/ \E t \in Tasks : Carries(t)

\* What a step of one task leaves alone.
Alone(t, from) ==
  /\ at[t] \in from
  /\ \A s \in Tasks : s # t => /\ at'[s] = at[s] /\ batch'[s] = batch[s]
                               /\ gate = s => gate' = s
  /\ UNCHANGED <<handled, workerRunning>>
  /\ disposed => disposed'
  /\ at'[t] \in Ending => disposed'

\* A task that only moves leaves the others alone.
LEMMA MoveAlone ==
  ASSUME TasksOK, NEW t \in Tasks, NEW l, Move(t, l), NEW from, at[t] \in from,
         UNCHANGED <<gate, handled, workerRunning>>, disposed => disposed',
         l \in Ending => disposed'
  PROVE  Alone(t, from)
BY MoveAt, Zenon DEF Alone

\* So does one that moves with a batch in its hands.
LEMMA HoldAlone ==
  ASSUME TasksOK, NEW t \in Tasks, NEW l, NEW d, Hold(t, d, l), NEW from, at[t] \in from,
         UNCHANGED <<gate, handled, workerRunning, disposed>>, l \notin Ending
  PROVE  Alone(t, from)
BY HoldAt, Zenon DEF Alone

\* So does one that starts to fail the stream.
LEMMA FailingAlone ==
  ASSUME TasksOK, NEW t \in Tasks, NEW r, NEW c, Failing(t, r, c), NEW from, at[t] \in from,
         \A s \in Tasks : s # t => batch'[s] = batch[s] /\ (gate = s => gate' = s),
         UNCHANGED <<handled, workerRunning, disposed>>
  PROVE  Alone(t, from)
<1>1. "fail" \notin Ending
  BY SMT DEF Ending
<1> QED
  BY <1>1, FailingAt, Zenon DEF Alone

\* So does the end of a refresh, which gives up the gate its task holds.
LEMMA ReturnAlone ==
  ASSUME IInv, NEW t \in Tasks, NEW e, Return(t, e), NEW from, at[t] \in from \cap Refreshing,
         UNCHANGED <<handled, workerRunning, disposed>>
  PROVE  Alone(t, from)
<1>1. gate = t
  BY Zenon DEF IInv, Consistent, TaskOK, PlaceOK
<1>2. at'[t] \notin Ending /\ \A s \in Tasks : s # t => at'[s] = at[s] /\ batch'[s] = batch[s]
  <2>1. at'[t] \in Left /\ \A s \in Tasks : s # t => at'[s] = at[s] /\ batch'[s] = batch[s]
    BY ReturnAt, Zenon DEF IInv, TypeOK
  <2> QED
    BY <2>1, SMT DEF Left, Ending
<1> QED
  BY <1>1, <1>2, Zenon DEF Alone

\* Where a task goes after a request.
LEMMA ResumeLabel == \A t : Resume(t) \in {"drain", "pump", "idle"}
BY SMT DEF Resume

\* A step of a refresh.
LEMMA RefreshAlone ==
  ASSUME IInv, NEW t \in Tasks, RefreshStep(t)
  PROVE  Alone(t, Refreshing \cup {"gate", "apply"})
<1> DEFINE From == Refreshing \cup {"gate", "apply"}
<1> USE DEF bufferVars, endVars, refreshVars, transportVars, historyVars
<1>0. TasksOK
  BY DEF IInv, TypeOK
<1>from. /\ "gate" \in From /\ "begin" \in From /\ "buffer" \in From /\ "fetch" \in From
      /\ "take" \in From /\ "install" \in From /\ "apply" \in From /\ "drain" \in From
      /\ "clearError" \in From /\ "returnErr" \in From
      /\ Refreshing \subseteq From
      /\ {"begin", "buffer", "fetch", "take", "drain", "clearError", "returnErr"} \subseteq Refreshing
  BY SMT DEF Refreshing
<1>labels. \A l \in {"begin", "fetch", "apply", "clearError", "drain", "pump", "idle", "install", "request", "take", "buffer"} : l \notin Ending
  BY SMT DEF Ending
<1>1. CASE AcquireGate(t)
  <2>1. at[t] \in From /\ gate = NoTask /\ Move(t, "begin") /\ UNCHANGED <<handled, workerRunning, disposed>>
    BY <1>1, <1>from, Zenon DEF AcquireGate, At
  <2>2. \A s \in Tasks : gate # s
    BY <2>1, TasksAssumption, SMT DEF Tasks
  <2> QED
    BY <1>0, <1>labels, <2>1, <2>2, MoveAt, Zenon DEF Alone
<1>2. CASE BeginRefresh(t)
  <2>1. at[t] \in From \cap Refreshing /\ UNCHANGED <<handled, workerRunning, disposed>>
    BY <1>2, <1>from, Zenon DEF BeginRefresh, At
  <2>2. CASE \E e \in BOOLEAN : Return(t, e)
    BY <2>1, <2>2, ReturnAlone, Zenon
  <2>3. CASE ~disposed
    <3>1. Goto(t, "buffer") /\ UNCHANGED <<batch, gate>>
      BY <1>2, <2>3, Zenon DEF BeginRefresh
    <3>2. at'[t] = "buffer" /\ \A s \in Tasks : s # t => at'[s] = at[s]
      BY <1>0, <3>1, Zenon DEF Goto, TasksOK
    <3> QED
      BY <1>labels, <2>1, <3>1, <3>2, Zenon DEF Alone
  <2> QED
    BY <1>2, <2>2, <2>3, Zenon DEF BeginRefresh
<1>3. CASE Buffer(t)
  <2>1. at[t] \in From /\ Move(t, "fetch") /\ UNCHANGED <<gate, handled, workerRunning, disposed>>
    BY <1>3, <1>from, Zenon DEF Buffer, At
  <2> QED
    BY <1>0, <1>labels, <2>1, MoveAlone, Zenon
<1>4. CASE FetchAnswered(t)
  <2>1. at[t] \in From /\ Goto(t, "take") /\ UNCHANGED <<batch, gate, handled, workerRunning, disposed>>
    BY <1>4, <1>from, Zenon DEF FetchAnswered, At
  <2>2. at'[t] = "take" /\ \A s \in Tasks : s # t => at'[s] = at[s]
    BY <1>0, <2>1, Zenon DEF Goto, TasksOK
  <2> QED
    BY <1>labels, <2>1, <2>2, Zenon DEF Alone
<1>5. CASE FetchStopped(t)
  <2>1. at[t] \in From \cap Refreshing /\ Return(t, FALSE) /\ UNCHANGED <<handled, workerRunning, disposed>>
    BY <1>5, <1>from, Zenon DEF FetchStopped, At
  <2> QED
    BY <2>1, ReturnAlone, Zenon
<1>6. CASE TakeBuffered(t)
  <2>1. at[t] \in From \cap Refreshing /\ UNCHANGED <<handled, workerRunning, disposed>>
    BY <1>6, <1>from, Zenon DEF TakeBuffered, At
  <2>2. Return(t, FALSE) \/ (Hold(t, pending, "install") /\ gate' = gate)
    BY <1>6, Zenon DEF TakeBuffered
  <2> QED
    BY <1>0, <1>labels, <2>1, <2>2, ReturnAlone, HoldAlone, Zenon
<1>7. CASE InstallSnapshot(t)
  <2>1. at[t] \in From /\ Move(t, "apply") /\ UNCHANGED <<gate, handled, workerRunning, disposed>>
    BY <1>7, <1>from, Zenon DEF InstallSnapshot, At
  <2> QED
    BY <1>0, <1>labels, <2>1, MoveAlone, Zenon
<1>8. CASE ApplyDelta(t)
  <2>1. at[t] \in From /\ UNCHANGED <<gate, handled, workerRunning, disposed>>
    BY <1>8, <1>from, Zenon DEF ApplyDelta, At
  <2>2. Move(t, Resume(t)) \/ Hold(t, <<>>, "request") \/ Hold(t, Tail(batch[t]), "apply")
    BY <1>8, Zenon DEF ApplyDelta
  <2>3. Resume(t) \notin Ending
    BY <1>labels, ResumeLabel, SMT
  <2> QED
    BY <1>0, <1>labels, <2>1, <2>2, <2>3, MoveAlone, HoldAlone, Zenon
<1>9. CASE ReturnErr(t)
  <2>1. at[t] \in From \cap Refreshing /\ Return(t, TRUE) /\ UNCHANGED <<handled, workerRunning, disposed>>
    BY <1>9, <1>from, Zenon DEF ReturnErr, At
  <2> QED
    BY <2>1, ReturnAlone, Zenon
<1>10. CASE DrainOrReady(t)
  <2>1. at[t] \in From \cap Refreshing /\ UNCHANGED <<handled, workerRunning, disposed>>
    BY <1>10, <1>from, Zenon DEF DrainOrReady, At
  <2>2. \/ Return(t, FALSE)
        \/ Move(t, "clearError") /\ gate' = gate
        \/ Hold(t, pending, "apply") /\ gate' = gate
    BY <1>10, Zenon DEF DrainOrReady
  <2> QED
    BY <1>0, <1>labels, <2>1, <2>2, ReturnAlone, MoveAlone, HoldAlone, Zenon
<1>11. CASE ClearError(t)
  <2>1. at[t] \in From \cap Refreshing /\ Return(t, FALSE) /\ UNCHANGED <<handled, workerRunning, disposed>>
    BY <1>11, <1>from, Zenon DEF ClearError, At
  <2> QED
    BY <2>1, ReturnAlone, Zenon
<1> QED
  BY <1>1, <1>2, <1>3, <1>4, <1>5, <1>6, <1>7, <1>8, <1>9, <1>10, <1>11 DEF RefreshStep

\* A step of a request, but for the start of a worker.
LEMMA RequestAlone ==
  ASSUME IInv, NEW t \in Tasks, ReqMark(t) \/ ReqBump(t) \/ ReqBuffer(t)
  PROVE  Alone(t, Requesting)
<1> USE DEF bufferVars, endVars, refreshVars, transportVars, historyVars
<1>0. TasksOK
  BY DEF IInv, TypeOK
<1>1. at[t] \in Requesting /\ UNCHANGED <<gate, handled, workerRunning, disposed>>
  BY SMT DEF ReqMark, ReqBump, ReqBuffer, Requesting, At
<1>2. \E l \in {Resume(t), "reqBump", "reqBuffer", "reqSpawn"} : Move(t, l)
  BY Zenon DEF ReqMark, ReqBump, ReqBuffer
<1>3. \A l \in {Resume(t), "reqBump", "reqBuffer", "reqSpawn"} : l \notin Ending
  BY ResumeLabel, SMT DEF Ending
<1> QED
  BY <1>0, <1>1, <1>2, <1>3, MoveAlone, Zenon

\* A step of fail_closed.
LEMMA FailAlone ==
  ASSUME IInv, EndedOK, NEW t \in Tasks, FailStep(t)
  PROVE  Alone(t, FailSteps)
<1> USE DEF bufferVars, endVars, refreshVars, transportVars, historyVars
<1>0. TasksOK
  BY DEF IInv, TypeOK
<1>1. at[t] \in FailSteps /\ UNCHANGED <<gate, handled, workerRunning>> /\ (disposed => disposed')
  BY SMT DEF FailStep, FailUnready, FailDispose, FailClear, FailStop, FailSteps, At
<1>2. \/ Move(t, "failDispose")
      \/ Move(t, "failClear") /\ disposed'
      \/ Move(t, "failStop") /\ at[t] = "failClear" /\ disposed' = disposed
      \/ Move(t, next[t]) /\ disposed' = disposed
  BY Zenon DEF FailStep, FailUnready, FailDispose, FailClear, FailStop, At
<1>3. "failDispose" \notin Ending /\ next[t] \notin Ending /\ "failClear" \in Ending
  BY SMT DEF Ending, IInv, Consistent, TaskOK, PlaceOK, AfterFail
<1>4. at[t] = "failClear" => disposed
  BY <1>3, Zenon DEF EndedOK
<1> QED
  BY <1>0, <1>1, <1>2, <1>3, <1>4, MoveAlone, Zenon

\* A failure of a fetch or of a callback.
LEMMA FaultAlone ==
  ASSUME IInv, NEW t \in Tasks, TaskFault(t)
  PROVE  Alone(t, {"fetch", "install", "apply"})
<1> USE DEF bufferVars, endVars, refreshVars, transportVars, historyVars
<1>0. TasksOK
  BY DEF IInv, TypeOK
<1>1. UNCHANGED <<handled, workerRunning, disposed>>
  BY Zenon DEF TaskFault, FetchFails, InstallGarbled, ApplyOverflows, ApplyPanics
<1>2. CASE FetchFails(t)
  <2>1. at[t] = "fetch" /\ Return(t, TRUE)
    BY <1>2, Zenon DEF FetchFails, At
  <2>2. "fetch" \in {"fetch", "install", "apply"} \cap Refreshing
    BY SMT DEF Refreshing
  <2> QED
    BY <1>1, <2>1, <2>2, ReturnAlone, Zenon
<1>3. CASE InstallGarbled(t)
  <2>1. at[t] \in {"fetch", "install", "apply"} /\ Hold(t, <<>>, "request") /\ gate' = gate /\ "request" \notin Ending
    BY <1>3, SMT DEF InstallGarbled, At, Ending
  <2> QED
    BY <1>0, <1>1, <2>1, HoldAlone, Zenon
<1>4. CASE ApplyOverflows(t)
  <2>1. at[t] \in {"fetch", "install", "apply"} /\ Failing(t, FALSE, "apply") /\ gate' = gate
    BY <1>4, Zenon DEF ApplyOverflows, At
  <2>2. \A s \in Tasks : s # t => batch'[s] = batch[s]
    BY <1>0, <1>4, Zenon DEF ApplyOverflows, TasksOK
  <2> QED
    BY <1>0, <1>1, <2>1, <2>2, FailingAlone, Zenon
<1>5. CASE ApplyPanics(t)
  <2>1. at[t] \in {"fetch", "install", "apply"} /\ gate' = gate /\ batch' = batch
    BY <1>5, SMT DEF ApplyPanics, At
  <2>2. \E c \in {"returnErr", "done"} : Failing(t, FALSE, c)
    BY <1>5, Zenon DEF ApplyPanics
  <2> QED
    BY <1>0, <1>1, <2>1, <2>2, FailingAlone, Zenon
<1> QED
  BY <1>2, <1>3, <1>4, <1>5 DEF TaskFault

\* A worker between two rounds.
LEMMA WorkerAlone ==
  ASSUME IInv, NEW w \in Workers, Round(w) \/ Check(w) \/ Pause(w)
  PROVE  Alone(w, {"round", "check", "checkErr", "pause"})
<1> USE DEF bufferVars, endVars, refreshVars, transportVars, historyVars
<1>0. TasksOK /\ w \in Tasks
  BY DEF IInv, TypeOK, Tasks
<1>1. /\ at[w] \in {"round", "check", "checkErr", "pause"}
      /\ UNCHANGED <<gate, handled, workerRunning, disposed, batch>>
  <2>1. CASE Round(w)
    BY <2>1, Zenon DEF Round, At
  <2>2. CASE Check(w)
    BY <2>2, Zenon DEF Check, Move, Failing, localVars
  <2>3. CASE Pause(w)
    BY <2>3, Zenon DEF Pause, At, Move, localVars
  <2> QED
    BY <2>1, <2>2, <2>3
<1>2. \E l \in {"gate", "idle", "idling", "fail", "pause", "round"} : Goto(w, l)
  <2>1. CASE Round(w)
    BY <2>1, Zenon DEF Round
  <2>2. CASE Check(w)
    BY <2>2, Zenon DEF Check, Move, Failing
  <2>3. CASE Pause(w)
    BY <2>3, SMT DEF Pause, Move
  <2> QED
    BY <2>1, <2>2, <2>3
<1>3. /\ at'[w] \in {"gate", "idle", "idling", "fail", "pause", "round"}
      /\ \A s \in Tasks : s # w => at'[s] = at[s]
  BY <1>0, <1>2, Zenon DEF Goto, TasksOK
<1>4. at'[w] \notin Ending
  BY <1>3, SMT DEF Ending
<1> QED
  BY <1>1, <1>3, <1>4, Zenon DEF Alone

\* A step of run or of its pump, but for the handling of a publication.
LEMMA RunAlone ==
  ASSUME IInv, RunStep \/ ConnectFails, ~HandlePublication
  PROVE  Alone(Run, {"connect", "connectPause", "connected", "pump", "live", "unready"})
<1> DEFINE From == {"connect", "connectPause", "connected", "pump", "live", "unready"}
<1> USE DEF bufferVars, endVars, refreshVars, transportVars, historyVars
<1>0. TasksOK /\ Run \in Tasks
  BY DEF IInv, TypeOK, Tasks
<1>labels. \A l \in {"done", "connected", "connectPause", "connect", "pump", "gate", "apply"} : l \notin Ending
  BY SMT DEF Ending
<1>1. CASE Connect
  <2>1. at[Run] \in From /\ UNCHANGED <<gate, handled, workerRunning, disposed>>
    BY <1>1, Zenon DEF Connect, At
  <2>2. Move(Run, "done") \/ Move(Run, "connected")
    BY <1>1, Zenon DEF Connect
  <2> QED
    BY <1>0, <1>labels, <2>1, <2>2, MoveAlone, Zenon
<1>2. CASE ConnectFails
  <2>1. at[Run] \in From /\ UNCHANGED <<gate, handled, workerRunning, disposed>> /\ Move(Run, "connectPause")
    BY <1>2, Zenon DEF ConnectFails, At
  <2> QED
    BY <1>0, <1>labels, <2>1, MoveAlone, Zenon
<1>3. CASE ConnectPause
  <2>1. at[Run] \in From /\ UNCHANGED <<gate, handled, workerRunning, disposed>>
    BY <1>3, Zenon DEF ConnectPause, At
  <2>2. Move(Run, "done") \/ Move(Run, "connect")
    BY <1>3, SMT DEF ConnectPause
  <2> QED
    BY <1>0, <1>labels, <2>1, <2>2, MoveAlone, Zenon
<1>4. CASE Connected
  <2>1. at[Run] \in From /\ UNCHANGED <<gate, handled, workerRunning, disposed>>
    BY <1>4, Zenon DEF Connected, At
  <2>2. CASE Move(Run, "done")
    BY <1>0, <1>labels, <2>1, <2>2, MoveAlone, Zenon
  <2>3. CASE ~Move(Run, "done")
    <3>1. batch' = batch /\ (Goto(Run, "pump") \/ Goto(Run, "gate"))
      BY <1>4, <2>3, SMT DEF Connected
    <3>2. at'[Run] \in {"pump", "gate"} /\ \A s \in Tasks : s # Run => at'[s] = at[s]
      BY <1>0, <3>1, Zenon DEF Goto, TasksOK
    <3> QED
      BY <1>labels, <2>1, <3>1, <3>2, Zenon DEF Alone
  <2> QED
    BY <2>2, <2>3
<1>5. CASE ApplyLive
  <2>1. at[Run] \in From /\ UNCHANGED <<gate, handled, workerRunning, disposed>>
    BY <1>5, Zenon DEF ApplyLive, At
  <2>2. Hold(Run, <<>>, "pump") \/ Move(Run, "apply")
    BY <1>5, Zenon DEF ApplyLive
  <2> QED
    BY <1>0, <1>labels, <2>1, <2>2, MoveAlone, HoldAlone, Zenon
<1>6. CASE PumpLosesLink
  <2>1. at[Run] \in From /\ UNCHANGED <<gate, handled, workerRunning, disposed>> /\ Move(Run, "connectPause")
    BY <1>6, Zenon DEF PumpLosesLink, At
  <2> QED
    BY <1>0, <1>labels, <2>1, MoveAlone, Zenon
<1>7. CASE PumpEnds
  <2>1. at[Run] \in From /\ UNCHANGED <<gate, handled, workerRunning, disposed>>
    BY <1>7, Zenon DEF PumpEnds, At
  <2>2. Move(Run, "done") \/ (Failing(Run, FALSE, "done") /\ batch' = batch)
    BY <1>7, Zenon DEF PumpEnds
  <2> QED
    BY <1>0, <1>labels, <2>1, <2>2, MoveAlone, FailingAlone, Zenon
<1>8. CASE PumpStops
  <2>1. at[Run] \in From /\ UNCHANGED <<gate, handled, workerRunning, disposed>> /\ Move(Run, "done")
    BY <1>8, Zenon DEF PumpStops, At
  <2> QED
    BY <1>0, <1>labels, <2>1, MoveAlone, Zenon
<1>9. CASE RunUnready
  <2>1. at[Run] \in From /\ UNCHANGED <<gate, handled, workerRunning, disposed>> /\ Move(Run, "done")
    BY <1>9, Zenon DEF RunUnready, At
  <2> QED
    BY <1>0, <1>labels, <2>1, MoveAlone, Zenon
<1> QED
  BY <1>1, <1>2, <1>3, <1>4, <1>5, <1>6, <1>7, <1>8, <1>9 DEF RunStep

CallerFrom == {"idle", "starting", "gate", "fetch", "close", "closeClear", "closeStop"}

\* A step of a caller outside a refresh.
LEMMA CallerAlone ==
  ASSUME IInv, EndedOK, NEW c \in Callers, CallerStep(c) \/ CallerCalls(c) \/ CallerCancels(c)
  PROVE  Alone(c, CallerFrom)
<1> USE DEF bufferVars, endVars, refreshVars, transportVars, historyVars
<1>0. TasksOK /\ c \in Tasks
  BY DEF IInv, TypeOK, Tasks
<1>1. CASE CloseDispose(c)
  <2>1. at[c] \in CallerFrom /\ UNCHANGED <<gate, handled, workerRunning>> /\ disposed'
    BY <1>1, Zenon DEF CloseDispose, At, CallerFrom
  <2>2. Move(c, "idle") \/ Move(c, "closeClear")
    BY <1>1, SMT DEF CloseDispose
  <2> QED
    BY <1>0, <2>1, <2>2, MoveAlone, Zenon
<1>2. CASE CloseClear(c)
  <2>1. at[c] = "closeClear" /\ UNCHANGED <<gate, handled, workerRunning, disposed>> /\ Move(c, "closeStop")
    BY <1>2, Zenon DEF CloseClear, At
  <2>2. disposed /\ at[c] \in CallerFrom
    BY <1>0, <2>1, Zenon DEF EndedOK, Ending, CallerFrom
  <2> QED
    BY <1>0, <2>1, <2>2, MoveAlone, Zenon
<1>3. CASE CloseStop(c)
  <2>1. at[c] \in CallerFrom /\ UNCHANGED <<gate, handled, workerRunning, disposed>> /\ Move(c, "idle")
    BY <1>3, Zenon DEF CloseStop, At, CallerFrom
  <2>2. "idle" \notin Ending
    BY SMT DEF Ending
  <2> QED
    BY <1>0, <2>1, <2>2, MoveAlone, Zenon
<1>4. CASE CallerCalls(c)
  <2>1. at[c] \in CallerFrom /\ UNCHANGED <<gate, handled, workerRunning, disposed>>
    BY <1>4, Zenon DEF CallerCalls, At, CallerFrom
  <2>2. \E l \in {"request", "gate", "close"} : Move(c, l)
    BY <1>4, Zenon DEF CallerCalls
  <2>3. \A l \in {"request", "gate", "close"} : l \notin Ending
    BY SMT DEF Ending
  <2> QED
    BY <1>0, <2>1, <2>2, <2>3, MoveAlone, Zenon
<1>5. CASE CallerCancels(c)
  <2>1. /\ at[c] \in CallerFrom /\ UNCHANGED <<handled, workerRunning, disposed>> /\ Move(c, "idle")
        /\ gate = c \/ gate' = gate
    BY <1>5, Zenon DEF CallerCancels, CallerFrom
  <2>2. "idle" \notin Ending
    BY SMT DEF Ending
  <2> QED
    BY <1>0, <2>1, <2>2, MoveAt, Zenon DEF Alone
<1> QED
  BY <1>1, <1>2, <1>3, <1>4, <1>5 DEF CallerStep

\* start, and its deadline.
LEMMA StartAlone ==
  ASSUME IInv, StartStep \/ StartTimesOut
  PROVE  Alone(Starter, CallerFrom)
<1> USE DEF bufferVars, endVars, refreshVars, transportVars, historyVars
<1>0. TasksOK /\ Starter \in Tasks
  BY TasksAssumption DEF IInv, TypeOK, Tasks
<1>1. CASE StartStep
  <2>1. at[Starter] \in CallerFrom /\ UNCHANGED <<gate, handled, workerRunning, disposed>>
    BY <1>1, Zenon DEF StartStep, At, CallerFrom
  <2>2. \E l \in {"gate", "close"} : Move(Starter, l)
    BY <1>1, Zenon DEF StartStep
  <2>3. \A l \in {"gate", "close"} : l \notin Ending
    BY SMT DEF Ending
  <2> QED
    BY <1>0, <2>1, <2>2, <2>3, MoveAlone, Zenon
<1>2. CASE StartTimesOut
  <2>1. /\ at[Starter] \in CallerFrom /\ UNCHANGED <<handled, workerRunning, disposed, batch>>
        /\ gate = Starter \/ gate' = gate
        /\ Failing(Starter, FALSE, "close")
    BY <1>2, Zenon DEF StartTimesOut, CallerFrom
  <2> QED
    BY <1>0, <2>1, FailingAlone, Zenon
<1> QED
  BY <1>1, <1>2

\* A step of one task that was inside or is no worker.
LEMMA WorkersKept ==
  ASSUME WorkersCounted, OneWorker, NEW t \in Tasks, NEW from, Alone(t, from),
         t \in Workers => from \cap Outside = {}
  PROVE  WorkersCounted' /\ OneWorker'
<1>1. \A w \in Workers : at'[w] \notin Outside => at[w] \notin Outside
  BY SMT DEF Alone, Tasks
<1>2. workerRunning' = workerRunning
  BY Zenon DEF Alone
<1>3. WorkersCounted'
  BY <1>1, <1>2, Zenon DEF WorkersCounted
<1>4. OneWorker'
  BY <1>1, SMT DEF OneWorker, Outside
<1> QED
  BY <1>3, <1>4

\* request_refresh starts a worker only when there is none.
LEMMA SpawnWorkers ==
  ASSUME IInv, WorkersCounted, OneWorker, NEW t \in Tasks, ReqSpawn(t)
  PROVE  WorkersCounted' /\ OneWorker'
<1>0. TasksOK /\ at[t] = "reqSpawn" /\ "reqSpawn" \notin Outside
  BY SMT DEF IInv, TypeOK, ReqSpawn, At, Outside
<1>1. CASE workerRunning
  <2>1. Move(t, Resume(t)) /\ workerRunning' = workerRunning
    BY <1>1, Zenon DEF ReqSpawn
  <2>2. \A w \in Workers : at'[w] \notin Outside => at[w] \notin Outside
    BY <1>0, <2>1, MoveAt, Zenon DEF Tasks
  <2> QED
    BY <2>1, <2>2, SMT DEF WorkersCounted, OneWorker, Outside
<1>2. CASE ~workerRunning
  <2>1. PICK w \in Workers : at' = [at EXCEPT ![t] = Resume(t), ![w] = "round"]
    BY <1>2, Zenon DEF ReqSpawn
  <2>2. workerRunning' = TRUE
    BY <1>2, Zenon DEF ReqSpawn
  <2>3. \A v \in Workers : at[v] \in Outside
    BY <1>2, Zenon DEF WorkersCounted
  <2>4. t \notin Workers
    BY <1>0, <2>3
  <2>5. \A v \in Workers : v # w => at'[v] = at[v]
    BY <1>0, <2>1, <2>4, SMT DEF TasksOK, Tasks
  <2> QED
    BY <2>2, <2>3, <2>5, SMT DEF WorkersCounted, OneWorker, Outside
<1> QED
  BY <1>1, <1>2

\* A worker that retires, and one that takes a request back.
LEMMA RetireWorkers ==
  ASSUME IInv, WorkersCounted, OneWorker, NEW w \in Workers, Idling(w) \/ Handoff(w)
  PROVE  WorkersCounted' /\ OneWorker'
<1>0. TasksOK /\ w \in Tasks
  BY DEF IInv, TypeOK, Tasks
<1>1. CASE Idling(w)
  <2>1. at[w] = "idling" /\ Move(w, "handoff")
    BY <1>1, Zenon DEF Idling, At
  <2>2. at'[w] = "handoff" /\ \A v \in Workers : v # w => at'[v] = at[v]
    BY <1>0, <2>1, MoveAt, Zenon DEF Tasks
  <2>3. \A v \in Workers : at'[v] \in Outside
    BY <2>1, <2>2, SMT DEF OneWorker, Outside
  <2> QED
    BY <2>3, SMT DEF WorkersCounted, OneWorker, Outside
<1>2. CASE Handoff(w)
  <2>1. at[w] = "handoff"
    BY <1>2, Zenon DEF Handoff, At
  <2>2. CASE TakesBack
    <3>1. Goto(w, "round") /\ workerRunning' = TRUE /\ ~workerRunning
      BY <1>2, <2>2, Zenon DEF Handoff, TakesBack
    <3>2. \A v \in Workers : v # w => at'[v] = at[v]
      BY <1>0, <3>1, Zenon DEF Goto, TasksOK, Tasks
    <3>3. \A v \in Workers : at[v] \in Outside
      BY <3>1, Zenon DEF WorkersCounted
    <3> QED
      BY <3>1, <3>2, <3>3, SMT DEF WorkersCounted, OneWorker, Outside
  <2>3. CASE ~TakesBack
    <3>1. Move(w, "idle") /\ workerRunning' = workerRunning
      BY <1>2, <2>3, Zenon DEF Handoff
    <3>2. at'[w] = "idle" /\ \A v \in Workers : v # w => at'[v] = at[v]
      BY <1>0, <3>1, MoveAt, Zenon DEF Tasks
    <3>3. \A v \in Workers : at'[v] \notin Outside => at[v] \notin Outside
      BY <3>2, SMT DEF Outside
    <3> QED
      BY <3>1, <3>3, SMT DEF WorkersCounted, OneWorker, Outside
  <2> QED
    BY <2>2, <2>3
<1> QED
  BY <1>1, <1>2

\* Where a publication takes Run.
LEMMA HandlePublicationAt ==
  ASSUME IInv, HandlePublication
  PROVE  /\ at[Run] = "pump" /\ at'[Run] \in {"pump", "fail", "live"}
         /\ \A s \in Tasks : s # Run => at'[s] = at[s] /\ batch'[s] = batch[s]
         /\ UNCHANGED <<gate, disposed, workerRunning, buffering, book, asked, server>>
<1>0. TasksOK /\ Run \in Tasks
  BY DEF IInv, TypeOK, Tasks
<1>1. at[Run] = "pump"
  BY Zenon DEF HandlePublication, At
<1>2. UNCHANGED <<gate, disposed, workerRunning, buffering, book, asked, server>>
  BY Zenon DEF HandlePublication, endVars, refreshVars
<1>3. CASE UNCHANGED <<at, localVars>>
  BY <1>1, <1>2, <1>3, Zenon DEF localVars
<1>4. CASE Failing(Run, FALSE, "pump") /\ UNCHANGED batch
  BY <1>0, <1>1, <1>2, <1>4, FailingAt, Zenon
<1>5. CASE Hold(Run, <<Head(queue)>>, "live")
  BY <1>0, <1>1, <1>2, <1>5, HoldAt, Zenon
<1> QED
  BY <1>3, <1>4, <1>5, Zenon DEF HandlePublication

\* The worker's flag is set while a worker is inside, and never for two.
LEMMA WorkersStep ==
  ASSUME IInv, EndedOK, WorkersCounted, OneWorker, [Next]_vars
  PROVE  WorkersCounted' /\ OneWorker'
<1>1. ASSUME NEW t \in Tasks, TaskStep(t) \/ TaskFault(t) PROVE WorkersCounted' /\ OneWorker'
  <2>1. CASE RefreshStep(t)
    <3>1. (Refreshing \cup {"gate", "apply"}) \cap Outside = {}
      BY SMT DEF Refreshing, Outside
    <3> QED
      BY <2>1, <3>1, RefreshAlone, WorkersKept, Zenon
  <2>2. CASE ReqMark(t) \/ ReqBump(t) \/ ReqBuffer(t)
    <3>1. Requesting \cap Outside = {}
      BY SMT DEF Requesting, Outside
    <3> QED
      BY <2>2, <3>1, RequestAlone, WorkersKept, Zenon
  <2>3. CASE ReqSpawn(t)
    BY <2>3, SpawnWorkers
  <2>4. CASE FailStep(t)
    <3>1. FailSteps \cap Outside = {}
      BY SMT DEF FailSteps, Outside
    <3> QED
      BY <2>4, <3>1, FailAlone, WorkersKept, Zenon
  <2>5. CASE TaskFault(t)
    <3>1. {"fetch", "install", "apply"} \cap Outside = {}
      BY SMT DEF Outside
    <3> QED
      BY <2>5, <3>1, FaultAlone, WorkersKept, Zenon
  <2> QED
    BY <1>1, <2>1, <2>2, <2>3, <2>4, <2>5 DEF TaskStep, RequestStep
<1>2. ASSUME NEW w \in Workers, WorkerStep(w) PROVE WorkersCounted' /\ OneWorker'
  <2>1. CASE Round(w) \/ Check(w) \/ Pause(w)
    <3>1. {"round", "check", "checkErr", "pause"} \cap Outside = {} /\ w \in Tasks
      BY SMT DEF Outside, Tasks
    <3> QED
      BY <2>1, <3>1, WorkerAlone, WorkersKept, Zenon
  <2> QED
    BY <1>2, <2>1, RetireWorkers DEF WorkerStep
<1>3. ASSUME NEW c \in Callers, CallerStep(c) \/ CallerCalls(c) \/ CallerCancels(c)
      PROVE  WorkersCounted' /\ OneWorker'
  <2>1. c \in Tasks /\ c \notin Workers
    BY TasksAssumption DEF Tasks
  <2> QED
    BY <1>3, <2>1, CallerAlone, WorkersKept, Zenon
<1>4. CASE StartStep \/ StartTimesOut
  <2>1. Starter \in Tasks /\ Starter \notin Workers
    BY TasksAssumption DEF Tasks
  <2> QED
    BY <1>4, <2>1, StartAlone, WorkersKept, Zenon
<1>5. CASE (RunStep \/ ConnectFails) /\ ~HandlePublication
  <2>1. Run \in Tasks /\ Run \notin Workers
    BY TasksAssumption DEF Tasks
  <2> QED
    BY <1>5, <2>1, RunAlone, WorkersKept, Zenon
<1>6. CASE HandlePublication
  <2>1. workerRunning' = workerRunning /\ \A w \in Workers : at'[w] = at[w]
    BY <1>6, HandlePublicationAt, TasksAssumption, Zenon DEF Tasks
  <2> QED
    BY <2>1, SMT DEF WorkersCounted, OneWorker, Outside
<1>7. CASE Publish \/ LinkFails \/ UNCHANGED vars
  <2>1. workerRunning' = workerRunning /\ at' = at
    BY <1>7, Zenon DEF Publish, LinkFails, vars, refreshVars
  <2> QED
    BY <2>1, SMT DEF WorkersCounted, OneWorker, Outside
<1> QED
  BY <1>1, <1>2, <1>3, <1>4, <1>5, <1>6, <1>7 DEF Next, Environment

\* A task ends a stream that is disposed.
LEMMA EndedStep ==
  ASSUME IInv, EndedOK, [Next]_vars
  PROVE  EndedOK'
<1>0. TasksOK
  BY DEF IInv, TypeOK
<1>1. ASSUME NEW t \in Tasks, NEW from, Alone(t, from) PROVE EndedOK'
  BY <1>1, Zenon DEF EndedOK, Alone
<1>2. ASSUME NEW t \in Tasks, ReqSpawn(t) PROVE EndedOK'
  <2>1. disposed' = disposed
    BY <1>2, Zenon DEF ReqSpawn, endVars
  <2>2. Resume(t) \notin Ending /\ "round" \notin Ending
    BY ResumeLabel, SMT DEF Ending
  <2>3. \A s \in Tasks : at'[s] \in {at[s], Resume(t), "round"}
    <3>1. CASE Move(t, Resume(t))
      BY <1>0, <3>1, MoveAt, Zenon
    <3>2. CASE \E w \in Workers : at' = [at EXCEPT ![t] = Resume(t), ![w] = "round"]
      BY <1>0, <3>2, SMT DEF TasksOK
    <3> QED
      BY <1>2, <3>1, <3>2, Zenon DEF ReqSpawn
  <2> QED
    BY <2>1, <2>2, <2>3, Zenon DEF EndedOK
<1>3. ASSUME NEW w \in Workers, Idling(w) \/ Handoff(w) PROVE EndedOK'
  <2>1. disposed' = disposed
    BY <1>3, Zenon DEF Idling, Handoff, endVars
  <2>2. \E l \in {"handoff", "idle", "round"} : Goto(w, l)
    BY <1>3, Zenon DEF Idling, Handoff, Move
  <2>3. \A s \in Tasks : at'[s] \in {at[s], "handoff", "idle", "round"}
    BY <1>0, <2>2, SMT DEF Goto, TasksOK
  <2>4. \A l \in {"handoff", "idle", "round"} : l \notin Ending
    BY SMT DEF Ending
  <2> QED
    BY <2>1, <2>3, <2>4, Zenon DEF EndedOK
<1>4. CASE HandlePublication
  <2>1. \A l \in {"pump", "fail", "live"} : l \notin Ending
    BY SMT DEF Ending
  <2>2. disposed' = disposed /\ \A s \in Tasks : at'[s] \in {at[s], "pump", "fail", "live"}
    BY <1>4, HandlePublicationAt, SMT
  <2> QED
    BY <2>1, <2>2, Zenon DEF EndedOK
<1>5. CASE Publish \/ LinkFails \/ UNCHANGED vars
  <2>1. disposed' = disposed /\ at' = at
    BY <1>5, Zenon DEF Publish, LinkFails, vars, endVars
  <2> QED
    BY <2>1, Zenon DEF EndedOK
<1>6. Starter \in Tasks /\ Run \in Tasks /\ Workers \subseteq Tasks /\ Callers \subseteq Tasks
  BY TasksAssumption DEF Tasks
<1>7. ASSUME NEW t \in Tasks, TaskStep(t) \/ TaskFault(t) PROVE EndedOK'
  <2>1. CASE RefreshStep(t)
    BY <1>1, <2>1, RefreshAlone
  <2>2. CASE ReqMark(t) \/ ReqBump(t) \/ ReqBuffer(t)
    BY <1>1, <2>2, RequestAlone
  <2>3. CASE FailStep(t)
    BY <1>1, <2>3, FailAlone
  <2>4. CASE TaskFault(t)
    BY <1>1, <2>4, FaultAlone
  <2> QED
    BY <1>2, <1>7, <2>1, <2>2, <2>3, <2>4 DEF TaskStep, RequestStep
<1>8. ASSUME NEW w \in Workers, WorkerStep(w) PROVE EndedOK'
  <2>1. CASE Round(w) \/ Check(w) \/ Pause(w)
    BY <1>1, <1>6, <2>1, WorkerAlone
  <2> QED
    BY <1>3, <1>8, <2>1 DEF WorkerStep
<1>9. ASSUME NEW c \in Callers, CallerStep(c) \/ CallerCalls(c) \/ CallerCancels(c) PROVE EndedOK'
  BY <1>1, <1>6, <1>9, CallerAlone
<1>10. CASE StartStep \/ StartTimesOut
  BY <1>1, <1>6, <1>10, StartAlone
<1>11. CASE (RunStep \/ ConnectFails) /\ ~HandlePublication
  BY <1>1, <1>6, <1>11, RunAlone
<1> QED
  BY <1>4, <1>5, <1>7, <1>8, <1>9, <1>10, <1>11 DEF Next, Environment

\* OneWorker holds of every behaviour: a request starts a worker only on the step
\* that sets worker_running, and a retiring worker claims the flag back, or leaves.
THEOREM WorkerTheorem == Spec => []OneWorker
<1> DEFINE I == IInv /\ EndedOK /\ WorkersCounted /\ OneWorker
<1>1. Init => I
  <2> SUFFICES ASSUME Init PROVE EndedOK /\ WorkersCounted /\ OneWorker
    BY IInvInit
  <2>1. \A t \in Tasks : at[t] \in {"connect", "starting", "idle"}
    BY SMT DEF Init
  <2>2. \A w \in Workers : at[w] = "idle"
    BY TasksAssumption, SMT DEF Init, Tasks
  <2>3. EndedOK
    BY <2>1, SMT DEF EndedOK, Ending
  <2>4. WorkersCounted
    BY <2>2, SMT DEF WorkersCounted, Outside
  <2>5. \A v, w \in Workers : "idle" \in {at[v], at[w]} \cap {"idle", "handoff"}
    BY <2>2, Zenon
  <2>6. OneWorker
    BY <2>5, Zenon DEF OneWorker
  <2> QED
    BY <2>3, <2>4, <2>6
<1>2. I /\ [Next]_vars => I'
  BY IInvStep, EndedStep, WorkersStep
<1>3. I => OneWorker
  OBVIOUS
<1> QED
  BY <1>1, <1>2, <1>3, PTL DEF Spec

-----------------------------------------------------------------------------
(* A book that serves holds what was handled *)

\* The log, the last request and the book only grow.
LEMMA Grows ==
  ASSUME IInv, [Next]_vars
  PROVE  /\ book \in Nat /\ asked \in Nat /\ server \in Nat /\ handled \in Nat
         /\ book' \in Nat /\ asked' \in Nat /\ server' \in Nat
         /\ book <= book' /\ asked <= asked' /\ server <= server'
<1>1. /\ book \in Nat /\ asked \in Nat /\ server \in Nat /\ handled \in Nat /\ asked <= server
  BY DEF IInv, TypeOK, CountersOK, Consistent, SharedOK
<1>2. book' \in Nat /\ asked' \in Nat /\ server' \in Nat
  BY IInvStep DEF IInv, TypeOK, CountersOK
<1>3. [View!Next]_View!vars
  BY ViewStep
<1> QED
  BY <1>1, <1>2, <1>3, SMT DEF View!Next, View!vars, View!Publish, View!Ask, View!Suspend, View!Resume, View!Follow, View!Jump

\* Another task still carries what it carried.
LEMMA OthersCarry ==
  ASSUME IInv, [Next]_vars, NEW t \in Tasks, handled' = handled,
         \A s \in Tasks : s # t => /\ at[s] = "idle" \/ at'[s] = at[s]
                                   /\ batch'[s] = batch[s] /\ (gate = s => gate' = s),
         NEW s \in Tasks, s # t, Carries(s)
  PROVE  Carries(s)'
<1>1. at'[s] = at[s] /\ batch'[s] = batch[s] /\ (gate = s => gate' = s) /\ handled' = handled
  <2>1. at[s] # "idle"
    BY SMT DEF Carries
  <2> QED
    BY <2>1
<1>2. asked <= asked' /\ asked \in Nat /\ asked' \in Nat /\ handled \in Nat
  BY Grows
<1> QED
  BY <1>1, <1>2, SMT DEF Carries, Reaches

\* A step that does not give up what it carries and does not drain the buffer.
LEMMA CoveredKept ==
  ASSUME IInv, Covered, [Next]_vars, NEW t \in Tasks, handled' = handled, disposed => disposed',
         \A s \in Tasks : s # t => /\ at[s] = "idle" \/ at'[s] = at[s]
                                   /\ batch'[s] = batch[s] /\ (gate = s => gate' = s),
         buffering => (buffering' /\ pending' = pending) \/ disposed',
         Carries(t) => Covered'
  PROVE  Covered'
<1>0. /\ book \in Nat /\ asked \in Nat /\ handled \in Nat /\ book' \in Nat /\ asked' \in Nat
      /\ book <= book' /\ asked <= asked'
  BY Grows
<1>1. CASE disposed \/ handled <= book
  BY <1>0, <1>1, SMT DEF Covered
<1>2. CASE buffering /\ handled <= asked
  BY <1>0, <1>2, SMT DEF Covered
<1>3. CASE buffering /\ Reaches(pending)
  <2>1. Reaches(pending)' \/ disposed'
    BY <1>3, SMT DEF Reaches
  <2> QED
    BY <1>3, <2>1, Zenon DEF Covered
<1>4. ASSUME NEW s \in Tasks, Carries(s) PROVE Covered'
  <2>1. CASE s = t
    BY <1>4, <2>1
  <2>2. CASE s # t
    <3>1. Carries(s)'
      BY <1>4, <2>2, OthersCarry
    <3> QED
      BY <3>1, Zenon DEF Covered
  <2> QED
    BY <2>1, <2>2
<1> QED
  BY <1>1, <1>2, <1>3, <1>4, Zenon DEF Covered

Carrying == {"fail", "failDispose", "request", "reqBump", "reqBuffer", "install", "live", "apply"}

\* A task that carries nothing and leaves the others alone loses nothing.
LEMMA AloneCovered ==
  ASSUME IInv, Covered, [Next]_vars, NEW t \in Tasks, NEW from, Alone(t, from),
         buffering => (buffering' /\ pending' = pending) \/ disposed',
         at[t] \in Carrying => Covered'
  PROVE  Covered'
<1>1. Carries(t) => Covered'
  BY SMT DEF Carries, Carrying
<1> QED
  BY <1>1, CoveredKept, Zenon DEF Alone

\* A request is covered by what it was asked for.
LEMMA RequestCovered ==
  ASSUME IInv, Covered, handled <= server, [Next]_vars, NEW t \in Tasks, RequestStep(t)
  PROVE  Covered'
<1>0. /\ book \in Nat /\ asked \in Nat /\ handled \in Nat /\ book' \in Nat /\ asked' \in Nat
      /\ book <= book' /\ asked <= asked' /\ TasksOK /\ buffering \in BOOLEAN
  BY Grows DEF IInv, TypeOK, FlagsOK
<1>1. CASE ReqMark(t)
  <2>1. /\ at[t] = "request" /\ UNCHANGED <<gate, buffering, pending, disposed, asked, handled>>
        /\ disposed \/ Move(t, "reqBump")
    BY <1>1, Zenon DEF ReqMark, At, bufferVars, endVars, historyVars
  <2>2. CASE Carries(t) /\ ~disposed
    <3>1. (t = Run \/ gate = t) /\ at'[t] = "reqBump"
      BY <1>0, <2>1, <2>2, MoveAt, SMT DEF Carries
    <3> QED
      BY <2>1, <3>1, Zenon DEF Covered, Carries
  <2>3. CASE ~Carries(t) \/ disposed
    BY <1>1, <2>1, <2>3, RequestAlone, CoveredKept, Zenon DEF Alone, Covered
  <2> QED
    BY <2>2, <2>3
<1>2. CASE ReqBump(t)
  <2>1. /\ at[t] = "reqBump" /\ UNCHANGED <<gate, buffering, pending, disposed, handled>>
        /\ asked' = server /\ Move(t, "reqBuffer")
    BY <1>2, Zenon DEF ReqBump, At, bufferVars, endVars
  <2>2. CASE Carries(t)
    <3>1. (t = Run \/ gate = t) /\ at'[t] = "reqBuffer"
      BY <1>0, <2>1, <2>2, MoveAt, SMT DEF Carries
    <3>2. Carries(t)'
      BY <2>1, <3>1, SMT DEF Carries
    <3> QED
      BY <3>2, Zenon DEF Covered
  <2>3. CASE ~Carries(t)
    BY <1>2, <2>1, <2>3, RequestAlone, CoveredKept, Zenon DEF Alone
  <2> QED
    BY <2>2, <2>3
<1>3. CASE ReqBuffer(t)
  <2>1. /\ at[t] = "reqBuffer" /\ UNCHANGED <<gate, disposed, handled, asked>>
        /\ buffering' = TRUE /\ (buffering => pending' = pending)
    BY <1>3, SMT DEF ReqBuffer, At, BeginBuffering, endVars, historyVars
  <2>2. CASE Carries(t)
    <3>1. handled <= asked
      BY <2>1, <2>2, SMT DEF Carries
    <3> QED
      BY <2>1, <3>1, Zenon DEF Covered
  <2>3. CASE ~Carries(t)
    BY <1>3, <2>1, <2>3, RequestAlone, CoveredKept, Zenon DEF Alone
  <2> QED
    BY <2>2, <2>3
<1>4. CASE ReqSpawn(t)
  <2>1. /\ at[t] = "reqSpawn" /\ UNCHANGED <<gate, buffering, pending, disposed, handled, batch>>
    BY <1>4, Zenon DEF ReqSpawn, At, bufferVars, endVars, historyVars, Move, localVars
  <2>2. \A s \in Tasks : s # t => at[s] = "idle" \/ at'[s] = at[s]
    <3>1. CASE Move(t, Resume(t))
      BY <1>0, <3>1, MoveAt, Zenon
    <3>2. CASE ~Move(t, Resume(t))
      <4>1. PICK w \in Workers : at[w] = "idle" /\ at' = [at EXCEPT ![t] = Resume(t), ![w] = "round"]
        BY <1>4, <3>2, Zenon DEF ReqSpawn, At
      <4> QED
        BY <1>0, <4>1, SMT DEF TasksOK
    <3> QED
      BY <3>1, <3>2
  <2>3. ~Carries(t)
    BY <2>1, SMT DEF Carries
  <2> QED
    BY <2>1, <2>2, <2>3, CoveredKept, Zenon
<1> QED
  BY <1>1, <1>2, <1>3, <1>4 DEF RequestStep

\* Deltas that reach the last publication take the book or the rest there.
LEMMA HeadOrTail ==
  ASSUME NEW q \in Seq(Nat), q # <<>>, NEW n \in Nat, \E i \in DOMAIN q : q[i] >= n
  PROVE  Head(q) >= n \/ \E i \in DOMAIN Tail(q) : Tail(q)[i] >= n
<1>1. PICK i \in DOMAIN q : q[i] >= n
  OBVIOUS
<1>2. CASE i = 1
  BY <1>1, <1>2, SMT
<1>3. CASE i # 1
  <2>1. i - 1 \in DOMAIN Tail(q) /\ Tail(q)[i - 1] = q[i]
    BY <1>1, <1>3, SMT
  <2> QED
    BY <1>1, <2>1
<1> QED
  BY <1>2, <1>3

\* Applying deltas, or meeting a gap among them.
LEMMA ApplyCovered ==
  ASSUME IInv, Covered, [Next]_vars, NEW t \in Tasks,
         ApplyDelta(t) \/ ApplyOverflows(t) \/ ApplyPanics(t)
  PROVE  Covered'
<1>0. /\ book \in Nat /\ handled \in Nat /\ TasksOK /\ batch[t] \in Seq(Nat)
  BY Grows DEF IInv, TypeOK, TasksOK
<1>1. /\ at[t] = "apply" /\ UNCHANGED <<gate, buffering, pending, disposed, handled>>
  BY Zenon DEF ApplyDelta, ApplyOverflows, ApplyPanics, At, bufferVars, endVars, historyVars
<1>2. Alone(t, Refreshing \cup {"gate", "apply"}) \/ Alone(t, {"fetch", "install", "apply"})
  BY RefreshAlone, FaultAlone DEF RefreshStep, TaskFault
<1>3. CASE ~Carries(t)
  BY <1>1, <1>2, <1>3, CoveredKept, Zenon DEF Alone
<1>4. CASE Carries(t)
  <2>1. Reaches(batch[t]) /\ (t = Run \/ gate = t)
    BY <1>1, <1>4, SMT DEF Carries, IInv, Consistent, TaskOK, PlaceOK
  <2>2. CASE at'[t] = "fail"
    BY <2>2, Zenon DEF Covered, Carries
  <2>3. CASE ApplyDelta(t)
    <3>1. batch[t] # <<>>
      BY <2>1, SMT DEF Reaches
    <3>2. CASE Gap(t)
      <4>1. at'[t] = "request"
        BY <1>0, <2>3, <3>1, <3>2, HoldAt, Zenon DEF ApplyDelta
      <4> QED
        BY <1>1, <2>1, <4>1, Zenon DEF Covered, Carries
    <3>3. CASE ~Gap(t)
      <4>1. Absorb(t) /\ at'[t] = "apply" /\ batch'[t] = Tail(batch[t])
        BY <1>0, <2>3, <3>1, <3>3, HoldAt, Zenon DEF ApplyDelta
      <4>2. CASE Head(batch[t]) >= handled
        <5>1. Head(batch[t]) \in Nat
          BY <1>0, <3>1, SMT
        <5>2. handled' <= book'
          BY <1>0, <1>1, <4>1, <4>2, <5>1, SMT DEF Absorb
        <5> QED
          BY <5>2, Zenon DEF Covered
      <4>3. CASE \E i \in DOMAIN Tail(batch[t]) : Tail(batch[t])[i] >= handled
        <5>1. Reaches(batch[t])'
          BY <1>1, <4>1, <4>3, Zenon DEF Reaches
        <5>2. Carries(t)'
          BY <4>1, <5>1, SMT DEF Carries
        <5> QED
          BY <5>2, Zenon DEF Covered
      <4> QED
        BY <1>0, <2>1, <3>1, <4>2, <4>3, HeadOrTail, Zenon DEF Reaches
    <3> QED
      BY <3>2, <3>3
  <2>4. CASE ApplyOverflows(t) \/ ApplyPanics(t)
    <3>1. \E c : Failing(t, FALSE, c)
      BY <2>4, Zenon DEF ApplyOverflows, ApplyPanics
    <3>2. at'[t] = "fail"
      BY <1>0, <3>1, FailingAt, Zenon
    <3> QED
      BY <2>2, <3>2
  <2> QED
    BY <2>3, <2>4
<1> QED
  BY <1>3, <1>4

\* What the snapshot does not have is in the buffer, which the refresh takes.
LEMMA RefreshCovered ==
  ASSUME IInv, Covered, [Next]_vars, NEW t \in Tasks, RefreshStep(t)
  PROVE  Covered'
<1> USE DEF bufferVars, endVars, historyVars
<1>0. /\ book \in Nat /\ asked \in Nat /\ handled \in Nat /\ TasksOK /\ TaskOK(t)
      /\ buffering \in BOOLEAN /\ snap[t] \in Nat
  BY Grows DEF IInv, TypeOK, TasksOK, FlagsOK, Consistent
<1>1. Alone(t, Refreshing \cup {"gate", "apply"})
  BY RefreshAlone
<1>2. CASE UNCHANGED <<buffering, pending>> /\ at[t] \notin Carrying
  BY <1>1, <1>2, AloneCovered
<1>labels. \A l \in {"gate", "begin", "fetch", "returnErr", "clearError", "buffer", "take", "drain"} : l \notin Carrying
  BY SMT DEF Carrying
<1>3. CASE AcquireGate(t) \/ BeginRefresh(t) \/ FetchAnswered(t) \/ FetchStopped(t)
        \/ ReturnErr(t) \/ ClearError(t)
  <2>1. UNCHANGED <<buffering, pending>>
    BY <1>3, Zenon DEF AcquireGate, BeginRefresh, FetchAnswered, FetchStopped, ReturnErr, ClearError
  <2>2. at[t] \in {"gate", "begin", "fetch", "returnErr", "clearError"}
    BY <1>3, Zenon DEF AcquireGate, BeginRefresh, FetchAnswered, FetchStopped, ReturnErr, ClearError, At
  <2>3. at[t] \notin Carrying
    BY <1>labels, <2>2, SMT
  <2> QED
    BY <1>2, <2>1, <2>3
<1>4. CASE Buffer(t)
  <2>1. at[t] \notin Carrying /\ (buffering => buffering' /\ pending' = pending)
    BY <1>4, <1>labels, SMT DEF Buffer, At, BeginBuffering
  <2> QED
    BY <1>1, <2>1, AloneCovered, Zenon
<1>5. CASE TakeBuffered(t)
  <2>1. at[t] \notin Carrying /\ UNCHANGED <<buffering, book, asked, disposed, handled>>
    BY <1>5, <1>labels, Zenon DEF TakeBuffered, At
  <2>2. CASE pending' = pending
    BY <1>2, <2>1, <2>2
  <2>3. CASE Hold(t, pending, "install")
    <3>1. at'[t] = "install" /\ batch'[t] = pending
      BY <1>0, <2>3, HoldAt, Zenon
    <3>2. CASE Reaches(pending)
      <4>1. Reaches(batch[t])'
        BY <2>1, <3>1, <3>2, Zenon DEF Reaches
      <4>2. Carries(t)'
        BY <3>1, <4>1, SMT DEF Carries
      <4> QED
        BY <4>2, Zenon DEF Covered
    <3>3. CASE ~Reaches(pending)
      <4>1. CASE disposed \/ handled <= book \/ (buffering /\ handled <= asked)
        BY <2>1, <4>1, Zenon DEF Covered
      <4>2. CASE \E s \in Tasks : Carries(s)
        <5>1. PICK s \in Tasks : Carries(s)
          BY <4>2
        <5>2. s # t
          BY <2>1, <5>1, SMT DEF Carries, Carrying
        <5>3. Carries(s)'
          BY <1>1, <5>1, <5>2, OthersCarry, Zenon DEF Alone
        <5> QED
          BY <5>3, Zenon DEF Covered
      <4> QED
        BY <3>3, <4>1, <4>2, Zenon DEF Covered
    <3> QED
      BY <3>2, <3>3
  <2> QED
    BY <1>5, <2>2, <2>3, Zenon DEF TakeBuffered
<1>6. CASE InstallSnapshot(t)
  <2>1. at[t] = "install" /\ UNCHANGED <<buffering, pending, handled>> /\ Move(t, "apply")
    BY <1>6, Zenon DEF InstallSnapshot, At
  <2>2. CASE Carries(t)
    <3>1. Reaches(batch[t]) /\ at'[t] = "apply" /\ batch'[t] = batch[t]
      BY <1>0, <2>1, <2>2, MoveAt, SMT DEF Carries
    <3>2. Reaches(batch[t])'
      BY <2>1, <3>1, Zenon DEF Reaches
    <3>3. Carries(t)'
      BY <3>1, <3>2, SMT DEF Carries
    <3> QED
      BY <3>3, Zenon DEF Covered
  <2>3. CASE ~Carries(t)
    BY <1>1, <2>1, <2>3, CoveredKept, Zenon DEF Alone
  <2> QED
    BY <2>2, <2>3
<1>7. CASE ApplyDelta(t)
  BY <1>7, ApplyCovered
<1>8. CASE DrainOrReady(t)
  <2>1. at[t] = "drain" /\ UNCHANGED <<book, asked, disposed, handled>>
    BY <1>8, Zenon DEF DrainOrReady, At
  <2>2. CASE UNCHANGED <<buffering, pending>>
    BY <1>2, <1>labels, <2>1, <2>2
  <2>3. CASE Current(t) /\ Drained
    <3>1. CASE buffering
      <4>1. gate = t
        BY <1>0, <2>1, Zenon DEF TaskOK, PlaceOK, Refreshing
      <4>2. asked <= book
        BY <1>0, <2>1, <2>3, <4>1, Zenon DEF TaskOK, AnswerOK
      <4>3. pending = <<>>
        BY <2>3, <3>1 DEF Drained
      <4>4. CASE disposed \/ handled <= book
        BY <2>1, <4>4, Zenon DEF Covered
      <4>5. CASE handled <= asked
        <5>1. handled <= book
          BY <1>0, <4>2, <4>5, SMT
        <5> QED
          BY <4>4, <5>1
      <4>6. ~Reaches(pending)
        BY <4>3, SMT DEF Reaches
      <4>7. CASE \E s \in Tasks : Carries(s)
        <5>1. PICK s \in Tasks : Carries(s)
          BY <4>7
        <5>2. s # t
          BY <2>1, <5>1, SMT DEF Carries
        <5>3. Carries(s)'
          BY <1>1, <5>1, <5>2, OthersCarry, Zenon DEF Alone
        <5> QED
          BY <5>3, Zenon DEF Covered
      <4> QED
        BY <4>4, <4>5, <4>6, <4>7, Zenon DEF Covered
    <3>2. CASE ~buffering
      <4>1. at[t] \notin Carrying
        BY <1>labels, <2>1
      <4> QED
        BY <1>1, <3>2, <4>1, AloneCovered
    <3> QED
      BY <3>1, <3>2
  <2>4. CASE Current(t) /\ ~Drained
    <3>1. Hold(t, pending, "apply") /\ buffering' = buffering
      BY <1>8, <2>4, Zenon DEF DrainOrReady
    <3>2. at'[t] = "apply" /\ batch'[t] = pending
      BY <1>0, <3>1, HoldAt, Zenon
    <3>3. CASE Reaches(pending)
      <4>1. Reaches(batch[t])'
        BY <2>1, <3>2, <3>3, Zenon DEF Reaches
      <4>2. Carries(t)'
        BY <3>2, <4>1, SMT DEF Carries
      <4> QED
        BY <4>2, Zenon DEF Covered
    <3>4. CASE ~Reaches(pending)
      <4>1. CASE disposed \/ handled <= book \/ (buffering /\ handled <= asked)
        BY <2>1, <3>1, <4>1, Zenon DEF Covered
      <4>2. CASE \E s \in Tasks : Carries(s)
        <5>1. PICK s \in Tasks : Carries(s)
          BY <4>2
        <5>2. s # t
          BY <2>1, <5>1, SMT DEF Carries
        <5>3. Carries(s)'
          BY <1>1, <5>1, <5>2, OthersCarry, Zenon DEF Alone
        <5> QED
          BY <5>3, Zenon DEF Covered
      <4> QED
        BY <3>4, <4>1, <4>2, Zenon DEF Covered
    <3> QED
      BY <3>3, <3>4
  <2> QED
    BY <1>8, <2>2, <2>3, <2>4, Zenon DEF DrainOrReady
<1> QED
  BY <1>3, <1>4, <1>5, <1>6, <1>7, <1>8 DEF RefreshStep

\* fail_closed gives up only what a disposed stream no longer promises.
LEMMA FailCovered ==
  ASSUME IInv, EndedOK, Covered, [Next]_vars, NEW t \in Tasks, FailStep(t)
  PROVE  Covered'
<1>0. TasksOK
  BY DEF IInv, TypeOK
<1>1. CASE FailUnready(t)
  <2>1. Move(t, "failDispose")
    BY <1>1, Zenon DEF FailUnready
  <2>2. at'[t] = "failDispose"
    BY <1>0, <2>1, MoveAt, Zenon
  <2> QED
    BY <2>2, Zenon DEF Covered, Carries
<1>2. CASE ~FailUnready(t)
  <2>1. disposed'
    <3>1. CASE FailDispose(t)
      BY <3>1, Zenon DEF FailDispose
    <3>2. CASE FailClear(t) \/ FailStop(t)
      <4>1. at[t] \in Ending
        BY <3>2, SMT DEF FailClear, FailStop, At, Ending
      <4>2. UNCHANGED disposed
        BY <3>2, Zenon DEF FailClear, FailStop
      <4> QED
        BY <4>1, <4>2, Zenon DEF EndedOK
    <3> QED
      BY <1>2, <3>1, <3>2 DEF FailStep
  <2> QED
    BY <2>1, Zenon DEF Covered
<1> QED
  BY <1>1, <1>2

\* A fault leaves the buffer, a gap's request or a failure.
LEMMA FaultCovered ==
  ASSUME IInv, Covered, [Next]_vars, NEW t \in Tasks, TaskFault(t)
  PROVE  Covered'
<1>0. TasksOK /\ TaskOK(t)
  BY DEF IInv, TypeOK, Consistent
<1>1. CASE FetchFails(t)
  <2>1. UNCHANGED <<buffering, pending>> /\ at[t] = "fetch" /\ "fetch" \notin Carrying
    BY <1>1, SMT DEF FetchFails, At, bufferVars, Carrying
  <2> QED
    BY <2>1, FaultAlone, AloneCovered, Zenon
<1>2. CASE InstallGarbled(t)
  <2>1. at[t] = "install" /\ gate' = gate /\ Hold(t, <<>>, "request")
    BY <1>2, Zenon DEF InstallGarbled, At
  <2>2. gate = t
    BY <1>0, <2>1, Zenon DEF TaskOK, PlaceOK, Refreshing
  <2>3. at'[t] = "request"
    BY <1>0, <2>1, HoldAt, Zenon
  <2> QED
    BY <2>1, <2>2, <2>3, Zenon DEF Covered, Carries
<1>3. CASE ApplyOverflows(t) \/ ApplyPanics(t)
  BY <1>3, ApplyCovered
<1> QED
  BY <1>1, <1>2, <1>3 DEF TaskFault

\* Run holds or buffers what it handles, or fails the stream.
LEMMA RunCovered ==
  ASSUME IInv, Covered, [Next]_vars, RunStep \/ ConnectFails
  PROVE  Covered'
<1>0. /\ TasksOK /\ Run \in Tasks /\ pending \in Seq(Nat) /\ queue \in Seq(Nat) /\ buffering \in BOOLEAN
  BY DEF IInv, TypeOK, DeltasOK, FlagsOK, Tasks
<1>1. CASE HandlePublication
  <2>1. queue # <<>> /\ Head(queue) \in Nat
    BY <1>0, <1>1, SMT DEF HandlePublication
  <2>2. CASE disposed
    BY <1>1, <2>2, HandlePublicationAt, Zenon DEF Covered
  <2>3. CASE ~disposed /\ buffering /\ HasRoom
    <3>1. handled' = Head(queue) /\ pending' = Append(pending, Head(queue)) /\ buffering'
      BY <1>1, <2>3, Zenon DEF HandlePublication
    <3>2. Len(pending) + 1 \in DOMAIN pending' /\ pending'[Len(pending) + 1] >= handled'
      BY <1>0, <2>1, <3>1, SMT
    <3> QED
      BY <3>1, <3>2, Zenon DEF Covered, Reaches
  <2>4. CASE ~disposed /\ buffering /\ ~HasRoom
    <3>1. Failing(Run, FALSE, "pump")
      BY <1>1, <2>4, Zenon DEF HandlePublication
    <3>2. at'[Run] = "fail"
      BY <1>0, <3>1, FailingAt, Zenon
    <3> QED
      BY <1>0, <3>2, Zenon DEF Covered, Carries
  <2>5. CASE ~disposed /\ ~buffering
    <3>1. handled' = Head(queue) /\ Hold(Run, <<Head(queue)>>, "live")
      BY <1>1, <2>5, Zenon DEF HandlePublication
    <3>2. at'[Run] = "live" /\ batch'[Run] = <<Head(queue)>>
      BY <1>0, <3>1, HoldAt, Zenon
    <3>3. 1 \in DOMAIN batch'[Run] /\ batch'[Run][1] >= handled'
      BY <2>1, <3>1, <3>2, SMT
    <3>4. Carries(Run)'
      BY <3>2, <3>3, Zenon DEF Carries, Reaches
    <3> QED
      BY <1>0, <3>4, Zenon DEF Covered
  <2> QED
    BY <1>0, <2>2, <2>3, <2>4, <2>5
<1>2. CASE ~HandlePublication
  <2>1. Alone(Run, {"connect", "connectPause", "connected", "pump", "live", "unready"})
    BY <1>2, RunAlone
  <2>2. UNCHANGED <<buffering, pending>>
    <3> USE DEF bufferVars
    <3>1. CASE Connect \/ ConnectFails \/ ConnectPause \/ Connected
      BY <3>1, Zenon DEF Connect, ConnectFails, ConnectPause, Connected
    <3>2. CASE ApplyLive \/ PumpLosesLink \/ PumpEnds \/ PumpStops \/ RunUnready
      BY <3>2, Zenon DEF ApplyLive, PumpLosesLink, PumpEnds, PumpStops, RunUnready
    <3> QED
      BY <1>2, <3>1, <3>2 DEF RunStep
  <2>3. CASE at[Run] # "live"
    <3>1. at[Run] \notin Carrying
      BY <2>1, <2>3, SMT DEF Alone, Carrying
    <3> QED
      BY <1>0, <2>1, <2>2, <3>1, AloneCovered
  <2>4. CASE at[Run] = "live"
    <3>1. ApplyLive
      BY <1>2, <2>4, SMT DEF RunStep, Connect, ConnectFails, ConnectPause, Connected, PumpLosesLink, PumpEnds, PumpStops, RunUnready, At
    <3>2. CASE disposed
      BY <2>1, <3>2, Zenon DEF Alone, Covered
    <3>3. CASE ~disposed
      <4>1. Move(Run, "apply") /\ handled' = handled
        BY <3>1, <3>3, Zenon DEF ApplyLive, historyVars
      <4>2. at'[Run] = "apply" /\ batch' = batch
        BY <1>0, <4>1, MoveAt, Zenon
      <4>3. Carries(Run) => Carries(Run)'
        BY <2>4, <4>1, <4>2, SMT DEF Carries, Reaches
      <4>4. Carries(Run) => Covered'
        BY <1>0, <4>3, Zenon DEF Covered
      <4> QED
        BY <1>0, <2>1, <2>2, <4>4, CoveredKept, Zenon DEF Alone
    <3> QED
      BY <3>2, <3>3
  <2> QED
    BY <2>3, <2>4
<1> QED
  BY <1>1, <1>2

\* Workers between rounds and callers carry nothing.
LEMMA OtherCovered ==
  ASSUME IInv, EndedOK, Covered, [Next]_vars,
         \/ \E w \in Workers : WorkerStep(w)
         \/ \E c \in Callers : CallerStep(c) \/ CallerCalls(c) \/ CallerCancels(c)
         \/ StartStep \/ StartTimesOut
  PROVE  Covered'
<1>0. TasksOK /\ Workers \subseteq Tasks /\ Callers \subseteq Tasks /\ Starter \in Callers
  BY TasksAssumption DEF IInv, TypeOK, Tasks
<1>1. ASSUME NEW w \in Workers, Round(w) \/ Check(w) \/ Pause(w) PROVE Covered'
  <2>1. Alone(w, {"round", "check", "checkErr", "pause"})
    BY <1>1, WorkerAlone
  <2>2. UNCHANGED <<buffering, pending>>
    BY <1>1, Zenon DEF Round, Check, Pause, bufferVars
  <2>3. at[w] \notin Carrying
    BY <2>1, SMT DEF Alone, Carrying
  <2> QED
    BY <1>0, <2>1, <2>2, <2>3, AloneCovered
<1>2. ASSUME NEW w \in Workers, Idling(w) \/ Handoff(w) PROVE Covered'
  <2>1. /\ at[w] \in {"idling", "handoff"}
        /\ UNCHANGED <<buffering, pending, handled, disposed, gate, batch>>
    BY <1>2, Zenon DEF Idling, Handoff, At, bufferVars, endVars, historyVars, Move, localVars
  <2>2. \E l : Goto(w, l)
    BY <1>2, Zenon DEF Idling, Handoff, Move
  <2>3. \A s \in Tasks : s # w => at'[s] = at[s]
    BY <1>0, <2>2, Zenon DEF Goto, TasksOK
  <2>4. ~Carries(w)
    BY <2>1, SMT DEF Carries
  <2> QED
    BY <1>0, <2>1, <2>3, <2>4, CoveredKept, Zenon
<1>3. ASSUME NEW c \in Callers, Alone(c, CallerFrom), UNCHANGED <<buffering, pending>> PROVE Covered'
  <2>1. at[c] \notin Carrying
    BY <1>3, SMT DEF Alone, CallerFrom, Carrying
  <2> QED
    BY <1>0, <1>3, <2>1, AloneCovered
<1>4. ASSUME NEW c \in Callers, CallerStep(c) \/ CallerCalls(c) \/ CallerCancels(c) PROVE Covered'
  <2>1. CASE CloseClear(c)
    <3>1. at[c] \in Ending /\ disposed' = disposed
      BY <2>1, SMT DEF CloseClear, At, Ending, endVars
    <3> QED
      BY <1>0, <3>1, Zenon DEF EndedOK, Covered
  <2>2. CASE ~CloseClear(c)
    <3>1. UNCHANGED <<buffering, pending>>
      BY <1>4, <2>2, Zenon DEF CallerStep, CloseDispose, CloseStop, CallerCalls, CallerCancels, bufferVars
    <3> QED
      BY <1>3, <1>4, <3>1, CallerAlone
  <2> QED
    BY <2>1, <2>2
<1>5. CASE StartStep \/ StartTimesOut
  <2>1. UNCHANGED <<buffering, pending>>
    BY <1>5, Zenon DEF StartStep, StartTimesOut, bufferVars
  <2> QED
    BY <1>0, <1>3, <1>5, <2>1, StartAlone
<1> QED
  BY <1>1, <1>2, <1>4, <1>5 DEF WorkerStep

\* Every publication handled is in the book or still on its way there.
LEMMA CoveredStep ==
  ASSUME IInv, EndedOK, handled <= server, Covered, [Next]_vars
  PROVE  Covered'
<1>1. ASSUME NEW t \in Tasks, TaskStep(t) \/ TaskFault(t) PROVE Covered'
  BY <1>1, RefreshCovered, RequestCovered, FailCovered, FaultCovered DEF TaskStep
<1>2. CASE Publish \/ LinkFails \/ UNCHANGED vars
  <2>1. UNCHANGED <<book, asked, handled, buffering, pending, disposed, gate, at, batch>>
    BY <1>2, Zenon DEF Publish, LinkFails, vars, bufferVars, endVars, historyVars, localVars
  <2>2. Run \in Tasks
    BY DEF Tasks
  <2>3. Carries(Run) => Carries(Run)'
    BY <2>1, SMT DEF Carries, Reaches
  <2>4. Carries(Run) => Covered'
    BY <2>2, <2>3, Zenon DEF Covered
  <2> QED
    BY <2>1, <2>2, <2>4, CoveredKept, Zenon
<1> QED
  BY <1>1, <1>2, RunCovered, OtherCovered DEF Next, Environment

\* What was handled was published.
LEMMA HandledStep ==
  ASSUME IInv, handled <= server, [Next]_vars, EndedOK
  PROVE  handled' <= server'
<1>0. handled \in Nat /\ server \in Nat /\ server' \in Nat /\ server <= server'
  BY Grows
<1>1. CASE handled' = handled
  BY <1>0, <1>1, SMT
<1>2. CASE HandlePublication
  <2>1. queue \in Seq(Nat) /\ Upto(queue, server) /\ queue # <<>>
    BY <1>2, Zenon DEF IInv, TypeOK, DeltasOK, Consistent, SharedOK, HandlePublication
  <2>2. Head(queue) \in Nat
    BY <2>1, SMT
  <2>3. Head(queue) <= server
    BY <1>0, <2>1, UptoHead
  <2>4. handled' = handled \/ handled' = Head(queue)
    BY <1>2, Zenon DEF HandlePublication
  <2> QED
    BY <1>0, <2>2, <2>3, <2>4, SMT
<1>3. CASE ~HandlePublication
  <2> SUFFICES handled' = handled
    BY <1>1
  <2>1. ASSUME NEW t, NEW from, Alone(t, from) PROVE handled' = handled
    BY <2>1, Zenon DEF Alone
  <2>2. ASSUME NEW t \in Tasks, TaskStep(t) \/ TaskFault(t) PROVE handled' = handled
    <3>1. CASE RefreshStep(t)
      BY <2>1, <3>1, RefreshAlone
    <3>2. CASE ReqMark(t) \/ ReqBump(t) \/ ReqBuffer(t)
      BY <2>1, <3>2, RequestAlone
    <3>3. CASE ReqSpawn(t)
      BY <3>3, Zenon DEF ReqSpawn, historyVars
    <3>4. CASE FailStep(t)
      BY <2>1, <3>4, FailAlone
    <3>5. CASE TaskFault(t)
      BY <2>1, <3>5, FaultAlone
    <3> QED
      BY <2>2, <3>1, <3>2, <3>3, <3>4, <3>5 DEF TaskStep, RequestStep
  <2>3. ASSUME NEW w \in Workers, WorkerStep(w) PROVE handled' = handled
    <3>1. CASE Idling(w) \/ Handoff(w)
      BY <3>1, Zenon DEF Idling, Handoff, historyVars
    <3>2. CASE Round(w) \/ Check(w) \/ Pause(w)
      BY <2>1, <3>2, WorkerAlone
    <3> QED
      BY <2>3, <3>1, <3>2 DEF WorkerStep
  <2>4. ASSUME NEW c \in Callers, CallerStep(c) \/ CallerCalls(c) \/ CallerCancels(c) PROVE handled' = handled
    BY <2>1, <2>4, CallerAlone
  <2>5. CASE StartStep \/ StartTimesOut
    BY <2>1, <2>5, StartAlone
  <2>6. CASE RunStep \/ ConnectFails
    BY <1>3, <2>1, <2>6, RunAlone
  <2>7. CASE Publish \/ LinkFails \/ UNCHANGED vars
    BY <2>7, Zenon DEF Publish, LinkFails, vars, historyVars
  <2> QED
    BY <2>2, <2>3, <2>4, <2>5, <2>6, <2>7 DEF Next, Environment
<1> QED
  BY <1>2, <1>3

\* ServingIsComplete holds of every behaviour: a stream that neither buffers nor
\* is disposed, with no batch half applied, has in its book everything the run
\* loop has handled.
THEOREM CompleteTheorem == Spec => []ServingIsComplete
<1> DEFINE I == IInv /\ EndedOK /\ handled <= server /\ Covered
<1>1. Init => I
  <2> SUFFICES ASSUME Init PROVE EndedOK /\ handled <= server /\ Covered
    BY IInvInit
  <2>1. \A t \in Tasks : at[t] \in {"connect", "starting", "idle"}
    BY SMT DEF Init
  <2>2. EndedOK
    BY <2>1, SMT DEF EndedOK, Ending
  <2> QED
    BY <2>2, SMT DEF Init, Covered
<1>2. I /\ [Next]_vars => I'
  BY IInvStep, EndedStep, HandledStep, CoveredStep
<1>3. I => ServingIsComplete
  <2> SUFFICES ASSUME I, ~buffering, ~disposed, \A t \in Tasks : ~MidApply(t) PROVE book >= handled
    BY DEF ServingIsComplete
  <2>1. \A t \in Tasks : ~Carries(t)
    BY SMT DEF MidApply, Carries
  <2>2. handled <= book
    BY <2>1, Zenon DEF Covered
  <2> QED
    BY <2>2, SMT DEF IInv, TypeOK, CountersOK
<1> QED
  BY <1>1, <1>2, <1>3, PTL DEF Spec
=============================================================================
