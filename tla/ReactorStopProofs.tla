------------------------- MODULE ReactorStopProofs --------------------------
(***************************************************************************)
(* call_or_stopped runs its function only while no owner thread exists.    *)
(***************************************************************************)
EXTENDS ReactorTypeProofs

USE CapacityAssumption, SequenceLimitAssumption, CompletionCapacityAssumption,
    BatchAssumption, BoundAssumption

USE DEF cqVars, compVars, lifeVars, threadVars, ownerVars

LockLife == LockInv /\ LifeInv

\* No thread is both a caller and a sender, and the named parties are
\* distinct from every thread and from each other.
LEMMA Distinct ==
  /\ \A c \in Callers : c \notin Senders /\ c \notin Workers
  /\ \A t \in Threads : t # Controller /\ t # Owner /\ t # NoThread
  /\ Controller # Owner /\ Controller # NoThread /\ Owner # NoThread
  /\ Callers \subseteq Threads /\ Senders \subseteq Threads
  /\ Workers \subseteq Threads /\ \A w \in Workers : w \notin Senders
BY ThreadsAssumption DEF Threads

\* A caller's step preserves who holds ctl_lock and the lifecycle flags.
LEMMA LockLifeCaller ==
  ASSUME TypeOK, LockLife, NEW c \in Callers, CallerNext(c)
  PROVE  LockLife'
<1> USE Distinct DEF TypeOK, ThreadType
<1>1. CASE CallStopped(c)
  BY <1>1, ZenonT(30) DEF CallStopped, Begin, Goto, CtlFree, LockLife, LockInv, LifeInv
<1>2. CASE CallStoppedReturn(c)
  BY <1>2, ZenonT(30) DEF CallStoppedReturn, Goto, LockLife, LockInv, LifeInv
<1>3. CASE CallerNext(c) /\ ~CallStopped(c) /\ ~CallStoppedReturn(c)
  <2>1. /\ UNCHANGED <<ctl_lock, started, accepting, stop_submitted, control,
                       owner>>
        /\ pc'[c] = "direct" => pc[c] = "direct"
        /\ \A t \in Threads : t # c => pc'[t] = pc[t]
    BY <1>3, ZenonT(30) DEF CallerNext, CallAdmit, CallSleep, CallRefused, CallEnqueue,
       CallSignal, CallReturn, CallSpuriousWake, Begin, Goto
  <2> QED BY <2>1, ZenonT(30) DEF LockLife, LockInv, LifeInv
<1> QED BY <1>1, <1>2, <1>3

\* So does a sender's step.
LEMMA LockLifeSender ==
  ASSUME TypeOK, LockLife, NEW s \in Senders, SenderNext(s)
  PROVE  LockLife'
<1> USE Distinct DEF TypeOK, ThreadType
<1>1. CASE SendRefused(s)
  BY <1>1, ZenonT(30) DEF SendRefused, LockLife, LockInv, LifeInv
<1>2. CASE SendPush(s)
  BY <1>2, ZenonT(30) DEF SendPush, Begin, Goto, CtlFree, LockLife, LockInv, LifeInv
<1>3. CASE SendSignal(s)
  BY <1>3, ZenonT(30) DEF SendSignal, Goto, LockLife, LockInv, LifeInv
<1> QED BY <1>1, <1>2, <1>3 DEF SenderNext

\* So does a worker's step, which never takes ctl_lock.
LEMMA LockLifeWorker ==
  ASSUME TypeOK, LockLife, NEW w \in Workers, WorkerNext(w)
  PROVE  LockLife'
<1>1. /\ UNCHANGED <<ctl_lock, started, accepting, stop_submitted, control,
                     owner>>
      /\ \A t \in Threads : t # w => pc'[t] = pc[t]
  BY ZenonT(30) DEF WorkerNext, CompleteSample, CompleteGate, CompleteSleep,
     CompleteRefused, CompleteEnqueue, CompleteSignal, CompleteSpuriousWake,
     Begin, Goto, TypeOK, ThreadType
<1> QED BY <1>1, Distinct, ZenonT(30) DEF LockLife, LockInv, LifeInv

\* So do start() and stop(), which hold ctl_lock over several steps.
LEMMA LockLifeController ==
  ASSUME TypeOK, LockLife, ControllerNext
  PROVE  LockLife'
<1> USE Distinct DEF LockLife, LockInv, LifeInv, TypeOK, ThreadType
<1>1. CASE Start
  BY <1>1, ZenonT(30) DEF Start, CtlFree
<1>2. CASE StartPublish
  <2>1. LockInv'
    BY <1>2, ZenonT(30) DEF StartPublish
  <2>2. LifeInv'
    BY <1>2, ZenonT(30) DEF StartPublish
  <2> QED BY <2>1, <2>2, ZenonT(30)
<1>3. CASE StopGate
  BY <1>3, ZenonT(30) DEF StopGate, CtlFree
<1>4. CASE StopClose
  BY <1>4, ZenonT(30) DEF StopClose
<1>5. CASE StopForce
  BY <1>5, ZenonT(30) DEF StopForce
<1>6. CASE StopSignal
  BY <1>6, ZenonT(30) DEF StopSignal
<1>7. CASE StopSubmitted
  <2>1. LockInv'
    BY <1>7, ZenonT(30) DEF StopSubmitted
  <2>2. LifeInv'
    BY <1>7, ZenonT(30) DEF StopSubmitted
  <2> QED BY <2>1, <2>2, ZenonT(30)
<1>8. CASE Join
  BY <1>8, ZenonT(30) DEF Join
<1>9. CASE JoinFails
  BY <1>9, ZenonT(30) DEF JoinFails
<1>10. CASE StopDone
  BY <1>10, ZenonT(30) DEF StopDone, CtlFree
<1> QED BY <1>1, <1>2, <1>3, <1>4, <1>5, <1>6, <1>7, <1>8, <1>9, <1>10, ZenonT(30)
        DEF ControllerNext

\* So does the owner's step, fatal exit included.
LEMMA LockLifeOwner ==
  ASSUME TypeOK, LockLife, OwnerNext
  PROVE  LockLife'
<1> USE Distinct
<1>1. CASE OwnerBeginFatal
  BY <1>1, ZenonT(30) DEF OwnerBeginFatal, OwnerGoto, CtlFree, LockLife, LockInv, LifeInv
<1>2. CASE OwnerFatalClose
  BY <1>2, ZenonT(30) DEF OwnerFatalClose, OwnerGoto, LockLife, LockInv, LifeInv
<1>3. CASE OwnerNext /\ ~OwnerBeginFatal /\ ~OwnerFatalClose
  <2>1. /\ UNCHANGED <<ctl_lock, started, accepting, stop_submitted, control,
                       pc>>
        /\ owner # "none" /\ owner' \notin {"none", "fatal_close"}
    BY <1>3, Zenon DEF OwnerNext, OwnerStep, OwnerBoot, OwnerPopCommands,
       OwnerDispatch, OwnerNestedPush, OwnerDispatched, OwnerCompletions,
       OwnerPoll, OwnerDrainWake, OwnerWokenCompletions, OwnerAbort,
       OwnerDrain, OwnerCleanup, OwnerCallbackSends, OwnerPollInterrupted,
       OwnerPollFails, OwnerGoto
  <2> QED BY <2>1 DEF LockLife, LockInv, LifeInv
<1> QED BY <1>1, <1>2, <1>3

\* ctl_lock's holder and the lifecycle flags are consistent in every state.
LEMMA LockLifeInvariant == Spec => []LockLife
<1>1. Init => LockLife
  BY ZenonT(30) DEF Init, LockLife, LockInv, LifeInv, Threads
<1>2. TypeOK /\ LockLife /\ [Next]_vars => LockLife'
  <2>1. ASSUME LockLife, UNCHANGED vars PROVE LockLife'
    BY <2>1, ZenonT(30) DEF vars, LockLife, LockInv, LifeInv
  <2> QED BY ZenonT(30), <2>1, LockLifeCaller, LockLifeSender, LockLifeWorker,
             LockLifeController, LockLifeOwner DEF Next, Terminated
<1> QED BY <1>1, <1>2, TypeCorrect, PTL DEF Spec

\* tr_reactor_call_or_stopped never runs its function beside a live owner
\* thread, however start, stop, fatal exit and other callers interleave.
THEOREM StoppedCallSafe == Spec => []StoppedCallExcludesOwner
<1>1. LockLife => StoppedCallExcludesOwner
  BY Distinct DEF LockLife, LockInv, LifeInv, StoppedCallExcludesOwner
<1> QED BY <1>1, LockLifeInvariant, PTL
=============================================================================
