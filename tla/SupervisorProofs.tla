--------------------------- MODULE SupervisorProofs ---------------------------
(***************************************************************************)
(* Safety of Supervisor for every set of calls, processes and contents.    *)
(* SupInv is inductive.  Beside the checked invariants it says that an     *)
(* armed restart belongs to a process wait() has collected, so the slot of *)
(* the tracked process is never armed, and that a helper that is down has  *)
(* no manager state.                                                       *)
(***************************************************************************)
EXTENDS Supervisor, TLAPS

\* The four invariants with the two facts they rest on.
CoreInv == NoStrayCore /\ TrackedIsLive /\ NoRestartOfStopped /\ ArmedIsDone
SupInv  == SupTypeOK /\ CoreInv /\ DownIsEmpty

USE ThreadsAssumption DEF Threads

(***************************************************************************)
(* The operations of the manager, whoever calls them.  Each lemma fixes    *)
(* only the variables its operation leaves to the caller that matter to    *)
(* CoreInv.                                                                *)
(***************************************************************************)

\* start() keeps the invariant, from a handler (timer' = timer) or from the
\* delayed restart (timer' without its own slot): a slot it takes is nobody's.
LEMMA StartKeeps ==
  ASSUME CoreTypeOK, CoreInv, StartOK(timer') \/ StartError,
         timer' \subseteq timer, UNCHANGED held,
         helper = "down" => helper' = "down"
  PROVE  CoreTypeOK' /\ CoreInv'
<1>1. CASE UNCHANGED core
  BY <1>1 DEF CoreTypeOK, CoreInv, NoStrayCore, TrackedIsLive,
       NoRestartOfStopped, ArmedIsDone, core
<1>2. ASSUME NEW p \in Procs, Launch(p, timer')
      PROVE  CoreTypeOK' /\ CoreInv'
  <2> USE <1>2 DEF CoreTypeOK, Launch, Running, Free
  <2>1. NoStrayCore'
    BY DEF CoreInv, NoStrayCore
  <2>2. TrackedIsLive'
    BY DEF TrackedIsLive
  <2>3. NoRestartOfStopped' /\ ArmedIsDone'
    BY DEF CoreInv, NoRestartOfStopped, ArmedIsDone
  <2> QED
    BY <2>1, <2>2, <2>3 DEF CoreInv
<1> QED
  BY <1>1, <1>2 DEF StartOK, StartError

\* Every step of stop() keeps it: the process it takes away is in its own hand
\* until it has exited or been killed.
LEMMA StopKeeps ==
  ASSUME CoreTypeOK, CoreInv,
         NEW t \in Threads, StopGoesOn(t) \/ StopReturns(t),
         UNCHANGED timer, helper = "down" => helper' = "down"
  PROVE  CoreTypeOK' /\ CoreInv'
<1> USE DEF CoreTypeOK, CoreInv, NoStrayCore, TrackedIsLive,
      NoRestartOfStopped, ArmedIsDone
<1>1. CASE StopNothing(t)
  BY <1>1 DEF StopNothing
<1>2. CASE StopTake(t)
  BY <1>2 DEF StopTake
<1>3. CASE StopTerm(t)
  BY <1>3 DEF StopTerm
<1>4. CASE StopDone(t)
  BY <1>4 DEF StopDone
<1>5. CASE StopKill(t)
  BY <1>5 DEF StopKill
<1> QED
  BY <1>1, <1>2, <1>3, <1>4, <1>5 DEF StopGoesOn, StopReturns

\* A step that leaves the manager and the processes alone keeps it.
LEMMA OthersKeep ==
  ASSUME CoreTypeOK, CoreInv, UNCHANGED <<cmd, proc, sig, timer, held>>,
         helper = "down" => helper' = "down"
  PROVE  CoreTypeOK' /\ CoreInv'
  BY DEF CoreTypeOK, CoreInv, NoStrayCore, TrackedIsLive, NoRestartOfStopped,
       ArmedIsDone

(***************************************************************************)
(* The invariant is inductive.                                             *)
(***************************************************************************)

\* A helper that is down has no manager, so no invariant of its can fail.
LEMMA DownKeeps ==
  ASSUME cmd = Nil, timer = {}, helper = "down"
  PROVE  CoreInv
  BY DEF CoreInv, NoStrayCore, TrackedIsLive, NoRestartOfStopped, ArmedIsDone

LEMMA InitInv == SupInit => SupInv
<1> SUFFICES ASSUME SupInit PROVE SupInv
  OBVIOUS
<1> USE DEF SupInit
<1>1. SupTypeOK
  BY DEF SupTypeOK, CoreTypeOK, SupLabels
<1>2. CoreInv
  BY DownKeeps
<1>3. DownIsEmpty
  BY DEF DownIsEmpty
<1> QED
  BY <1>1, <1>2, <1>3 DEF SupInv

\* The part of it that is the manager's, whatever else its callers do.
ManagerInv == CoreTypeOK /\ CoreInv /\ DownIsEmpty

\* Steps of a process and of its wait() goroutine.
LEMMA ProcessKeeps ==
  ASSUME ManagerInv, NEW p \in Procs,
         CoreExits(p) \/ Wait(p) \/ RestartFires(p) \/ RestartCancelled(p)
  PROVE  ManagerInv' /\ UNCHANGED <<active, pc, helper, ctxDone>>
<1> USE DEF ManagerInv
<1> UNCHANGED <<active, pc, helper, ctxDone>>
  BY DEF CoreExits, Wait, RestartFires, RestartCancelled
<1>1. CASE CoreExits(p)
  <2> USE <1>1 DEF CoreExits
  <2>1. CoreTypeOK' /\ DownIsEmpty'
    BY DEF CoreTypeOK, DownIsEmpty
  <2>2. CoreInv'
    BY DEF CoreTypeOK, CoreInv, NoStrayCore, TrackedIsLive,
         NoRestartOfStopped, ArmedIsDone
  <2> QED
    BY <2>1, <2>2
<1>2. CASE Wait(p)
  <2> USE <1>2 DEF Wait, Unexpected, CoreTypeOK
  <2>1. CoreTypeOK' /\ DownIsEmpty'
    BY DEF DownIsEmpty
  <2>2. NoStrayCore'
    BY DEF CoreInv, NoStrayCore
  <2>3. TrackedIsLive'
    BY DEF CoreInv, TrackedIsLive
  <2>4. NoRestartOfStopped' /\ ArmedIsDone'
    BY DEF CoreInv, TrackedIsLive, NoRestartOfStopped, ArmedIsDone
  <2> QED
    BY <2>1, <2>2, <2>3, <2>4 DEF CoreInv
<1>3. CASE RestartFires(p)
  <2>1. StartOK(timer') \/ StartError
    BY <1>3 DEF RestartFires
  <2>2. timer' \subseteq timer /\ helper # "down"
    BY <1>3 DEF RestartFires, DownIsEmpty
  <2>3. UNCHANGED <<active, held, pc, helper, ctxDone>>
    BY <1>3 DEF RestartFires
  <2> QED
    BY <2>1, <2>2, <2>3, StartKeeps DEF DownIsEmpty
<1>4. CASE RestartCancelled(p)
  <2> USE <1>4 DEF RestartCancelled
  <2>1. CoreTypeOK' /\ DownIsEmpty'
    BY DEF CoreTypeOK, DownIsEmpty
  <2>2. CoreInv'
    BY DEF CoreInv, NoStrayCore, TrackedIsLive, NoRestartOfStopped, ArmedIsDone
  <2> QED
    BY <2>1, <2>2
<1> QED
  BY <1>1, <1>2, <1>3, <1>4

\* Steps of a handler of POST /v1/core/{action}.
LEMMA CallKeeps ==
  ASSUME ManagerInv, NEW c \in Calls, Request(c) \/ ActionStart(c) \/ ActionStop(c)
  PROVE  /\ ManagerInv' /\ UNCHANGED <<active, helper, ctxDone>>
         /\ \/ UNCHANGED pc
            \/ \E label \in SupLabels : pc' = [pc EXCEPT ![c] = label]
<1> USE DEF ManagerInv
<1> c \in Threads
  OBVIOUS
<1>1. helper # "down" /\ UNCHANGED <<active, timer, helper, ctxDone>>
  BY DEF Request, Accepting, ActionStart, ActionStop, DownIsEmpty
<1>2. UNCHANGED pc \/ \E label \in SupLabels : pc' = [pc EXCEPT ![c] = label]
  BY DEF Request, ActionStart, ActionStop, Goto, AfterStop, SupLabels
<1>3. CoreTypeOK' /\ CoreInv'
  <2>1. CASE Request(c)
    BY <2>1, <1>1, OthersKeep DEF Request
  <2>2. CASE ActionStart(c)
    <3>1. StartOK(timer') \/ StartError
      BY <2>2 DEF ActionStart
    <3>2. UNCHANGED held
      BY <2>2 DEF ActionStart
    <3> QED
      BY <3>1, <3>2, <1>1, StartKeeps
  <2>3. CASE ActionStop(c)
    <3>1. StopGoesOn(c) \/ StopReturns(c)
      BY <2>3 DEF ActionStop
    <3> QED
      BY <3>1, <1>1, StopKeeps
  <2> QED
    BY <2>1, <2>2, <2>3
<1> QED
  BY <1>1, <1>2, <1>3 DEF DownIsEmpty

\* Steps of Run before it serves and of its shutdown goroutine.
LEMMA RunKeeps ==
  ASSUME ManagerInv,
         Boot \/ Restore \/ Cancel \/ CloseListener \/ Drain \/ ShutdownStop
  PROVE  /\ ManagerInv' /\ UNCHANGED active
         /\ helper' \in {helper, "restore", "serve"} /\ ctxDone' \in {ctxDone, TRUE}
         /\ \/ UNCHANGED pc
            \/ \E label \in SupLabels : pc' = [pc EXCEPT ![Shutdown] = label]
<1> USE DEF ManagerInv
<1>1. CASE Boot
  <2> USE <1>1 DEF Boot
  <2>1. CoreTypeOK' /\ DownIsEmpty'
    BY DEF CoreTypeOK, DownIsEmpty
  <2>2. CoreInv'
    BY DEF DownIsEmpty, CoreInv, NoStrayCore, TrackedIsLive,
         NoRestartOfStopped, ArmedIsDone
  <2> QED
    BY <2>1, <2>2
<1>2. CASE Restore
  <2>1. StartOK(timer') \/ StartError \/ UNCHANGED core
    BY <1>2 DEF Restore
  <2>2. UNCHANGED <<active, timer, held, pc, ctxDone>>
        /\ helper = "restore" /\ helper' = "serve"
    BY <1>2 DEF Restore
  <2>3. CASE UNCHANGED core
    BY <2>2, <2>3, OthersKeep DEF core, DownIsEmpty
  <2>4. CASE StartOK(timer') \/ StartError
    BY <2>2, <2>4, StartKeeps DEF DownIsEmpty
  <2> QED
    BY <2>1, <2>2, <2>3, <2>4
<1>3. CASE Cancel
  BY <1>3, OthersKeep DEF Cancel, DownIsEmpty
<1>4. CASE CloseListener \/ Drain
  <2>1. helper # "down" /\ UNCHANGED <<active, cmd, proc, sig, timer, held,
                                       helper, ctxDone>>
    BY <1>4 DEF CloseListener, Drain, DownIsEmpty
  <2>2. \E label \in SupLabels : pc' = [pc EXCEPT ![Shutdown] = label]
    BY <1>4 DEF CloseListener, Drain, Goto, SupLabels
  <2> QED
    BY <2>1, <2>2, OthersKeep DEF DownIsEmpty
<1>5. CASE ShutdownStop
  <2>1. helper # "down" /\ UNCHANGED <<active, timer, helper, ctxDone>>
    BY <1>5 DEF ShutdownStop, DownIsEmpty
  <2>2. UNCHANGED pc \/ \E label \in SupLabels : pc' = [pc EXCEPT ![Shutdown] = label]
    BY <1>5 DEF ShutdownStop, Goto, SupLabels
  <2>3. StopGoesOn(Shutdown) \/ StopReturns(Shutdown)
    BY <1>5 DEF ShutdownStop
  <2> QED
    BY <2>1, <2>2, <2>3, StopKeeps DEF DownIsEmpty
<1> QED
  BY <1>1, <1>2, <1>3, <1>4, <1>5

\* The helper ends or crashes.
LEMMA GoneKeeps == ASSUME ManagerInv, HelperGone PROVE ManagerInv'
<1> USE DEF ManagerInv, HelperGone
<1>1. CoreTypeOK'
  BY DEF CoreTypeOK
<1>2. CoreInv'
  BY DEF CoreInv, NoStrayCore, TrackedIsLive, NoRestartOfStopped, ArmedIsDone
<1>3. DownIsEmpty'
  BY DEF DownIsEmpty
<1> QED
  BY <1>1, <1>2, <1>3

LEMMA StepInv == SupInv /\ [SupNext]_supVars => SupInv'
<1> SUFFICES ASSUME SupInv, [SupNext]_supVars PROVE SupInv'
  OBVIOUS
<1> USE DEF SupInv, SupTypeOK
<1> ManagerInv
  BY DEF ManagerInv
<1>1. CASE UNCHANGED supVars
  BY <1>1, OthersKeep DEF supVars, DownIsEmpty
<1>2. ASSUME NEW p \in Procs,
             CoreExits(p) \/ Wait(p) \/ RestartFires(p) \/ RestartCancelled(p)
      PROVE  SupInv'
  BY <1>2, ProcessKeeps DEF ManagerInv
<1>3. ASSUME NEW c \in Calls, Request(c) \/ ActionStart(c) \/ ActionStop(c)
      PROVE  SupInv'
  BY <1>3, CallKeeps DEF ManagerInv
<1>4. CASE Boot \/ Restore \/ Cancel \/ CloseListener \/ Drain \/ ShutdownStop
  BY <1>4, RunKeeps DEF ManagerInv
<1>5. CASE HelperGone
  BY <1>5, GoneKeeps DEF ManagerInv, HelperGone, SupLabels
<1> QED
  BY <1>1, <1>2, <1>3, <1>4, <1>5 DEF SupNext, HelperExits, HelperCrashes

LEMMA InvHolds == SupSpec => []SupInv
  BY InitInv, StepInv, PTL DEF SupSpec

(***************************************************************************)
(* The supervisor implements CoreService.                                  *)
(***************************************************************************)

ServiceStep == [Service!SvcNext]_(Service!svcVars)

Leaving == IF helper = "down" THEN {} ELSE Uncollected \ {cmd}

\* A launch appoints its process: the slot is neither current nor leaving.
LEMMA StartServes ==
  ASSUME CoreTypeOK, StartOK(timer') \/ StartError,
         helper # "down", helper' # "down"
  PROVE  ServiceStep
<1> USE DEF ServiceStep, Service!SvcNext, Service!svcVars, CoreTypeOK
<1>1. CASE UNCHANGED core
  BY <1>1 DEF core, Uncollected
<1>2. ASSUME NEW p \in Procs, Launch(p, timer') PROVE ServiceStep
  <2>1. cmd = Nil /\ cmd' = p /\ p \notin Leaving
    BY <1>2 DEF Launch, Running, Free, Leaving, Uncollected
  <2>2. Uncollected' = Uncollected \cup {p} /\ p \notin Uncollected
    BY <1>2 DEF Launch, Free, Uncollected
  <2>3. Leaving' = Leaving
    BY <2>1, <2>2 DEF Leaving, Uncollected
  <2>4. Service!Appoint(p)
    BY <2>1, <2>3 DEF Service!Appoint, Leaving
  <2> QED
    BY <2>4
<1> QED
  BY <1>1, <1>2 DEF StartOK, StartError

\* What stop() takes away is dismissed; the rest of stop() is not seen.
LEMMA StopServes ==
  ASSUME CoreTypeOK, TrackedIsLive,
         NEW t \in Threads, StopGoesOn(t) \/ StopReturns(t),
         helper # "down", helper' # "down"
  PROVE  ServiceStep
<1> USE DEF ServiceStep, Service!SvcNext, Service!svcVars, CoreTypeOK
<1>1. CASE StopTake(t)
  <2>1. cmd \in Uncollected /\ cmd # Nil /\ cmd' = Nil
          /\ Uncollected' = Uncollected
    BY <1>1 DEF StopTake, TrackedIsLive, Uncollected
  <2>2. Leaving' = Leaving \cup {cmd}
    BY <2>1 DEF Leaving, Uncollected
  <2>3. Service!Dismiss
    BY <2>1, <2>2 DEF Service!Dismiss, Leaving
  <2> QED
    BY <2>3
<1>2. CASE StopNothing(t) \/ StopTerm(t) \/ StopDone(t) \/ StopKill(t)
  BY <1>2 DEF StopNothing, StopTerm, StopDone, StopKill, Uncollected
<1> QED
  BY <1>1, <1>2 DEF StopGoesOn, StopReturns

\* A step that leaves the manager and the processes alone is not seen.
LEMMA OthersServe ==
  ASSUME UNCHANGED <<cmd, proc>>,
         (helper = "down") <=> (helper' = "down")
  PROVE  ServiceStep
  BY DEF ServiceStep, Service!svcVars, Uncollected

\* wait() and the delayed restart: what has exited is lost or gone.
LEMMA ProcessServes ==
  ASSUME ManagerInv, NEW p \in Procs,
         CoreExits(p) \/ Wait(p) \/ RestartFires(p) \/ RestartCancelled(p)
  PROVE  ServiceStep
<1> USE DEF ManagerInv, CoreTypeOK
<1>1. CASE CoreExits(p)
  <2>1. Uncollected' = Uncollected /\ UNCHANGED <<cmd, helper>>
    BY <1>1 DEF CoreExits, Uncollected
  <2> QED
    BY <2>1 DEF ServiceStep, Service!svcVars
<1>2. CASE Wait(p)
  <2>1. p \in Uncollected /\ Uncollected' = Uncollected \ {p}
          /\ helper # "down" /\ helper' # "down"
    BY <1>2 DEF Wait, Uncollected
  <2>2. CASE cmd = p
    <3>1. cmd' = Nil /\ cmd # Nil
      BY <1>2, <2>2 DEF Wait, Unexpected
    <3>2. Leaving' = Leaving
      BY <2>1, <2>2, <3>1 DEF Leaving, Uncollected
    <3>3. Service!Lose
      BY <3>1, <3>2 DEF Service!Lose, Leaving
    <3> QED
      BY <3>3 DEF ServiceStep, Service!SvcNext
  <2>3. CASE cmd # p
    <3>1. cmd' = cmd
      BY <1>2, <2>3 DEF Wait, Unexpected
    <3>2. p \in Leaving /\ Leaving' = Leaving \ {p}
      BY <2>1, <2>3, <3>1 DEF Leaving
    <3>3. Service!Gone(p)
      BY <3>1, <3>2 DEF Service!Gone, Leaving
    <3> QED
      BY <3>3 DEF ServiceStep, Service!SvcNext
  <2> QED
    BY <2>2, <2>3
<1>3. CASE RestartFires(p)
  <2>1. StartOK(timer') \/ StartError
    BY <1>3 DEF RestartFires
  <2>2. helper # "down" /\ helper' # "down"
    BY <1>3 DEF RestartFires, DownIsEmpty
  <2> QED
    BY <2>1, <2>2, StartServes
<1>4. CASE RestartCancelled(p)
  BY <1>4, OthersServe DEF RestartCancelled
<1> QED
  BY <1>1, <1>2, <1>3, <1>4

\* A handler of POST /v1/core/{action}.
LEMMA CallServes ==
  ASSUME ManagerInv, NEW c \in Calls, Request(c) \/ ActionStart(c) \/ ActionStop(c)
  PROVE  ServiceStep
<1> USE DEF ManagerInv, CoreInv
<1> c \in Threads
  OBVIOUS
<1>1. helper # "down" /\ helper' = helper
  BY DEF Request, Accepting, ActionStart, ActionStop, DownIsEmpty
<1>2. CASE Request(c)
  BY <1>2, OthersServe DEF Request
<1>3. CASE ActionStart(c)
  BY <1>1, <1>3, StartServes DEF ActionStart
<1>4. CASE ActionStop(c)
  <2>1. StopGoesOn(c) \/ StopReturns(c)
    BY <1>4 DEF ActionStop
  <2> QED
    BY <2>1, <1>1, StopServes
<1> QED
  BY <1>2, <1>3, <1>4

\* Run, its shutdown goroutine, and the end of the helper.
LEMMA RunServes ==
  ASSUME ManagerInv,
         \/ Boot \/ Restore \/ Cancel \/ CloseListener \/ Drain \/ ShutdownStop
         \/ HelperGone
  PROVE  ServiceStep
<1> USE DEF ManagerInv, CoreInv
<1>1. CASE Boot
  <2>1. Leaving = {} /\ Leaving' = {} /\ cmd' = cmd
    BY <1>1 DEF Boot, Leaving, Uncollected
  <2> QED
    BY <2>1 DEF ServiceStep, Service!svcVars, Leaving
<1>2. CASE Restore
  <2>1. helper # "down" /\ helper' # "down"
    BY <1>2 DEF Restore
  <2>2. CASE UNCHANGED core
    BY <2>1, <2>2, OthersServe DEF core
  <2>3. CASE StartOK(timer') \/ StartError
    BY <2>1, <2>3, StartServes
  <2> QED
    BY <1>2, <2>2, <2>3 DEF Restore
<1>3. CASE Cancel \/ CloseListener \/ Drain
  BY <1>3, OthersServe DEF Cancel, CloseListener, Drain
<1>4. CASE ShutdownStop
  <2>1. helper # "down" /\ helper' # "down"
    BY <1>4 DEF ShutdownStop, DownIsEmpty
  <2>2. StopGoesOn(Shutdown) \/ StopReturns(Shutdown)
    BY <1>4 DEF ShutdownStop
  <2> QED
    BY <2>1, <2>2, StopServes
<1>5. CASE HelperGone
  <2>1. Leaving' = {} /\ cmd' = Nil
    BY <1>5 DEF HelperGone, Leaving
  <2>2. Service!End
    BY <2>1 DEF Service!End, Leaving
  <2> QED
    BY <2>2 DEF ServiceStep, Service!SvcNext
<1> QED
  BY <1>1, <1>2, <1>3, <1>4, <1>5

LEMMA StepServes == SupInv /\ [SupNext]_supVars => ServiceStep
<1> SUFFICES ASSUME SupInv, [SupNext]_supVars PROVE ServiceStep
  OBVIOUS
<1> ManagerInv
  BY DEF SupInv, SupTypeOK, ManagerInv
<1>1. CASE UNCHANGED supVars
  BY <1>1, OthersServe DEF supVars
<1>2. CASE SupNext
  BY <1>2, ProcessServes, CallServes, RunServes
     DEF SupNext, HelperExits, HelperCrashes
<1> QED
  BY <1>1, <1>2

(***************************************************************************)
(* The theorems.                                                           *)
(***************************************************************************)

\* The manager's fields, the processes and the goroutines keep their types.
THEOREM TypeCorrect == SupSpec => []SupTypeOK
  BY InvHolds, PTL DEF SupInv

\* However start(), stop(), wait() and the delayed restart interleave, a live
\* core is tracked, in the hand of a stop(), or has been sent SIGKILL.
THEOREM NoCoreEscapes == SupSpec => []NoStrayCore
  BY InvHolds, PTL DEF SupInv, CoreInv

\* The process status calls running is uncollected and unsignalled.
THEOREM StatusIsHonest == SupSpec => []TrackedIsLive
  BY InvHolds, PTL DEF SupInv, CoreInv

\* A restart is never armed by the exit of a process stop() took or signalled.
THEOREM StopArmsNothing == SupSpec => []NoRestartOfStopped
  BY InvHolds, PTL DEF SupInv, CoreInv

\* Every step of start(), stop(), wait(), of the delayed restart and of Run is a
\* step of CoreService or none.
THEOREM ServiceImplemented == SupSpec => Service!SvcSpec
<1>1. SupInit => Service!SvcInit
  BY DEF SupInit, Service!SvcInit
<1> QED
  BY <1>1, InvHolds, StepServes, PTL
     DEF SupSpec, Service!SvcSpec, ServiceStep
===============================================================================
