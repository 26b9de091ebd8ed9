------------------------------ MODULE Supervisor ------------------------------
(***************************************************************************)
(* The privileged helper as a supervisor of the mihomo core process        *)
(* (internal/helper/helper.go): manager.start, stop, wait with its delayed *)
(* restart, the POST /v1/core/{action} handler, and Run with its shutdown  *)
(* goroutine.                                                              *)
(*                                                                         *)
(* manager.mu makes start(), the first half of stop() and the second half  *)
(* of wait() single steps; everything between them interleaves.  m.done is *)
(* always set and cleared together with m.cmd and belongs to the process   *)
(* of m.cmd, so the channel is the "done" value of that process and needs  *)
(* no variable of its own.  m.started and m.lastExit are only reported.    *)
(***************************************************************************)
EXTENDS FiniteSets

CONSTANTS
  Calls,       \* goroutines that serve POST /v1/core/{action}
  Others,      \* goroutines of other handlers that also call start() and stop()
  Shutdown,    \* the goroutine Run leaves waiting on ctx.Done()
  Procs,       \* exec.Cmd values, each with its process; a slot is used again
               \* when no goroutine refers to it any more (a bound on how many
               \* processes exist at once)
  Configs,     \* what active.yaml can contain
  Nil,         \* a nil pointer, an absent file
  ExecMayFail  \* whether cmd.Start() may return an error

Threads == Calls \cup Others \cup {Shutdown}

ASSUME ThreadsAssumption ==
  /\ Nil \notin Procs \cup Configs
  /\ Calls \cap Others = {}
  /\ Shutdown \notin Calls \cup Others
  /\ ExecMayFail \in BOOLEAN

VARIABLES
  active,   \* active.yaml in the runtime directory, or Nil
  cmd,      \* m.cmd
  proc,     \* process and wait() goroutine: "none", "alive", "exited" (Wait has
            \* something to return), "done" (wait() has closed the done channel)
  sig,      \* the strongest signal stop() has sent: "none", "TERM", "KILL"
  timer,    \* processes whose exit has armed a one second delayed restart
  held,     \* the local cmd of a goroutine inside stop(), or Nil
  pc,       \* what a goroutine does next; "idle" when it serves nothing
  helper,   \* the helper process: "down", "restore" (Run before Serve), "serve"
  ctxDone   \* the signal context of main is cancelled

core    == <<cmd, proc, sig>>
supVars == <<active, cmd, proc, sig, timer, held, pc, helper, ctxDone>>

SupInit ==
  /\ active \in Configs \cup {Nil}
  /\ cmd = Nil
  /\ proc = [p \in Procs |-> "none"]
  /\ sig = [p \in Procs |-> "none"]
  /\ timer = {}
  /\ held = [t \in Threads |-> Nil]
  /\ pc = [t \in Threads |-> "idle"]
  /\ helper = "down"
  /\ ctxDone = FALSE

-------------------------------------------------------------------------------
(* manager.start(): one critical section.                                  *)

Running == cmd # Nil

\* A slot no goroutine refers to; armed is the set of timers that stay armed.
Free(p, armed) ==
  /\ proc[p] \in {"none", "done"}
  /\ p \notin armed
  /\ \A t \in Threads : held[t] # p

Launch(p, armed) ==
  /\ ~Running
  /\ active # Nil
  /\ Free(p, armed)
  /\ cmd' = p
  /\ proc' = [proc EXCEPT ![p] = "alive"]
  /\ sig' = [sig EXCEPT ![p] = "none"]

StartOK(armed) ==
  \/ Running /\ UNCHANGED core
  \/ \E p \in Procs : Launch(p, armed)

StartError ==
  /\ ~Running
  /\ active = Nil \/ ExecMayFail
  /\ UNCHANGED core

-------------------------------------------------------------------------------
(* manager.stop() run by goroutine t: it takes m.cmd away under the lock   *)
(* (StopTake), signals the process group outside it (StopTerm), and leaves *)
(* when the done channel is closed (StopDone) or, five seconds later, with *)
(* a Kill (StopKill).  With m.cmd already nil it returns at once.          *)

StopNothing(t) ==
  /\ held[t] = Nil
  /\ cmd = Nil
  /\ UNCHANGED <<cmd, proc, sig, held>>

StopTake(t) ==
  /\ held[t] = Nil
  /\ cmd # Nil
  /\ held' = [held EXCEPT ![t] = cmd]
  /\ cmd' = Nil
  /\ UNCHANGED <<proc, sig>>

StopTerm(t) ==
  /\ held[t] # Nil
  /\ sig[held[t]] = "none"
  /\ sig' = [sig EXCEPT ![held[t]] = "TERM"]
  /\ UNCHANGED <<cmd, proc, held>>

StopDone(t) ==
  /\ held[t] # Nil
  /\ sig[held[t]] = "TERM"
  /\ proc[held[t]] = "done"
  /\ held' = [held EXCEPT ![t] = Nil]
  /\ UNCHANGED <<cmd, proc, sig>>

\* Mutant of StopKill: the timeout gives up without killing the process.
StopGivesUp(t) ==
  /\ held[t] # Nil
  /\ sig[held[t]] = "TERM"
  /\ held' = [held EXCEPT ![t] = Nil]
  /\ UNCHANGED <<cmd, proc, sig>>

\* Mutant of StopKill: there is no timeout.
StopWaits(t) == FALSE /\ UNCHANGED <<cmd, proc, sig, held>>

StopKill(t) ==
  /\ held[t] # Nil
  /\ sig[held[t]] = "TERM"
  /\ sig' = [sig EXCEPT ![held[t]] = "KILL"]
  /\ held' = [held EXCEPT ![t] = Nil]
  /\ UNCHANGED <<cmd, proc>>

StopGoesOn(t)  == StopTake(t) \/ StopTerm(t)
StopReturns(t) == StopNothing(t) \/ StopDone(t) \/ StopKill(t)

-------------------------------------------------------------------------------
(* The core process and manager.wait().                                    *)

\* mihomo exits: on its own, on a signal, on a configuration it cannot load.
CoreExits(p) ==
  /\ proc[p] = "alive"
  /\ proc' = [proc EXCEPT ![p] = "exited"]
  /\ UNCHANGED <<active, cmd, sig, timer, held, pc, helper, ctxDone>>

\* Mutants of Unexpected: every exit is taken for one, or none is.
AnyExitIsUnexpected(p) == TRUE
NoExitIsUnexpected(p)  == FALSE

\* wait() acts only for the process the manager still tracks.
Unexpected(p) == cmd = p

\* Mutant of RestartWanted: the context test is inverted.
RestartWhenCancelled == ctxDone

RestartWanted == ~ctxDone

Wait(p) ==
  /\ helper # "down"
  /\ proc[p] = "exited"
  /\ proc' = [proc EXCEPT ![p] = "done"]
  /\ cmd' = IF Unexpected(p) THEN Nil ELSE cmd
  /\ timer' = IF Unexpected(p) /\ RestartWanted THEN timer \cup {p} ELSE timer
  /\ UNCHANGED <<active, sig, held, pc, helper, ctxDone>>

\* The delayed restart: after a second it calls start() and only logs an error.
\* A cancelled context ends it too, but when both are ready select may pick
\* either, so RestartFires does not test ctxDone.
RestartFires(p) ==
  /\ p \in timer
  /\ timer' = timer \ {p}
  /\ StartOK(timer \ {p}) \/ StartError
  /\ UNCHANGED <<active, held, pc, helper, ctxDone>>

RestartCancelled(p) ==
  /\ p \in timer
  /\ ctxDone
  /\ timer' = timer \ {p}
  /\ UNCHANGED <<active, cmd, proc, sig, held, pc, helper, ctxDone>>

-------------------------------------------------------------------------------
(* manager.action(): POST /v1/core/{start,stop,restart}.                   *)

Goto(t, label) == pc' = [pc EXCEPT ![t] = label]

\* http.Server.Shutdown lets requests in flight finish and takes no new one.
Accepting == helper = "serve" /\ pc[Shutdown] = "idle"

Request(c) ==
  /\ Accepting
  /\ pc[c] = "idle"
  /\ \E a \in {"start", "stop", "restart"} : Goto(c, a)
  /\ UNCHANGED <<active, cmd, proc, sig, timer, held, helper, ctxDone>>

ActionStart(c) ==
  /\ pc[c] = "start"
  /\ StartOK(timer) \/ StartError
  /\ Goto(c, "idle")
  /\ UNCHANGED <<active, timer, held, helper, ctxDone>>

\* Mutant of AfterStop: after a stop the handler falls through to its default.
AfterStopFallsThrough(t) == IF pc[t] = "restart" THEN "start" ELSE "default"

\* What the goroutine does when stop() has returned.
AfterStop(t) == IF pc[t] = "restart" THEN "start" ELSE "idle"

ActionStop(c) ==
  /\ pc[c] \in {"stop", "restart"}
  /\ \/ StopGoesOn(c) /\ UNCHANGED pc
     \/ StopReturns(c) /\ Goto(c, AfterStop(c))
  /\ UNCHANGED <<active, timer, helper, ctxDone>>

-------------------------------------------------------------------------------
(* Run() and the end of the helper.                                        *)

\* systemd has killed what was left in the unit's control group.
Boot ==
  /\ helper = "down"
  /\ \A p \in Procs : proc[p] # "alive"
  /\ helper' = "restore"
  /\ proc' = [p \in Procs |-> "none"]
  /\ sig' = [p \in Procs |-> "none"]
  /\ UNCHANGED <<active, cmd, timer, held, pc, ctxDone>>

\* Run restores the active configuration before it serves.
Restore ==
  /\ helper = "restore"
  /\ helper' = "serve"
  /\ IF active = Nil THEN UNCHANGED core ELSE StartOK(timer) \/ StartError
  /\ UNCHANGED <<active, timer, held, pc, ctxDone>>

Cancel ==
  /\ helper # "down"
  /\ ~ctxDone
  /\ ctxDone' = TRUE
  /\ UNCHANGED <<active, cmd, proc, sig, timer, held, pc, helper>>

\* server.Shutdown(context.Background()) closes the listener, then waits for
\* every request in flight.
CloseListener ==
  /\ ctxDone
  /\ pc[Shutdown] = "idle"
  /\ Goto(Shutdown, "drain")
  /\ UNCHANGED <<active, cmd, proc, sig, timer, held, helper, ctxDone>>

Drain ==
  /\ pc[Shutdown] = "drain"
  /\ \A t \in Calls \cup Others : pc[t] = "idle"
  /\ Goto(Shutdown, "stop")
  /\ UNCHANGED <<active, cmd, proc, sig, timer, held, helper, ctxDone>>

ShutdownStop ==
  /\ pc[Shutdown] = "stop"
  /\ \/ StopGoesOn(Shutdown) /\ UNCHANGED pc
     \/ StopReturns(Shutdown) /\ Goto(Shutdown, "finished")
  /\ UNCHANGED <<active, timer, helper, ctxDone>>

\* Every goroutine is gone; processes the helper had started live on.
HelperGone ==
  /\ helper' = "down"
  /\ ctxDone' = FALSE
  /\ cmd' = Nil
  /\ timer' = {}
  /\ held' = [t \in Threads |-> Nil]
  /\ pc' = [t \in Threads |-> "idle"]
  /\ UNCHANGED <<active, proc, sig>>

\* Serve returns as soon as Shutdown is called and main ends with it: the
\* shutdown goroutine may be anywhere.
HelperExits ==
  /\ helper = "serve"
  /\ pc[Shutdown] # "idle"
  /\ HelperGone

HelperCrashes ==
  /\ helper # "down"
  /\ HelperGone

-------------------------------------------------------------------------------
SupNext ==
  \/ \E p \in Procs :
       CoreExits(p) \/ Wait(p) \/ RestartFires(p) \/ RestartCancelled(p)
  \/ \E c \in Calls : Request(c) \/ ActionStart(c) \/ ActionStop(c)
  \/ Boot \/ Restore \/ Cancel \/ CloseListener \/ Drain \/ ShutdownStop
  \/ HelperExits \/ HelperCrashes

SupSpec == SupInit /\ [][SupNext]_supVars

\* The Go scheduler runs every goroutine that can run and time.After fires; the
\* operating system ends a process that got SIGKILL.  Nothing is assumed about a
\* process that got only SIGTERM, about requests, or about the helper's end.
SupFairness ==
  /\ \A p \in Procs :
       /\ WF_supVars(Wait(p))
       /\ WF_supVars(RestartFires(p) \/ RestartCancelled(p))
       /\ WF_supVars(sig[p] = "KILL" /\ CoreExits(p))
  /\ \A c \in Calls : WF_supVars(ActionStart(c)) /\ WF_supVars(ActionStop(c))
  /\ WF_supVars(CloseListener)
  /\ WF_supVars(Drain)
  /\ WF_supVars(ShutdownStop)

SupFairSpec == SupSpec /\ SupFairness

-------------------------------------------------------------------------------
(* Properties.                                                             *)

CoreTypeOK ==
  /\ cmd \in Procs \cup {Nil}
  /\ proc \in [Procs -> {"none", "alive", "exited", "done"}]
  /\ sig \in [Procs -> {"none", "TERM", "KILL"}]
  /\ timer \in SUBSET Procs
  /\ held \in [Threads -> Procs \cup {Nil}]

SupLabels == {"idle", "start", "stop", "restart", "drain", "finished"}

\* Types of the manager's fields, of the processes and of the goroutines.
SupTypeOK ==
  /\ CoreTypeOK
  /\ active \in Configs \cup {Nil}
  /\ pc \in [Threads -> SupLabels]
  /\ helper \in {"down", "restore", "serve"}
  /\ ctxDone \in BOOLEAN

\* No core process escapes the helper: one that lives while the helper runs is
\* the tracked one, or some goroutine is inside stop() with it, or it has been
\* sent SIGKILL.  start(), stop(), wait() and the delayed restart run
\* concurrently and only the identity test m.cmd == cmd in wait() keeps an old
\* process's exit from making the manager forget the new one.
NoStrayCore ==
  helper # "down" =>
    \A p \in Procs :
      proc[p] = "alive" =>
        cmd = p \/ (\E t \in Threads : held[t] = p) \/ sig[p] = "KILL"

\* What status reports as running has not been collected and nobody has
\* signalled it: stop() takes m.cmd away before it signals, wait() clears it
\* in the section that closes the done channel.
TrackedIsLive ==
  cmd # Nil =>
    /\ proc[cmd] \in {"alive", "exited"}
    /\ sig[cmd] = "none"
    /\ \A t \in Threads : held[t] # cmd

\* Only an exit nobody asked for arms a delayed restart: never the exit of a
\* process that stop() has taken or signalled.
NoRestartOfStopped ==
  \A p \in timer : sig[p] = "none" /\ \A t \in Threads : held[t] # p

\* The facts these rest on: an armed restart belongs to a collected process, and
\* a helper that is down has no manager.  (ArmedIsDone is also why the slot of
\* the tracked process is never armed.)
ArmedIsDone == \A p \in timer : proc[p] = "done"

DownIsEmpty ==
  helper = "down" =>
    /\ ~ctxDone
    /\ cmd = Nil
    /\ timer = {}
    /\ \A t \in Threads : held[t] = Nil /\ pc[t] = "idle"

\* A process stop() has taken does not outlive it for ever, even one that
\* ignores SIGTERM: the five second timeout ends in Kill.
StoppedCoreDies ==
  \A p \in Procs :
    (\E t \in Threads : held[t] = p) ~> (proc[p] # "alive" \/ helper = "down")

\* When the tracked core exits a core runs again, unless a stop() took the
\* exited process first or the helper itself ends.  (With ExecMayFail = FALSE:
\* a restart that cannot exec is logged and not tried again.)
CoreUp == cmd # Nil /\ proc[cmd] = "alive"

CoreRevived ==
  \A p \in Procs :
    (cmd = p /\ proc[p] = "exited")
      ~> \/ CoreUp
         \/ ctxDone \/ helper = "down"
         \/ \E t \in Threads : held[t] = p
-------------------------------------------------------------------------------
(* The supervisor implements CoreService: the tracked process is the       *)
(* current one, any other that wait() has not collected is leaving.        *)

Uncollected == {p \in Procs : proc[p] \in {"alive", "exited"}}

Service == INSTANCE CoreService WITH
  current <- cmd,
  leaving <- IF helper = "down" THEN {} ELSE Uncollected \ {cmd}

\* start(), stop(), wait() and the delayed restart change processes only as
\* CoreService allows, and under fair scheduling every core that was told to go
\* goes: stop() signals it, kills it when it does not listen, and wait()
\* collects it whoever is tracked by then.
ImplementsService == Service!SvcFairSpec
===============================================================================
