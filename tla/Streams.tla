-------------------------------- MODULE Streams --------------------------------
(***************************************************************************)
(* Live data from the core to a page: the hook that keeps a WebSocket open *)
(* (ui/src/App.tsx: useLiveStream), the handler that relays one            *)
(* (internal/app/server.go: websocketProxy) and what enables the hook, the *)
(* polled status.                                                          *)
(*                                                                         *)
(* The hook's effect runs while it is enabled, and React cleans one up     *)
(* before it runs the next.  A socket that closes is connected again by a  *)
(* timer.  The handler, admitted by its session (authenticate), dials the  *)
(* core, accepts the browser and copies each message; it never reads from  *)
(* the browser, so it learns that the browser is gone from a write that    *)
(* fails, and it does not ask for the session again.  Between core, server *)
(* and browser each end learns of the other's end in a step of its own.    *)
(***************************************************************************)
CONSTANTS
  Effects,  \* runs of the hook's effect, taken again once nothing is left of them
  Conns,    \* connections, likewise
  Nil

ASSUME StreamAssumption ==
  /\ Nil \notin Effects
  /\ Nil \notin Conns \cup BOOLEAN

VARIABLES
  core,    \* whether the core serves its controller
  server,  \* whether the web server runs
  session, \* whether the browser's cookie is one of a valid session
  poll,    \* what the status request under way will say of the core, or Nil
  online,  \* what the page last heard of it
  shown,   \* whether the page with the hook is open and not paused
  effect,  \* "runs", or "closed" once cleaned up: the effect's flag
  timer,   \* whether its timer is set
  socket,  \* its last socket, or Nil when it is closed and uses none
  of,      \* the effect a socket belongs to, or Nil
  ws,      \* the browser's end of a connection
  srv,     \* the handler of a connection
  up       \* its connection to the core

browserVars == <<shown, effect, timer, socket, of, ws>>
handlerVars == <<srv, up>>
statusVars  == <<poll, online>>
others      == <<core, server, session>>
streamVars  == <<others, statusVars, browserVars, handlerVars>>

StreamInit ==
  /\ core = FALSE /\ server = TRUE /\ session = TRUE
  /\ poll = Nil /\ online = FALSE
  /\ shown = FALSE
  /\ effect = [e \in Effects |-> "closed"]
  /\ timer = [e \in Effects |-> FALSE]
  /\ socket = [e \in Effects |-> Nil]
  /\ of = [c \in Conns |-> Nil]
  /\ ws = [c \in Conns |-> "none"]
  /\ srv = [c \in Conns |-> "none"]
  /\ up = [c \in Conns |-> "none"]

-------------------------------------------------------------------------------
(* The hook.                                                               *)

\* Nothing is left of an effect or a connection.
Over(e)   == effect[e] = "closed" /\ ~timer[e] /\ \A c \in Conns : of[c] # e
Unused(c) == ws[c] = "none" /\ srv[c] = "none"

Enabled == shown /\ online

\* connect(): a new socket, whose request reaches a server that runs.
Connect(e, c) ==
  /\ Unused(c)
  /\ socket' = [socket EXCEPT ![e] = c]
  /\ of' = [of EXCEPT ![c] = e]
  /\ ws' = [ws EXCEPT ![c] = "connecting"]
  /\ srv' = [srv EXCEPT ![c] = IF server THEN "admit" ELSE "none"]

RunEffect(e, c) ==
  /\ Enabled
  /\ \A f \in Effects : effect[f] = "closed"
  /\ Over(e)
  /\ effect' = [effect EXCEPT ![e] = "runs"]
  /\ Connect(e, c)
  /\ UNCHANGED <<others, statusVars, shown, timer, up>>

\* Mutant of Cleanup: the timer is not cleared.
CleanupKeepsTimer(e) ==
  /\ ~Enabled
  /\ effect[e] = "runs"
  /\ effect' = [effect EXCEPT ![e] = "closed"]
  /\ ws' = [c \in Conns |-> IF c = socket[e] /\ of[c] = e THEN "closing" ELSE ws[c]]
  /\ socket' = [socket EXCEPT ![e] = Nil]
  /\ UNCHANGED <<others, statusVars, shown, timer, of, handlerVars>>

\* The function the effect returns.  connect() does not look at the flag: it is
\* the timer that must be cleared.
Cleanup(e) ==
  /\ ~Enabled
  /\ effect[e] = "runs"
  /\ effect' = [effect EXCEPT ![e] = "closed"]
  /\ timer' = [timer EXCEPT ![e] = FALSE]
  /\ ws' = [c \in Conns |-> IF c = socket[e] /\ of[c] = e THEN "closing" ELSE ws[c]]
  /\ socket' = [socket EXCEPT ![e] = Nil]
  /\ UNCHANGED <<others, statusVars, shown, of, handlerVars>>

\* setTimeout(connect, 1800) is over.
TimerFires(e, c) ==
  /\ timer[e]
  /\ timer' = [timer EXCEPT ![e] = FALSE]
  /\ Connect(e, c)
  /\ UNCHANGED <<others, statusVars, shown, effect, up>>

\* The handler has accepted.
Opens(c) ==
  /\ ws[c] = "connecting"
  /\ srv[c] \in {"relay", "reset"}
  /\ ws' = [ws EXCEPT ![c] = "open"]
  /\ UNCHANGED <<others, statusVars, shown, effect, timer, socket, of, handlerVars>>

\* Mutant of Reconnects: a socket that never opened is not connected again.
ReconnectsOpen(c) == effect[of[c]] = "runs" /\ ws[c] = "open"

\* if (!closed) timer = ...
Reconnects(c) == effect[of[c]] = "runs"

\* onclose: the connection was refused or closed by the server, or the browser
\* has closed it, which the server does not answer.
Closes(c) ==
  /\ \/ ws[c] \in {"connecting", "open"} /\ srv[c] = "none"
     \/ ws[c] = "closing"
  /\ ws' = [ws EXCEPT ![c] = "none"]
  /\ of' = [of EXCEPT ![c] = Nil]
  /\ timer' = IF Reconnects(c) THEN [timer EXCEPT ![of[c]] = TRUE] ELSE timer
  /\ UNCHANGED <<others, statusVars, shown, effect, socket, handlerVars>>

\* The user opens the page, leaves it, pauses or resumes.
Shows ==
  /\ shown' = ~shown
  /\ UNCHANGED <<others, statusVars, effect, timer, socket, of, ws, handlerVars>>

-------------------------------------------------------------------------------
(* The handler.                                                            *)

\* Mutant of Returns: the deferred upstream.CloseNow() is missing.
ReturnsOnly(c) == srv' = [srv EXCEPT ![c] = "none"] /\ UNCHANGED up

Returns(c) ==
  /\ srv' = [srv EXCEPT ![c] = "none"]
  /\ up' = [up EXCEPT ![c] = "none"]

\* authenticate: without a valid session the answer is 401.
Admit(c) ==
  /\ srv[c] = "admit"
  /\ srv' = [srv EXCEPT ![c] = IF session THEN "dial" ELSE "none"]
  /\ UNCHANGED <<others, statusVars, browserVars, up>>

\* websocket.Dial of the core; a browser that goes away cancels the request.
Dial(c) ==
  /\ srv[c] = "dial"
  /\ \/ /\ core
        /\ srv' = [srv EXCEPT ![c] = "accept"]
        /\ up' = [up EXCEPT ![c] = "open"]
     \/ /\ ~core \/ ws[c] \in {"closing", "none"}
        /\ Returns(c)
  /\ UNCHANGED <<others, statusVars, browserVars>>

\* websocket.Accept answers 101, whether or not somebody still listens.
Accept(c) ==
  /\ srv[c] = "accept"
  /\ srv' = [srv EXCEPT ![c] = "relay"]
  /\ UNCHANGED <<others, statusVars, browserVars, up>>

\* Mutant of Relay: the error of the write is ignored.
RelayRegardless(c) ==
  /\ srv[c] \in {"relay", "reset"}
  /\ up[c] = "open"
  /\ UNCHANGED <<others, statusVars, browserVars, up, srv>>

\* A message of the core is written to the browser.  The first write after the
\* browser has gone is taken by the kernel, the next one fails.
Relay(c) ==
  /\ srv[c] \in {"relay", "reset"}
  /\ up[c] = "open"
  /\ \/ ws[c] # "none" /\ UNCHANGED handlerVars
     \/ /\ ws[c] = "none" /\ srv[c] = "relay"
        /\ srv' = [srv EXCEPT ![c] = "reset"]
        /\ UNCHANGED up
     \/ /\ ws[c] = "none" /\ srv[c] = "reset"
        /\ Returns(c)
  /\ UNCHANGED <<others, statusVars, browserVars>>

\* upstream.Read fails.
Lost(c) ==
  /\ srv[c] \in {"relay", "reset"}
  /\ up[c] = "cut"
  /\ Returns(c)
  /\ UNCHANGED <<others, statusVars, browserVars>>

-------------------------------------------------------------------------------
(* The core, the server and the status.                                    *)

CoreStarts ==
  /\ ~core
  /\ core' = TRUE
  /\ UNCHANGED <<server, session, statusVars, browserVars, handlerVars>>

CoreEnds ==
  /\ core
  /\ core' = FALSE
  /\ up' = [c \in Conns |-> IF up[c] = "open" THEN "cut" ELSE up[c]]
  /\ UNCHANGED <<server, session, statusVars, browserVars, srv>>

ServerStarts ==
  /\ ~server
  /\ server' = TRUE
  /\ UNCHANGED <<core, session, statusVars, browserVars, handlerVars>>

\* Shutdown does not wait for connections a handler has taken over: they end
\* with the process.  A status request fails, and the page keeps what it has.
ServerEnds ==
  /\ server
  /\ server' = FALSE
  /\ srv' = [c \in Conns |-> "none"]
  /\ up' = [c \in Conns |-> "none"]
  /\ poll' = Nil
  /\ UNCHANGED <<core, session, online, browserVars>>

\* The session expires or is ended, or the user logs in again, here or in another
\* window; the page learns of it by its next requests only.
SessionChanges ==
  /\ session' = ~session
  /\ UNCHANGED <<core, server, statusVars, browserVars, handlerVars>>

\* Every five seconds; the answer tells of the core as it was when asked.  One
\* that is refused leaves the page with what it has.
Polls ==
  /\ poll = Nil
  /\ server /\ session
  /\ poll' = core
  /\ UNCHANGED <<others, online, browserVars, handlerVars>>

Answered ==
  /\ poll # Nil
  /\ online' = poll
  /\ poll' = Nil
  /\ UNCHANGED <<others, browserVars, handlerVars>>

Hook(e) == Cleanup(e) \/ \E c \in Conns : RunEffect(e, c) \/ TimerFires(e, c)

Handler(c) == Admit(c) \/ Dial(c) \/ Accept(c) \/ Lost(c)

StreamNext ==
  \/ Shows \/ CoreStarts \/ CoreEnds \/ ServerStarts \/ ServerEnds
  \/ SessionChanges
  \/ Polls \/ Answered
  \/ \E e \in Effects : Hook(e)
  \/ \E c \in Conns : Opens(c) \/ Closes(c) \/ Handler(c) \/ Relay(c)

StreamSpec == StreamInit /\ [][StreamNext]_streamVars

\* Timers fire, events arrive, polls go on, goroutines run, and the core sends
\* again and again, as it does on every topic but the logs.  Nothing is assumed
\* of the user, of sessions, of the core's life or of the server's.
StreamFairness ==
  /\ WF_streamVars(Polls) /\ WF_streamVars(Answered)
  /\ \A e \in Effects : WF_streamVars(Hook(e))
  /\ \A c \in Conns : /\ WF_streamVars(Opens(c)) /\ WF_streamVars(Closes(c))
                      /\ WF_streamVars(Handler(c)) /\ WF_streamVars(Relay(c))

StreamFairSpec == StreamSpec /\ StreamFairness

-------------------------------------------------------------------------------
(* Properties.                                                             *)

\* Types of both ends of every connection; a handler that has returned leaves no
\* connection to the core behind.
StreamTypeOK ==
  /\ {core, server, session, online, shown} \subseteq BOOLEAN
  /\ poll \in BOOLEAN \cup {Nil}
  /\ effect \in [Effects -> {"runs", "closed"}]
  /\ timer \in [Effects -> BOOLEAN]
  /\ socket \in [Effects -> Conns \cup {Nil}]
  /\ of \in [Conns -> Effects \cup {Nil}]
  /\ ws \in [Conns -> {"none", "connecting", "open", "closing"}]
  /\ srv \in [Conns -> {"none", "admit", "dial", "accept", "relay", "reset"}]
  /\ up \in [Conns -> {"none", "open", "cut"}]
  /\ \A c \in Conns : /\ of[c] = Nil <=> ws[c] = "none"
                      /\ up[c] = "none" <=> srv[c] \in {"none", "admit", "dial"}

Live(c) == ws[c] \in {"connecting", "open"}

\* However statuses, timers and close events race: what the page shows comes
\* from one socket, nothing arrives or is tried once the hook was cleaned up,
\* and a hook that runs never gives up.
OneStream ==
  /\ \A c, d \in Conns : (Live(c) /\ Live(d)) => c = d
  /\ \A c \in Conns : Live(c) => effect[of[c]] = "runs"
  /\ \A e \in Effects : timer[e] => effect[e] = "runs"
  /\ \A e \in Effects : effect[e] = "runs" =>
       (timer[e] <=> ~\E c \in Conns : Live(c) /\ of[c] = e)

\* When core and server stay up, the page stays open and its session valid, data
\* flows for good (the page of a stopped core promises it, App.tsx:410).
StreamRecovers ==
  <>[](core /\ server /\ session /\ shown) =>
    <>[](\E c \in Conns : ws[c] = "open" /\ srv[c] = "relay" /\ up[c] = "open")

\* No handler outlives its browser, although it never reads from it.
HandlersEnd ==
  \A c \in Conns : (srv[c] # "none" /\ ws[c] = "none") ~> srv[c] = "none"
===============================================================================
