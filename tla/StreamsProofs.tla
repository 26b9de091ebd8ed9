----------------------------- MODULE StreamsProofs -----------------------------
(***************************************************************************)
(* The hook and the handler for any number of effects and connections.     *)
(***************************************************************************)
EXTENDS Streams, TLAPS

USE StreamAssumption DEF others, browserVars, handlerVars, statusVars

\* Types of the browser's end survive what the hook does.
LEMMA HookTypes ==
  ASSUME StreamTypeOK, NEW e \in Effects,
         Cleanup(e) \/ \E c \in Conns : RunEffect(e, c) \/ TimerFires(e, c)
  PROVE  StreamTypeOK'
<1> USE DEF StreamTypeOK
<1>1. CASE Cleanup(e)
  BY <1>1 DEF Cleanup
<1>2. ASSUME NEW c \in Conns, RunEffect(e, c)
      PROVE  StreamTypeOK'
  BY <1>2 DEF RunEffect, Connect, Unused
<1>3. ASSUME NEW c \in Conns, TimerFires(e, c)
      PROVE  StreamTypeOK'
  BY <1>3 DEF TimerFires, Connect, Unused
<1> QED
  BY <1>1, <1>2, <1>3

LEMMA StreamTypeStep ==
  ASSUME StreamTypeOK, [StreamNext]_streamVars
  PROVE  StreamTypeOK'
<1> USE DEF StreamTypeOK
<1>1. CASE \E e \in Effects : Hook(e)
  BY <1>1, HookTypes DEF Hook
<1>2. ASSUME NEW c \in Conns, Opens(c) \/ Closes(c)
      PROVE  StreamTypeOK'
  BY <1>2 DEF Opens, Closes
<1>3. ASSUME NEW c \in Conns, Admit(c) \/ Dial(c)
      PROVE  StreamTypeOK'
  BY <1>3 DEF Admit, Dial, Returns
<1>4. ASSUME NEW c \in Conns, Accept(c) \/ Lost(c)
      PROVE  StreamTypeOK'
  BY <1>4 DEF Accept, Lost, Returns
<1>5. ASSUME NEW c \in Conns, Relay(c)
      PROVE  StreamTypeOK'
  <2>1. CASE UNCHANGED handlerVars
    BY <1>5, <2>1 DEF Relay
  <2>2. CASE srv[c] = "relay" /\ srv' = [srv EXCEPT ![c] = "reset"] /\ UNCHANGED up
    BY <1>5, <2>2 DEF Relay
  <2>3. CASE Returns(c)
    BY <1>5, <2>3 DEF Relay, Returns
  <2> QED
    BY <1>5, <2>1, <2>2, <2>3 DEF Relay
<1>6. CASE Shows \/ CoreStarts \/ ServerStarts \/ SessionChanges \/ Polls \/ Answered
  BY <1>6 DEF Shows, CoreStarts, ServerStarts, SessionChanges, Polls, Answered
<1>7. CASE CoreEnds \/ ServerEnds
  <2>1. CASE CoreEnds
    <3>1. /\ up' \in [Conns -> {"none", "open", "cut"}]
          /\ \A c \in Conns : up'[c] = "none" <=> up[c] = "none"
      BY <2>1 DEF CoreEnds
    <3> QED
      BY <2>1, <3>1 DEF CoreEnds
  <2>2. CASE ServerEnds
    BY <2>2 DEF ServerEnds
  <2> QED
    BY <1>7, <2>1, <2>2
<1>8. CASE UNCHANGED streamVars
  BY <1>8 DEF streamVars
<1> QED
  BY <1>1, <1>2, <1>3, <1>4, <1>5, <1>6, <1>7, <1>8 DEF StreamNext, Handler

\* StreamTypeOK for every instance.
THEOREM StreamsTyped == StreamSpec => []StreamTypeOK
<1>1. StreamInit => StreamTypeOK
  BY DEF StreamInit, StreamTypeOK
<1> QED
  BY <1>1, StreamTypeStep, PTL DEF StreamSpec

-------------------------------------------------------------------------------
(* One socket.                                                             *)

\* One effect runs at a time.
OneRuns ==
  \A e, f \in Effects : effect[e] = "runs" /\ effect[f] = "runs" => e = f

\* Live sockets are the last ones of effects that run, which is what lets a
\* cleanup find them.
LastSocket ==
  \A c \in Conns : Live(c) =>
    /\ of[c] \in Effects
    /\ effect[of[c]] = "runs"
    /\ socket[of[c]] = c

\* An effect that runs has either a live socket or a timer; no other has one.
Tries ==
  \A e \in Effects :
    timer[e] <=> /\ effect[e] = "runs"
                 /\ ~\E c \in Conns : Live(c) /\ of[c] = e

\* Sockets that close belong to effects that were cleaned up.
Closing ==
  \A c \in Conns : ws[c] = "closing" => effect[of[c]] = "closed"

StreamInv == StreamTypeOK /\ OneRuns /\ LastSocket /\ Tries /\ Closing

LEMMA StreamInvImplies == StreamInv => OneStream
BY DEF StreamInv, OneRuns, LastSocket, Tries, OneStream

\* A new socket is the only live one of its effect.
LEMMA ConnectStep ==
  ASSUME StreamInv, NEW e \in Effects, NEW c \in Conns, Connect(e, c),
         ~\E d \in Conns : Live(d) /\ of[d] = e,
         effect'[e] = "runs", ~timer'[e],
         effect' \in [Effects -> {"runs", "closed"}],
         timer' \in [Effects -> BOOLEAN],
         \A f \in Effects \ {e} : effect'[f] = effect[f] /\ timer'[f] = timer[f]
  PROVE  LastSocket' /\ Tries'
<1>1. /\ socket' = [socket EXCEPT ![e] = c]
      /\ of' = [of EXCEPT ![c] = e]
      /\ ws' = [ws EXCEPT ![c] = "connecting"]
      /\ ws[c] = "none" /\ of[c] = Nil
  BY DEF Connect, Unused, StreamInv, StreamTypeOK
<1>2. /\ socket \in [Effects -> Conns \cup {Nil}]
      /\ of \in [Conns -> Effects \cup {Nil}]
      /\ ws \in [Conns -> {"none", "connecting", "open", "closing"}]
  BY DEF StreamInv, StreamTypeOK
<1>3. /\ Live(c)' /\ of'[c] = e /\ socket'[e] = c
      /\ \A d \in Conns \ {c} : /\ Live(d)' <=> Live(d)
                                /\ of'[d] = of[d]
      /\ \A f \in Effects \ {e} : socket'[f] = socket[f]
      /\ ~Live(c)
  BY <1>1, <1>2 DEF Live
<1>4. ASSUME NEW d \in Conns, Live(d)'
      PROVE  of'[d] \in Effects /\ effect'[of'[d]] = "runs" /\ socket'[of'[d]] = d
  <2>1. CASE d = c
    BY <1>3, <2>1
  <2>2. CASE d # c
    <3>1. Live(d) /\ of'[d] = of[d] /\ of[d] \in Effects /\ of[d] # e
      BY <1>3, <1>4, <2>2 DEF StreamInv, LastSocket
    <3> QED
      BY <1>3, <3>1 DEF StreamInv, LastSocket
  <2> QED
    BY <2>1, <2>2
<1>5. LastSocket'
  BY <1>4 DEF LastSocket
<1>6. ASSUME NEW f \in Effects
      PROVE  timer'[f] <=> /\ effect'[f] = "runs"
                           /\ ~\E d \in Conns : Live(d)' /\ of'[d] = f
  <2>1. CASE f = e
    BY <1>3, <2>1
  <2>2. CASE f # e
    <3>1. \A d \in Conns : (Live(d)' /\ of'[d] = f) <=> (Live(d) /\ of[d] = f)
      BY <1>3, <2>2
    <3> QED
      BY <2>2, <3>1 DEF StreamInv, Tries
  <2> QED
    BY <2>1, <2>2
<1> QED
  BY <1>5, <1>6 DEF Tries

\* The steps of the hook and of its sockets.
LEMMA StreamInvStep ==
  ASSUME StreamInv, [StreamNext]_streamVars
  PROVE  StreamInv'
<1>t. StreamTypeOK /\ StreamTypeOK'
  BY StreamTypeStep DEF StreamInv
<1>1. ASSUME NEW e \in Effects, NEW c \in Conns, RunEffect(e, c)
      PROVE  StreamInv'
  <2>1. /\ effect' = [effect EXCEPT ![e] = "runs"] /\ timer' = timer
        /\ Connect(e, c) /\ ~timer[e]
        /\ \A f \in Effects : effect[f] = "closed"
        /\ \A d \in Conns : of[d] # e
    BY <1>1 DEF RunEffect, Over
  <2>2. OneRuns'
    BY <1>t, <2>1 DEF OneRuns, StreamTypeOK
  <2>3. ~\E d \in Conns : Live(d) /\ of[d] = e
    BY <2>1 DEF StreamInv, LastSocket
  <2>4. LastSocket' /\ Tries'
    BY <1>t, <2>1, <2>3, ConnectStep DEF StreamTypeOK
  <2>5. Closing'
    BY <1>t, <2>1 DEF StreamInv, Closing, Connect, Unused, StreamTypeOK
  <2> QED
    BY <1>t, <2>2, <2>4, <2>5 DEF StreamInv
<1>2. ASSUME NEW e \in Effects, NEW c \in Conns, TimerFires(e, c)
      PROVE  StreamInv'
  <2>1. /\ effect' = effect /\ timer' = [timer EXCEPT ![e] = FALSE]
        /\ Connect(e, c) /\ timer[e]
    BY <1>2 DEF TimerFires
  <2>2. OneRuns'
    BY <2>1 DEF OneRuns, StreamInv
  <2>3. effect[e] = "runs" /\ ~\E d \in Conns : Live(d) /\ of[d] = e
    BY <2>1 DEF StreamInv, Tries
  <2>4. LastSocket' /\ Tries'
    BY <1>t, <2>1, <2>3, ConnectStep DEF StreamTypeOK
  <2>5. Closing'
    BY <1>t, <2>1 DEF StreamInv, Closing, Connect, Unused, StreamTypeOK
  <2> QED
    BY <1>t, <2>2, <2>4, <2>5 DEF StreamInv
<1>3. ASSUME NEW e \in Effects, Cleanup(e)
      PROVE  StreamInv'
  <2>1. /\ effect[e] = "runs" /\ effect' = [effect EXCEPT ![e] = "closed"]
        /\ timer' = [timer EXCEPT ![e] = FALSE] /\ of' = of
        /\ ws' = [c \in Conns |-> IF c = socket[e] /\ of[c] = e THEN "closing" ELSE ws[c]]
        /\ socket' = [socket EXCEPT ![e] = Nil]
    BY <1>3 DEF Cleanup
  <2>2. \A c \in Conns : ~Live(c)'
    <3> SUFFICES ASSUME NEW c \in Conns, Live(c)' PROVE FALSE
      OBVIOUS
    <3>1. Live(c) /\ ~(c = socket[e] /\ of[c] = e)
      BY <2>1 DEF Live
    <3> QED
      BY <2>1, <3>1 DEF StreamInv, LastSocket, OneRuns
  <2>3. \A f \in Effects : effect'[f] = "closed" /\ ~timer'[f]
    BY <1>t, <2>1 DEF StreamInv, OneRuns, Tries, StreamTypeOK
  <2>4. Closing'
    BY <1>t, <2>1 DEF StreamInv, Closing, StreamTypeOK
  <2> QED
    BY <1>t, <2>2, <2>3, <2>4 DEF StreamInv, OneRuns, LastSocket, Tries
<1>4. ASSUME NEW c \in Conns, Opens(c)
      PROVE  StreamInv'
  <2>1. /\ UNCHANGED <<effect, timer, of, socket>>
        /\ \A d \in Conns : Live(d)' <=> Live(d)
    BY <1>4, <1>t DEF Opens, Live, StreamTypeOK
  <2>2. Closing'
    BY <1>4, <1>t, <2>1 DEF StreamInv, Closing, Opens, StreamTypeOK
  <2> QED
    BY <1>t, <2>1, <2>2 DEF StreamInv, OneRuns, LastSocket, Tries
<1>5. ASSUME NEW c \in Conns, Closes(c)
      PROVE  StreamInv'
  <2>1. /\ UNCHANGED <<effect, socket>>
        /\ of' = [of EXCEPT ![c] = Nil]
        /\ ws' = [ws EXCEPT ![c] = "none"]
        /\ timer' = IF effect[of[c]] = "runs" THEN [timer EXCEPT ![of[c]] = TRUE]
                                              ELSE timer
        /\ of[c] \in Effects
        /\ Live(c) \/ ws[c] = "closing"
    BY <1>5, <1>t DEF Closes, Reconnects, Live, StreamTypeOK
  <2>2. /\ ~Live(c)'
        /\ \A d \in Conns \ {c} : (Live(d)' <=> Live(d)) /\ of'[d] = of[d]
    BY <1>t, <2>1 DEF Live, StreamTypeOK
  <2>3. OneRuns' /\ LastSocket'
    BY <2>1, <2>2 DEF StreamInv, OneRuns, LastSocket
  <2>4. Tries'
    <3>1. CASE effect[of[c]] = "runs"
      <4>1. Live(c) /\ \A d \in Conns \ {c} : ~(Live(d) /\ of[d] = of[c])
        BY <2>1, <3>1 DEF StreamInv, LastSocket, Closing
      <4>2. timer' = [timer EXCEPT ![of[c]] = TRUE]
        BY <2>1, <3>1
      <4> QED
        BY <1>t, <2>1, <2>2, <3>1, <4>1, <4>2 DEF StreamInv, Tries, StreamTypeOK
    <3>2. CASE effect[of[c]] # "runs"
      BY <1>t, <2>1, <2>2, <3>2 DEF StreamInv, Tries, LastSocket, StreamTypeOK
    <3> QED
      BY <3>1, <3>2
  <2>5. Closing'
    BY <1>t, <2>1, <2>2 DEF StreamInv, Closing, StreamTypeOK
  <2> QED
    BY <1>t, <2>3, <2>4, <2>5 DEF StreamInv
<1>6. CASE UNCHANGED <<effect, timer, of, socket, ws>>
  BY <1>t, <1>6 DEF StreamInv, OneRuns, LastSocket, Tries, Closing, Live
<1>7. CASE \/ Shows \/ CoreStarts \/ CoreEnds \/ ServerStarts \/ ServerEnds
           \/ SessionChanges \/ Polls \/ Answered
           \/ \E c \in Conns : Handler(c) \/ Relay(c)
           \/ UNCHANGED streamVars
  BY <1>6, <1>7 DEF Shows, CoreStarts, CoreEnds, ServerStarts, ServerEnds, SessionChanges,
     Polls, Answered, Handler, Admit, Dial, Accept, Lost, Relay, streamVars
<1> QED
  BY <1>1, <1>2, <1>3, <1>4, <1>5, <1>7 DEF StreamNext, Hook

\* One socket feeds the page, an effect that was cleaned up does nothing more,
\* and one that runs never gives up.
THEOREM AlwaysOneStream == StreamSpec => []OneStream
<1>1. StreamInit => StreamInv
  BY DEF StreamInit, StreamInv, StreamTypeOK, OneRuns, LastSocket, Tries, Closing, Live
<1> QED
  BY <1>1, StreamInvStep, StreamInvImplies, PTL DEF StreamSpec
===============================================================================
