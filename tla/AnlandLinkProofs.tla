-------------------------- MODULE AnlandLinkProofs --------------------------
(***************************************************************************)
(* Proofs about the Anland link, for any number of attempts.               *)
(*                                                                         *)
(* FallbackAgrees needs to know the flags in the middle of tryConnect(),   *)
(* and that the producer never loses the backend's callback: LinkInv.      *)
(* TimerInFallback and OutputFollows need more: where the timer is while   *)
(* tryConnect() runs, for either of its callers, and that no consumer dies *)
(* between its handshake and the request that follows it: TimerInv.        *)
(***************************************************************************)
EXTENDS AnlandLink, TLAPS

\* The flags of backend and producer at every point of tryConnect().
FlagsAgree ==
    /\ pc \in {"new", "connect", "attempt"} => inFallback /\ display # "open"
    /\ pc = "request" => ~inFallback /\ display = "open"
    /\ pc \in {"finish", "ready", "top"} => (inFallback <=> display # "open")

\* A producer that exists reports its losses.
CallbackKept ==
    /\ display # "null" => callback
    /\ pc = "attempt" => display # "null"

LinkInv == TypeOK /\ FlagsAgree /\ CallbackKept

\* The initial state satisfies the invariant.
LEMMA InitLinkInv == Init => LinkInv
<1> SUFFICES ASSUME Init PROVE LinkInv
  OBVIOUS
<1>1. 0 \in 0 .. (Attempts - 1)
  BY LinkAssumption
<1>2. poll \in PollState
  BY DEF Init, PollState
<1>3. TypeOK
  BY <1>1, <1>2 DEF Init, TypeOK
<1>4. FlagsAgree /\ CallbackKept
  BY DEF Init, FlagsAgree, CallbackKept
<1> QED BY <1>3, <1>4 DEF LinkInv

\* What the calls make of the timer and the polled fds is well-typed.
LEMMA PollTypes ==
    ASSUME NEW w \in PollState, NEW f \in BOOLEAN, NEW o \in BOOLEAN
    PROVE  /\ SetupReconnectTimer(w) \in PollState
           /\ TeardownReconnectTimer(w) \in PollState
           /\ CloseData(w) \in PollState
           /\ PollFDs(w, f, o) \in PollState
<1>1. SetupReconnectTimer(w) \in PollState
  BY DEF SetupReconnectTimer, PollState
<1>2. TeardownReconnectTimer(w) \in PollState
  BY DEF TeardownReconnectTimer, PollState
<1>3. CloseData(w) \in PollState
  BY DEF CloseData, PollState
<1>4. PollFDs(w, f, o) \in PollState
  <2> DEFINE v == IF ~w.timer /\ f THEN SetupReconnectTimer(w) ELSE w
  <2>1. v \in PollState
    BY <1>1
  <2> HIDE DEF v
  <2>2. [timer |-> v.timer, pending |-> v.pending, pollsTimer |-> v.timer,
         pollsData |-> o /\ ~f, pollsClosed |-> FALSE] \in PollState
    BY <2>1 DEF PollState
  <2> QED BY <2>2 DEF PollFDs, v
<1> QED BY <1>1, <1>2, <1>3, <1>4

\* enter_fallback leaves producer and backend in fallback.
LEMMA EnterFallbackAgrees ==
    ASSUME LinkInv, EnterFallback, display = "open", ~inFallback
    PROVE  /\ display' = "fallback" /\ inFallback' /\ callback'
           /\ link' = "none" /\ ctrl' = ctrl
           /\ outFallback' = TRUE /\ inFallback' = TRUE /\ outputEmitted' = FALSE
           /\ poll' = PollFDs(SetupReconnectTimer(CloseData(poll)), TRUE, FALSE)
           /\ poll' \in PollState
<1>1. callback BY DEF LinkInv, CallbackKept
<1>2. poll' = PollFDs(SetupReconnectTimer(CloseData(poll)), TRUE, FALSE)
  BY <1>1 DEF EnterFallback
<1>3. poll' \in PollState
  BY <1>2, PollTypes DEF LinkInv, TypeOK
<1> QED BY <1>1, <1>2, <1>3 DEF EnterFallback, LinkInv, TypeOK

\* Every step keeps the invariant.
LEMMA NextLinkInv == LinkInv /\ [Next]_vars => LinkInv'
<1> SUFFICES ASSUME LinkInv, [Next]_vars PROVE LinkInv'
  OBVIOUS
<1> USE DEF LinkInv, FlagsAgree, CallbackKept
<1>f. ConnectFails => poll' \in PollState /\ pc' \in {"ready", "top"} /\ attempt' = 0
  BY PollTypes DEF ConnectFails, TypeOK
<1>1. CASE Start
  BY <1>1 DEF Start, TypeOK, peers, producer, flags
<1>2. CASE TimerFires
  BY <1>2 DEF TimerFires, TypeOK, peers, producer, flags
<1>3. CASE ConnectToDaemon
  <2>1. CASE display # "null" /\ pc' = "attempt" /\ UNCHANGED <<attempt, producer, poll>>
    BY <1>3, <2>1 DEF ConnectToDaemon, TypeOK, peers, producer, flags
  <2>2. CASE /\ display = "null" /\ display' = "fallback" /\ ctrl' = "live" /\ callback' = TRUE
             /\ pc' = "attempt" /\ UNCHANGED <<attempt, link, poll>>
    BY <1>3, <2>2 DEF ConnectToDaemon, TypeOK, peers, flags
  <2>3. CASE display = "null" /\ ConnectFails /\ UNCHANGED producer
    BY <1>3, <1>f, <2>3, LinkAssumption DEF ConnectToDaemon, TypeOK, peers, producer, flags
  <2> QED BY <1>3, <2>1, <2>2, <2>3 DEF ConnectToDaemon
<1>4. CASE AttemptSucceeds
  <2>1. 0 \in 0 .. (Attempts - 1)
    BY LinkAssumption
  <2>2. TypeOK'
    BY <1>4, <2>1 DEF AttemptSucceeds, TypeOK, peers
  <2>3. FlagsAgree' /\ CallbackKept'
    BY <1>4 DEF AttemptSucceeds
  <2> QED BY <2>2, <2>3
<1>5. CASE AttemptFails
  <2>1. CASE attempt + 1 < Attempts /\ attempt' = attempt + 1 /\ UNCHANGED <<pc, poll>>
    BY <1>5, <2>1, LinkAssumption DEF AttemptFails, TypeOK, peers, producer, flags
  <2>2. CASE ConnectFails
    BY <1>5, <1>f, <2>2, LinkAssumption DEF AttemptFails, TypeOK, peers, producer, flags
  <2> QED BY <1>5, <2>1, <2>2 DEF AttemptFails
<1>6. CASE RequestResources
  <2>1. CASE EnterFallback
    BY <1>6, <2>1, EnterFallbackAgrees DEF RequestResources, TypeOK, peers
  <2>2. CASE UNCHANGED <<producer, flags, poll>>
    BY <1>6, <2>2 DEF RequestResources, TypeOK, peers, producer, flags
  <2> QED BY <1>6, <2>1, <2>2 DEF RequestResources
<1>7. CASE FinishConnect
  <2>1. PollFDs(poll, inFallback, display = "open") \in PollState
    BY PollTypes DEF TypeOK
  <2>2. poll' \in PollState
    BY <1>7, <2>1, PollTypes DEF FinishConnect
  <2>3. TypeOK'
    BY <1>7, <2>2, ZenonT(60) DEF FinishConnect, TypeOK, peers, producer
  <2>4. FlagsAgree' /\ CallbackKept'
    BY <1>7 DEF FinishConnect, peers, producer
  <2> QED BY <2>3, <2>4
<1>8. CASE OnReady
  <2>1. poll' \in PollState
    BY <1>8, PollTypes DEF OnReady, TypeOK
  <2> QED BY <1>8, <2>1 DEF OnReady, TypeOK, peers, producer
<1>9. CASE DispatchEvents
  <2>1. display = "open" /\ ~inFallback /\ EnterFallback
    BY <1>9 DEF DispatchEvents
  <2> QED BY <1>9, <2>1, EnterFallbackAgrees DEF DispatchEvents, TypeOK, peers, control
<1>10. CASE Shutdown
  <2>1. poll' \in PollState
    BY <1>10, PollTypes DEF Shutdown, TypeOK
  <2> QED BY <1>10, <2>1 DEF Shutdown, TypeOK, peers, flags
<1>11. CASE Peers
  <2>1. /\ consumer' \in BOOLEAN /\ daemon' \in BOOLEAN /\ raced' \in BOOLEAN
        /\ ctrl' \in {"none", "live", "dead"} /\ link' \in {"none", "live", "dead"}
    BY <1>11 DEF Peers, ConsumerArrives, ConsumerLeaves, DaemonDies, DaemonStarts, TypeOK, producer
  <2>2. UNCHANGED <<control, display, callback, flags, poll>>
    BY <1>11 DEF Peers, ConsumerArrives, ConsumerLeaves, DaemonDies, DaemonStarts, producer
  <2> QED BY <2>1, <2>2 DEF TypeOK, control, flags
<1>12. CASE UNCHANGED vars
  BY <1>12 DEF vars, TypeOK, peers, control, producer, flags
<1> QED BY <1>1, <1>2, <1>3, <1>4, <1>5, <1>6, <1>7, <1>8, <1>9, <1>10, <1>11, <1>12 DEF Next, Backend

\* LinkInv holds in every reachable state.
LEMMA LinkInvariant == Spec => []LinkInv
  BY InitLinkInv, NextLinkInv, PTL DEF Spec

\* Every reachable state of the link is well-typed.
THEOREM LinkTypeCorrect == Spec => []TypeOK
<1>1. LinkInv => TypeOK BY DEF LinkInv
<1> QED BY <1>1, LinkInvariant, PTL

\* In the event loop the backend's m_inFallback is the producer's fallback,
\* however often and wherever the consumer is lost.
THEOREM BackendFollowsProducer == Spec => []FallbackAgrees
<1>1. LinkInv => FallbackAgrees BY DEF LinkInv, FlagsAgree, FallbackAgrees
<1> QED BY <1>1, LinkInvariant, PTL

-----------------------------------------------------------------------------
(* The timer and the output, when no consumer dies in its handshake.       *)

\* The timer is armed exactly while a reconnect is pending, and polled only
\* while it is armed.
TimerSound ==
    /\ poll.timer = poll.pending
    /\ poll.pollsTimer => poll.timer

\* Until tryConnect() is over the output is in fallback, the timer is there
\* if it was the timer that called, and the consumer just found is alive.
Connecting ==
    /\ pc \in {"new", "connect", "attempt", "request", "finish"} =>
          /\ outFallback
          /\ caller = "timer" <=> poll.timer
          /\ caller = "timer" <=> poll.pollsTimer
    /\ pc = "request" => link = "live"
    /\ pc = "finish" => ~inFallback
    /\ pc = "new" => caller = "start"

AtRest ==
    /\ pc \in {"ready", "top"} => (outFallback <=> inFallback) /\ (inFallback <=> poll.timer)
    /\ pc = "top" => (inFallback <=> poll.pollsTimer)

TimerParts == TimerSound /\ Connecting /\ AtRest

TimerInv == LinkInv /\ (~raced => TimerParts)

\* The initial state satisfies the invariant.
LEMMA InitTimerInv == Init => TimerInv
  BY InitLinkInv DEF Init, TimerInv, TimerParts, TimerSound, Connecting, AtRest

\* Every step keeps the invariant: a step after which no consumer has died in
\* its handshake keeps the three parts.
LEMMA NextTimerInv ==
    ASSUME TimerInv, [Next]_vars
    PROVE  TimerInv'
<1>0. LinkInv' BY NextLinkInv DEF TimerInv
<1>r. ~raced' => ~raced
  BY DEF Next, Backend, Peers, vars, peers, Start, TimerFires, ConnectToDaemon, AttemptSucceeds,
         AttemptFails, RequestResources, FinishConnect, OnReady, DispatchEvents, Shutdown,
         ConsumerArrives, ConsumerLeaves, DaemonDies, DaemonStarts
<1> SUFFICES ASSUME ~raced' PROVE TimerParts'
  BY <1>0 DEF TimerInv
<1>p. TimerParts
  BY <1>r DEF TimerInv
<1> USE <1>p DEF TimerInv, TimerParts, TimerSound, Connecting, AtRest
<1>t. /\ TypeOK /\ FlagsAgree /\ CallbackKept /\ poll \in PollState
      /\ caller \in {"start", "timer"}
  BY DEF LinkInv, TypeOK
<1>f. ASSUME pc = "attempt" \/ pc = "connect", ConnectFails,
             UNCHANGED <<caller, flags, producer>>
      PROVE  TimerSound' /\ Connecting' /\ AtRest'
  BY <1>f, <1>t DEF ConnectFails, SetupReconnectTimer, PollState, FlagsAgree, flags
<1>1. CASE Start
  BY <1>0, <1>1 DEF Start, producer, flags
<1>2. CASE TimerFires
  BY <1>0, <1>2 DEF TimerFires, producer, flags
<1>3. CASE ConnectToDaemon
  <2>1. CASE pc' = "attempt" /\ UNCHANGED poll
    BY <1>0, <1>3, <2>1 DEF ConnectToDaemon, flags
  <2>2. CASE ConnectFails /\ UNCHANGED producer
    BY <1>0, <1>3, <1>f, <2>2 DEF ConnectToDaemon
  <2> QED BY <1>3, <2>1, <2>2 DEF ConnectToDaemon
<1>4. CASE AttemptSucceeds
  BY <1>0, <1>4 DEF AttemptSucceeds
<1>5. CASE AttemptFails
  <2>1. CASE UNCHANGED <<pc, poll>>
    BY <1>0, <1>5, <2>1 DEF AttemptFails, producer, flags
  <2>2. CASE ConnectFails
    BY <1>0, <1>5, <1>f, <2>2 DEF AttemptFails
  <2> QED BY <1>5, <2>1, <2>2 DEF AttemptFails
<1>6. CASE RequestResources
  <2>1. UNCHANGED <<producer, flags, poll>>
    BY <1>6 DEF RequestResources
  <2> QED BY <1>0, <1>6, <1>t, <2>1 DEF RequestResources, producer, flags, FlagsAgree
<1>7. CASE FinishConnect
  <2>1. ~inFallback /\ inFallback' = FALSE /\ outFallback' = FALSE
    BY <1>7, <1>t DEF FinishConnect, TypeOK
  <2> DEFINE w == PollFDs(poll, inFallback, display = "open")
  <2>2. /\ w.timer = poll.timer /\ w.pending = poll.pending /\ w.pollsTimer = poll.timer
        /\ w \in PollState
    BY <2>1, <1>t, PollTypes DEF PollFDs, PollState, TypeOK
  <2>3. CASE caller = "start"
    <3>1. poll' = w /\ pc' = "ready" /\ caller' = caller
      BY <1>7, <2>3 DEF FinishConnect
    <3> HIDE DEF w
    <3> QED BY <1>0, <1>7, <2>1, <2>2, <2>3, <3>1 DEF FinishConnect
  <2>4. CASE caller = "timer"
    <3>1. poll' = TeardownReconnectTimer(w) /\ pc' = "top" /\ caller' = caller
      BY <1>7, <2>4 DEF FinishConnect
    <3> HIDE DEF w
    <3>2. ~poll'.timer /\ ~poll'.pending /\ ~poll'.pollsTimer
      BY <2>2, <3>1 DEF TeardownReconnectTimer, PollState
    <3> QED BY <1>0, <2>1, <3>1, <3>2, PollTypes DEF LinkInv, TypeOK, PollState
  <2> QED BY <1>t, <2>3, <2>4
<1>8. CASE OnReady
  BY <1>0, <1>8, <1>t DEF OnReady, PollFDs, PollState, TypeOK
<1>9. CASE DispatchEvents
  <2>1. display = "open" /\ ~inFallback /\ EnterFallback
    BY <1>9, <1>t DEF DispatchEvents, FlagsAgree
  <2>2. /\ poll' = PollFDs(SetupReconnectTimer(CloseData(poll)), TRUE, FALSE)
        /\ inFallback' = TRUE /\ outFallback' = TRUE
    BY <2>1, EnterFallbackAgrees
  <2>3. poll'.timer /\ poll'.pending /\ poll'.pollsTimer
    BY <1>9, <1>t, <2>1, <2>2 DEF DispatchEvents, PollFDs, SetupReconnectTimer, CloseData, PollState
  <2> QED BY <1>0, <1>9, <2>2, <2>3 DEF DispatchEvents, control, LinkInv, TypeOK, PollState
<1>10. CASE Shutdown
  BY <1>0, <1>10, <1>t DEF Shutdown, TeardownReconnectTimer, CloseData, PollState
<1>11. CASE Peers
  <2>1. CASE ConsumerLeaves
    <3>1. pc # "request"
      BY <2>1 DEF ConsumerLeaves
    <3> QED BY <1>0, <2>1, <3>1 DEF ConsumerLeaves, control, flags
  <2>2. CASE ConsumerArrives \/ DaemonDies \/ DaemonStarts
    <3>1. UNCHANGED <<control, link, flags, poll>>
      BY <2>2 DEF ConsumerArrives, DaemonDies, DaemonStarts, producer
    <3> QED BY <1>0, <3>1 DEF control, flags
  <2> QED BY <1>11, <2>1, <2>2 DEF Peers
<1>12. CASE UNCHANGED vars
  BY <1>0, <1>12 DEF vars, control, producer, flags
<1> QED BY <1>1, <1>2, <1>3, <1>4, <1>5, <1>6, <1>7, <1>8, <1>9, <1>10, <1>11, <1>12 DEF Next, Backend

\* Without deaths in the handshake, the reconnect timer runs and is polled in
\* the event loop exactly while the backend is in fallback.
THEOREM TimerRunsInFallback == Spec => []TimerInFallback
<1>1. TimerInv => TimerInFallback
  BY DEF TimerInv, TimerParts, AtRest, TimerInFallback
<1>2. TimerInv /\ [Next]_vars => TimerInv'
  BY NextTimerInv
<1> QED BY <1>1, <1>2, InitTimerInv, PTL DEF Spec

\* Without deaths in the handshake, the output is in fallback in the event
\* loop exactly while the backend is.
THEOREM OutputFollowsBackend == Spec => []OutputFollows
<1>1. TimerInv => OutputFollows
  BY DEF TimerInv, TimerParts, AtRest, OutputFollows
<1>2. TimerInv /\ [Next]_vars => TimerInv'
  BY NextTimerInv
<1> QED BY <1>1, <1>2, InitTimerInv, PTL DEF Spec
=============================================================================
