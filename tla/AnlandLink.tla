----------------------------- MODULE AnlandLink -----------------------------
(***************************************************************************)
(* The link of the Anland backend to its consumer (the Android side that   *)
(* shows the picture): display_producer.c's context, the fallback flags    *)
(* that must follow it, the reconnect timer, and the fds the compositor    *)
(* polls.  The consumer comes and goes, and so may the daemon between them.*)
(*                                                                         *)
(* The backend is one thread; its long calls are cut where the other       *)
(* processes can be noticed.  pc says where it is:                         *)
(*   new       before start()              connect   tryConnect() begins   *)
(*   attempt   its loop of attempts        request   resources are asked   *)
(*   finish    the rest of tryConnect()    ready     start() has returned  *)
(*   top       the compositor's event loop gone      shutdown() is over    *)
(* The pixels, the input events and the failure of timerfd_create are not  *)
(* part of this module.                                                    *)
(***************************************************************************)
EXTENDS Naturals

CONSTANTS
    Attempts,         \* attempts of one tryConnect(): 100 in the code
    DaemonRestarts    \* the daemon may be restarted

ASSUME LinkAssumption ==
    /\ Attempts \in Nat \ {0}
    /\ DaemonRestarts \in BOOLEAN

VARIABLES
    consumer,       \* a consumer is up and offers its fds to the daemon
    daemon,         \* the daemon accepts connections
    raced,          \* a consumer has died between its handshake and the
                    \* request for camera resources that follows it
    pc,             \* where the backend is
    caller,         \* who called tryConnect(): "start" or "timer"
    attempt,        \* failed attempts of this tryConnect()
    display,        \* m_display: "null", or a context in "fallback" or "open"
    ctrl,           \* the context's control socket: "none", "live", "dead"
    link,           \* the context's data socket: "none", "live", "dead"
    callback,       \* the context's fallback_cb is set
    inFallback,     \* CAnlandBackend::m_inFallback
    outFallback,    \* CAnlandOutput::m_inFallback
    outputEmitted,  \* m_outputEmitted
    poll            \* the reconnect timer and what the compositor polls

peers == <<consumer, daemon, raced>>
control == <<pc, caller, attempt>>
producer == <<display, ctrl, link, callback>>
flags == <<inFallback, outFallback, outputEmitted>>
vars == <<peers, control, producer, flags, poll>>

\* timer: m_reconnectTimerFd >= 0; pending: m_reconnectPending; then whether
\* the compositor polls that timer, the open data socket, and a closed fd.
PollState == [timer : BOOLEAN, pending : BOOLEAN,
              pollsTimer : BOOLEAN, pollsData : BOOLEAN, pollsClosed : BOOLEAN]

TypeOK ==
    /\ consumer \in BOOLEAN /\ daemon \in BOOLEAN /\ raced \in BOOLEAN
    /\ pc \in {"new", "connect", "attempt", "request", "finish", "ready", "top", "gone"}
    /\ caller \in {"start", "timer"}
    /\ attempt \in 0 .. (Attempts - 1)
    /\ display \in {"null", "fallback", "open"}
    /\ ctrl \in {"none", "live", "dead"}
    /\ link \in {"none", "live", "dead"}
    /\ callback \in BOOLEAN
    /\ inFallback \in BOOLEAN /\ outFallback \in BOOLEAN /\ outputEmitted \in BOOLEAN
    /\ poll \in PollState

-----------------------------------------------------------------------------
(* The timer and the polled fds: what each call makes of a PollState.      *)

\* setupReconnectTimer: a new timer, unless one is pending.
SetupReconnectTimer(w) ==
    IF w.pending THEN w
    ELSE [timer |-> TRUE, pending |-> TRUE, pollsTimer |-> FALSE,
          pollsData |-> w.pollsData, pollsClosed |-> w.pollsClosed \/ w.pollsTimer]

\* A bug: the pending flag outlives the timer.
TeardownReconnectTimer_KeepsPending(w) ==
    [timer |-> FALSE, pending |-> w.pending, pollsTimer |-> FALSE,
     pollsData |-> w.pollsData, pollsClosed |-> w.pollsClosed \/ w.pollsTimer]

TeardownReconnectTimer(w) ==
    [timer |-> FALSE, pending |-> FALSE, pollsTimer |-> FALSE,
     pollsData |-> w.pollsData, pollsClosed |-> w.pollsClosed \/ w.pollsTimer]

\* release_consumer_resources closes the data socket.
CloseData(w) ==
    [timer |-> w.timer, pending |-> w.pending, pollsTimer |-> w.pollsTimer,
     pollsData |-> FALSE, pollsClosed |-> w.pollsClosed \/ w.pollsData]

\* pollFDs, called by the compositor when pollFDsChanged is emitted: it arms
\* the timer itself if need be.
PollFDs(w, fallback, open) ==
    LET v == IF ~w.timer /\ fallback THEN SetupReconnectTimer(w) ELSE w
    IN  [timer |-> v.timer, pending |-> v.pending, pollsTimer |-> v.timer,
         pollsData |-> open /\ ~fallback, pollsClosed |-> FALSE]

-----------------------------------------------------------------------------
(* start(), tryConnect() and the timer.                                    *)

Start ==
    /\ pc = "new"
    /\ pc' = "connect" /\ caller' = "start"
    /\ UNCHANGED <<peers, attempt, producer, flags, poll>>

\* onReconnectTimerFd, as far as its call of tryConnect().
TimerFires ==
    /\ pc = "top" /\ poll.pollsTimer
    /\ IF inFallback THEN pc' = "connect" /\ caller' = "timer" ELSE UNCHANGED <<pc, caller>>
    /\ UNCHANGED <<peers, attempt, producer, flags, poll>>

\* tryConnect() is false: start() arms the timer, the timer's handler nothing.
ConnectFails ==
    /\ pc' = IF caller = "start" THEN "ready" ELSE "top"
    /\ poll' = IF caller = "start" THEN SetupReconnectTimer(poll) ELSE poll
    /\ attempt' = 0

\* The context is made once, by connect_to_deamon, and kept for good.
ConnectToDaemon ==
    /\ pc = "connect"
    /\ \/ /\ display # "null"
          /\ pc' = "attempt"
          /\ UNCHANGED <<attempt, producer, poll>>
       \/ /\ display = "null" /\ daemon
          /\ display' = "fallback" /\ ctrl' = "live" /\ callback' = TRUE
          /\ pc' = "attempt"
          /\ UNCHANGED <<attempt, link, poll>>
       \/ /\ display = "null" /\ ~daemon
          /\ ConnectFails
          /\ UNCHANGED producer
    /\ UNCHANGED <<peers, caller, flags>>

\* try_exit_fallback: the daemon hands over the consumer's fds and buffers.
AttemptSucceeds ==
    /\ pc = "attempt" /\ ctrl = "live" /\ consumer
    /\ display' = "open" /\ link' = "live"
    /\ inFallback' = FALSE
    /\ pc' = "request" /\ attempt' = 0
    /\ UNCHANGED <<peers, caller, ctrl, callback, outFallback, outputEmitted, poll>>

\* What was received is released, and after a sleep tried again.
AttemptFails ==
    /\ pc = "attempt" /\ ~(ctrl = "live" /\ consumer)
    /\ IF attempt + 1 < Attempts
         THEN attempt' = attempt + 1 /\ UNCHANGED <<pc, poll>>
         ELSE ConnectFails
    /\ UNCHANGED <<peers, caller, producer, flags>>

\* enter_fallback on a dead data socket: the resources are released, and the
\* callback, which is out of place while it runs, leads to onFallback and
\* enterFallback.  A bug: the callback is not put back.
EnterFallback_LosesCallback ==
    /\ display' = "fallback" /\ link' = "none"
    /\ IF callback /\ ~inFallback
         THEN /\ inFallback' = TRUE /\ outFallback' = TRUE /\ outputEmitted' = FALSE
              /\ poll' = PollFDs(SetupReconnectTimer(CloseData(poll)), TRUE, FALSE)
         ELSE /\ poll' = CloseData(poll)
              /\ UNCHANGED flags
    /\ callback' = FALSE
    /\ UNCHANGED ctrl

EnterFallback ==
    /\ display' = "fallback" /\ link' = "none"
    /\ IF callback /\ ~inFallback
         THEN /\ inFallback' = TRUE /\ outFallback' = TRUE /\ outputEmitted' = FALSE
              /\ poll' = PollFDs(SetupReconnectTimer(CloseData(poll)), TRUE, FALSE)
         ELSE /\ poll' = CloseData(poll)
              /\ UNCHANGED flags
    /\ UNCHANGED <<ctrl, callback>>

\* updateAudioFd and updateCameraResources: the request cannot be sent to a
\* consumer that has died meanwhile.
RequestResources ==
    /\ pc = "request"
    /\ pc' = "finish"
    /\ IF link = "dead" THEN EnterFallback ELSE UNCHANGED <<producer, flags, poll>>
    /\ UNCHANGED <<peers, caller, attempt>>

\* The output leaves its fallback and pollFDsChanged is emitted; the timer's
\* handler emits it once more and then takes the timer down.  Bugs: neither
\* of them emits it, or the output is left in its fallback.
FinishConnect_NoEmit ==
    /\ pc = "finish"
    /\ pc' = IF caller = "start" THEN "ready" ELSE "top"
    /\ outFallback' = FALSE
    /\ poll' = IF caller = "start" THEN poll ELSE TeardownReconnectTimer(poll)
    /\ UNCHANGED <<peers, caller, attempt, producer, inFallback, outputEmitted>>

FinishConnect_ForgetsOutput ==
    /\ pc = "finish"
    /\ pc' = IF caller = "start" THEN "ready" ELSE "top"
    /\ poll' = LET w == PollFDs(poll, inFallback, display = "open")
               IN  IF caller = "start" THEN w ELSE TeardownReconnectTimer(w)
    /\ UNCHANGED <<peers, caller, attempt, producer, flags>>

FinishConnect ==
    /\ pc = "finish"
    /\ pc' = IF caller = "start" THEN "ready" ELSE "top"
    /\ outFallback' = FALSE
    /\ poll' = LET w == PollFDs(poll, inFallback, display = "open")
               IN  IF caller = "start" THEN w ELSE TeardownReconnectTimer(w)
    /\ UNCHANGED <<peers, caller, attempt, producer, inFallback, outputEmitted>>

\* The end of CBackend::start(): onReady announces the output, unless in
\* fallback, and the compositor asks for the fds.
OnReady ==
    /\ pc = "ready"
    /\ pc' = "top"
    /\ outputEmitted' = (outputEmitted \/ ~inFallback)
    /\ outFallback' = (outFallback /\ inFallback)
    /\ poll' = PollFDs(poll, inFallback, display = "open")
    /\ UNCHANGED <<peers, caller, attempt, producer, inFallback>>

\* dispatchEvents on a polled data socket that has hung up.
DispatchEvents ==
    /\ pc = "top" /\ poll.pollsData /\ ~inFallback
    /\ link = "dead"
    /\ EnterFallback
    /\ UNCHANGED <<peers, control>>

\* shutdown(), and the destructor.
Shutdown ==
    /\ pc = "top"
    /\ pc' = "gone"
    /\ display' = "null" /\ ctrl' = "none" /\ link' = "none" /\ callback' = FALSE
    /\ poll' = TeardownReconnectTimer(CloseData(poll))
    /\ UNCHANGED <<peers, caller, attempt, flags>>

-----------------------------------------------------------------------------
(* The consumer and the daemon.                                            *)

ConsumerArrives ==
    /\ ~consumer /\ daemon
    /\ consumer' = TRUE
    /\ UNCHANGED <<daemon, raced, control, producer, flags, poll>>

ConsumerLeaves ==
    /\ consumer
    /\ consumer' = FALSE
    /\ raced' = (raced \/ pc = "request")
    /\ link' = IF link = "live" THEN "dead" ELSE link
    /\ UNCHANGED <<daemon, control, display, ctrl, callback, flags, poll>>

DaemonDies ==
    /\ daemon /\ DaemonRestarts
    /\ daemon' = FALSE
    /\ ctrl' = IF ctrl = "live" THEN "dead" ELSE ctrl
    /\ UNCHANGED <<consumer, raced, control, display, link, callback, flags, poll>>

DaemonStarts ==
    /\ ~daemon
    /\ daemon' = TRUE
    /\ UNCHANGED <<consumer, raced, control, producer, flags, poll>>

-----------------------------------------------------------------------------

Init ==
    /\ consumer \in BOOLEAN /\ daemon \in BOOLEAN
    /\ consumer => daemon
    /\ raced = FALSE
    /\ pc = "new" /\ caller = "start" /\ attempt = 0
    /\ display = "null" /\ ctrl = "none" /\ link = "none" /\ callback = FALSE
    /\ inFallback = TRUE /\ outFallback = TRUE /\ outputEmitted = FALSE
    /\ poll = [timer |-> FALSE, pending |-> FALSE,
               pollsTimer |-> FALSE, pollsData |-> FALSE, pollsClosed |-> FALSE]

Backend ==
    \/ Start \/ TimerFires \/ ConnectToDaemon \/ AttemptSucceeds \/ AttemptFails
    \/ RequestResources \/ FinishConnect \/ OnReady \/ DispatchEvents

Peers == ConsumerArrives \/ ConsumerLeaves \/ DaemonDies \/ DaemonStarts

Next == Backend \/ Shutdown \/ Peers

Spec == Init /\ [][Next]_vars

\* The backend's calls return, and the compositor dispatches the fds it polls.
FairSpec == Spec /\ WF_vars(Backend)

-----------------------------------------------------------------------------

\* Whenever the event loop runs, the backend believes to be in fallback
\* exactly if the producer is: every loss of the consumer, the first and any
\* later one, in an event or in the handshake, reaches m_inFallback.
FallbackAgrees == pc = "top" => (inFallback <=> display # "open")

\* The reconnect timer is armed and polled while in fallback, and only then,
\* unless a consumer has died between its handshake and the first request.
TimerInFallback ==
    pc = "top" /\ ~raced =>
        /\ inFallback <=> poll.timer
        /\ inFallback <=> poll.pollsTimer

\* The output leaves and enters its fallback together with the backend, with
\* the same exception.
OutputFollows == pc = "top" /\ ~raced => (outFallback <=> inFallback)

\* A consumer that dies is noticed, and its resources released.
LossNoticed == link = "dead" ~> link # "dead"

\* With a consumer that stays, none that died in its handshake and a daemon
\* that was never restarted, the backend never remains in fallback.
Reconnects ==
    <>[](consumer /\ daemon /\ ~raced /\ ctrl # "dead") => []<>(~inFallback \/ pc = "gone")
=============================================================================
