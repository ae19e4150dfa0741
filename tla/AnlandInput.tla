----------------------------- MODULE AnlandInput -----------------------------
(***************************************************************************)
(* The data socket from the consumer: a byte stream of input events, some  *)
(* of which are followed by a payload (a clipboard or a text) or by a      *)
(* message with descriptors (camera resources).  The main thread drains it *)
(* from its event loop; it waits five seconds for what follows an event,   *)
(* and without limit for the rest of a payload that has begun to arrive.   *)
(*                                                                         *)
(* An item of the stream is an event, a half of a payload or a descriptor  *)
(* message, named by the event it belongs to.  The consumer sends what     *)
(* follows an event right after it, but at its own pace; a text never      *)
(* starts like an event's header.                                          *)
(***************************************************************************)
EXTENDS Naturals, Sequences

CONSTANTS
    Texts,    \* what can be in the clipboard
    MaxSent,  \* bound: events on one connection
    InConns   \* bound: connections

ASSUME InputAssumption == MaxSent \in Nat /\ InConns \in Nat

NoText == "none"
ASSUME NoTextAssumption == NoText \notin Texts

\* "plain": key, pointer, touch and display events; "empty": a clipboard or
\* text event of size 0; "text": text input; "clip": a clipboard; "res": camera.
Kinds == {"plain", "empty", "text", "clip", "res"}

VARIABLES
    peer,     \* the consumer: "none", "live", or "dead" and not yet noticed
    conns,    \* connections so far
    sent,     \* events sent on this connection: their kinds and texts
    toSend,   \* items of the last event the consumer has not yet written
    sock,     \* items that are on their way
    at,       \* the main thread: "loop", "poll", "extend", "recv"
    ev,       \* the event that is being handled
    handled,  \* history: how many events of this connection were handled
    late,     \* history: what followed an event came too late
    last,     \* m_lastClipboardText
    hooked,   \* a clipboard callback is registered
    clip      \* history: the last text the callback was called with

inVars == <<peer, conns, sent, toSend, sock, at, ev, handled, late, last, hooked, clip>>
stream == <<peer, conns, sent, toSend, sock>>
board == <<last, hooked, clip>>

Item == [of : 1 .. MaxSent, what : {"event", "half", "rest", "fds"}]
Follows(kind) ==
    CASE kind \in {"text", "clip"} -> <<"half", "rest">>
      [] kind = "res" -> <<"fds">>
      [] OTHER -> <<>>
NoEvent == 0

InputTypeOK ==
    /\ peer \in {"none", "live", "dead"} /\ conns \in 0 .. InConns
    /\ sent \in Seq([kind : Kinds, text : Texts \cup {NoText}]) /\ Len(sent) <= MaxSent
    /\ toSend \in Seq({"half", "rest", "fds"})
    /\ sock \in Seq(Item)
    /\ at \in {"loop", "poll", "extend", "recv"}
    /\ ev \in 0 .. MaxSent /\ handled \in 0 .. MaxSent
    /\ late \in BOOLEAN /\ hooked \in BOOLEAN
    /\ last \in Texts \cup {NoText} /\ clip \in Texts \cup {NoText}

-----------------------------------------------------------------------------
(* The consumer.                                                           *)

\* tryConnect() has found one; the next enterFallback() ends it.
Connects ==
    /\ peer = "none" /\ at = "loop" /\ conns < InConns
    /\ peer' = "live" /\ conns' = conns + 1
    /\ sent' = <<>> /\ toSend' = <<>> /\ sock' = <<>>
    /\ handled' = 0 /\ ev' = NoEvent /\ late' = FALSE
    /\ UNCHANGED <<at, board>>

SendEvent(kind, text) ==
    /\ peer = "live" /\ toSend = <<>> /\ Len(sent) < MaxSent
    /\ (kind = "clip") <=> (text # NoText)
    /\ sent' = Append(sent, [kind |-> kind, text |-> text])
    /\ sock' = Append(sock, [of |-> Len(sent) + 1, what |-> "event"])
    /\ toSend' = Follows(kind)
    /\ UNCHANGED <<peer, conns, at, ev, handled, late, board>>

SendMore ==
    /\ peer = "live" /\ toSend # <<>>
    /\ sock' = Append(sock, [of |-> Len(sent), what |-> Head(toSend)])
    /\ toSend' = Tail(toSend)
    /\ UNCHANGED <<peer, conns, sent, at, ev, handled, late, board>>

ConsumerDies ==
    /\ peer = "live"
    /\ peer' = "dead"
    /\ UNCHANGED <<conns, sent, toSend, sock, at, ev, handled, late, board>>

-----------------------------------------------------------------------------
(* The main thread.                                                        *)

Gets(what) == sock # <<>> /\ Head(sock).what = what

\* The event is done with: what the loop in dispatchEvents does next.
Handled ==
    /\ at' = "poll" /\ ev' = NoEvent /\ handled' = ev

\* The compositor finds the socket readable (or hung up): dispatchEvents.
Dispatch ==
    /\ at = "loop" /\ peer # "none" /\ (sock # <<>> \/ peer = "dead")
    /\ at' = "poll"
    /\ UNCHANGED <<stream, ev, handled, late, board>>

\* A poll that reports a hang-up: enter_fallback, whatever is still unread.
\* Nothing more is dispatched from this connection.
HangUp ==
    /\ at \in {"poll", "extend"} /\ peer = "dead"
    /\ peer' = "none" /\ at' = "loop" /\ ev' = NoEvent
    /\ sock' = <<>> /\ toSend' = <<>>
    /\ UNCHANGED <<conns, sent, handled, late, board>>

\* poll_input_event with no timeout, then handleInputEvent as far as it goes
\* without more input; anything but an event at the head ends the loop and
\* stays where it is.
PollInputEvent ==
    /\ at = "poll" /\ peer = "live"
    /\ IF Gets("event")
       THEN LET n == Head(sock).of
            IN  /\ sock' = Tail(sock)
                /\ IF Follows(sent[n].kind) = <<>>
                   THEN at' = "poll" /\ ev' = NoEvent /\ handled' = n
                   ELSE at' = "extend" /\ ev' = n /\ UNCHANGED handled
       ELSE at' = "loop" /\ UNCHANGED <<sock, ev, handled>>
    /\ UNCHANGED <<peer, conns, sent, toSend, late, board>>

\* Five seconds have passed: the event is given up.
ExtendTimeout ==
    /\ at = "extend" /\ peer = "live" /\ sock = <<>>
    /\ at' = "poll" /\ ev' = NoEvent /\ late' = TRUE
    /\ UNCHANGED <<stream, handled, board>>

\* poll_input_event_extend_fds, with what handleResourceEvent does next: it hands
\* the descriptors to anland_camera_set_resources and closes them all (SetResources
\* and HandOverCloses of AnlandCamera).  The data socket is not among them.
ExtendFds ==
    /\ at = "extend" /\ peer = "live" /\ Gets("fds")
    /\ sock' = Tail(sock)
    /\ Handled
    /\ UNCHANGED <<peer, conns, sent, toSend, late, board>>

\* A bug: one recv() is taken for the whole payload.
ExtendData_Short ==
    /\ at = "extend" /\ peer = "live" /\ Gets("half")
    /\ sock' = Tail(sock)
    /\ Handled
    /\ UNCHANGED <<peer, conns, sent, toSend, late, board>>

\* poll_input_event_extend_data: the first bytes are there, recv_all begins.
ExtendData ==
    /\ at = "extend" /\ peer = "live" /\ Gets("half")
    /\ sock' = Tail(sock)
    /\ at' = "recv"
    /\ UNCHANGED <<peer, conns, sent, toSend, ev, handled, late, board>>

\* updateClipboard, once it has the text.
UpdateClipboard(text) ==
    IF text = last THEN UNCHANGED board
    ELSE last' = text /\ clip' = (IF hooked THEN text ELSE clip) /\ UNCHANGED hooked

\* The rest of the payload: the handler has its text.
RecvAll ==
    /\ at = "recv" /\ Gets("rest")
    /\ sock' = Tail(sock)
    /\ Handled
    /\ IF sent[ev].kind = "clip" THEN UpdateClipboard(sent[Head(sock).of].text)
       ELSE UNCHANGED board
    /\ UNCHANGED <<peer, conns, sent, toSend, late>>

\* A bug: a text of which only the first bytes came is remembered.
RecvFails_Remembers ==
    /\ at = "recv" /\ peer = "dead" /\ sock = <<>>
    /\ at' = "poll" /\ ev' = NoEvent
    /\ last' = IF sent[ev].kind = "clip" THEN sent[ev].text ELSE last
    /\ UNCHANGED <<stream, handled, late, hooked, clip>>

\* recv_all fails when the consumer dies; the hang-up is noticed later.
RecvFails ==
    /\ at = "recv" /\ peer = "dead" /\ sock = <<>>
    /\ at' = "poll" /\ ev' = NoEvent
    /\ UNCHANGED <<stream, handled, late, board>>

\* setClipboardCallback
SetClipboardCallback ==
    /\ at = "loop" /\ ~hooked
    /\ hooked' = TRUE
    /\ UNCHANGED <<stream, at, ev, handled, late, last, clip>>

-----------------------------------------------------------------------------
InputInit ==
    /\ peer = "none" /\ conns = 0 /\ sent = <<>> /\ toSend = <<>> /\ sock = <<>>
    /\ at = "loop" /\ ev = NoEvent /\ handled = 0 /\ late = FALSE
    /\ last = NoText /\ hooked = FALSE /\ clip = NoText

MainThread ==
    \/ Dispatch \/ HangUp \/ PollInputEvent \/ ExtendFds \/ ExtendData
    \/ RecvAll \/ RecvFails

InputNext ==
    \/ MainThread \/ ExtendTimeout \/ SetClipboardCallback
    \/ Connects \/ SendMore \/ ConsumerDies
    \/ \E kind \in Kinds, text \in Texts \cup {NoText} : SendEvent(kind, text)

\* The event loop runs, and a live consumer finishes what it has begun.
InputFairness == WF_inVars(MainThread) /\ WF_inVars(SendMore)

-----------------------------------------------------------------------------
(* Properties.                                                             *)

\* Once the clipboard callback has been called, what it was last called with is
\* the text of the last clipboard event that was handled, whatever repeats,
\* broken payloads and reconnects come between: updateClipboard skips a text
\* equal to the last one, which must be one that arrived.  (A text that comes
\* before the callback is registered is dropped, and skipped when it is sent
\* again: the callback may never be called.)
ClipboardFollows ==
    \A n \in 1 .. handled :
        sent[n].kind = "clip" /\ (\A m \in n + 1 .. handled : sent[m].kind # "clip")
            => clip \in {NoText, sent[n].text}

\* Every event of a live consumer is handled, unless what followed one of them
\* came later than the five seconds: then the stream never moves again.
InputFlows ==
    \A n \in 1 .. MaxSent : Len(sent) >= n ~> handled >= n \/ late \/ peer # "live"
=============================================================================
