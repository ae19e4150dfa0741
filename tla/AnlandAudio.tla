----------------------------- MODULE AnlandAudio -----------------------------
(***************************************************************************)
(* The audio service's two PipeWire streams, "capture" for what the desktop*)
(* plays and "source" for the consumer's microphone, the format that the   *)
(* consumer asks for over its audio socket, and the connection to the      *)
(* PipeWire daemon.  The callbacks run in PipeWire's loop thread; set_fd   *)
(* and stop take that loop's lock.  The sampling rate and the channels of  *)
(* a format are one value; the ring is in AnlandRing.                      *)
(***************************************************************************)
EXTENDS Naturals

CONSTANTS
    Rates,       \* rates (with channels) a consumer asks for; 0 is "default"
    Quanta,      \* quanta; 0 is "none"
    MaxAudioFds  \* bound: audio sockets handed to the service

DEFAULT_RATE == 1
Roles == {"capture", "source"}

ASSUME AudioAssumption ==
    {0, DEFAULT_RATE} \subseteq Rates /\ 0 \in Quanta /\ MaxAudioFds \in Nat

VARIABLES
    pw,        \* the PipeWire daemon and the service's connection to it
    cur,       \* play_rate, cap_rate, ...: the format of each role
    said,      \* history: the last format the consumer asked for
    strm,      \* the PipeWire streams
    audioFd,   \* a->audio_fd: 0 or the socket's number; it is read while set
    fds        \* sockets handed over so far

audVars == <<pw, cur, said, strm, audioFd, fds>>

Formats == [rate : Rates, quantum : Quanta]
NoStream == [rate |-> 0, latency |-> <<0, 0>>]

AudioTypeOK ==
    /\ pw \in [server : BOOLEAN, core : {"null", "live", "broken"},
               connected : BOOLEAN, armed : BOOLEAN, up : BOOLEAN]
    /\ cur \in [Roles -> Formats] /\ said \in [Roles -> Formats]
    /\ strm \in [Roles -> [rate : Rates, latency : Quanta \X Rates]]
    /\ audioFd \in 0 .. MaxAudioFds /\ fds \in 0 .. MaxAudioFds

-----------------------------------------------------------------------------
(* The streams and the daemon.                                             *)

\* connect_stream for a role: a latency is set only for a quantum.
Connected(f) ==
    [rate |-> f.rate,
     latency |-> IF f.quantum = 0 THEN <<0, 0>> ELSE <<f.quantum, f.rate>>]

\* teardown_pw, then build_pw; a failed one is torn down and tried again.
BuildAudio ==
    /\ pw' = [pw EXCEPT !.core = IF pw.server THEN "live" ELSE "null",
                        !.connected = pw.server, !.armed = ~pw.server, !.up = TRUE]
    /\ strm' = [role \in Roles |-> IF pw.server THEN Connected(cur[role]) ELSE NoStream]

AudioStart ==
    /\ ~pw.up /\ fds = 0
    /\ BuildAudio
    /\ UNCHANGED <<cur, said, audioFd, fds>>

\* on_core_error
AudioCoreError ==
    /\ pw.up /\ pw.core = "broken" /\ pw.connected
    /\ pw' = [pw EXCEPT !.connected = FALSE, !.armed = TRUE]
    /\ UNCHANGED <<cur, said, strm, audioFd, fds>>

\* on_reconnect_timer
AudioTimer ==
    /\ pw.up /\ pw.armed
    /\ BuildAudio
    /\ UNCHANGED <<cur, said, audioFd, fds>>

\* The format a FORMAT message means.
Meant(f) == [f EXCEPT !.rate = IF @ = 0 THEN DEFAULT_RATE ELSE @]

\* A bug: a format that comes while PipeWire is away is forgotten.
ApplyFormat_OnlyConnected(role, f) ==
    /\ cur' = IF pw.connected THEN [cur EXCEPT ![role] = Meant(f)] ELSE cur
    /\ strm' = IF ~pw.connected \/ Meant(f) = cur[role] THEN strm
               ELSE [strm EXCEPT ![role] = [rate |-> Meant(f).rate,
                       latency |-> IF f.quantum = 0 THEN @.latency
                                   ELSE <<f.quantum, Meant(f).rate>>]]

\* apply_format: a connected stream is told the new rate, and the new latency
\* if there is a quantum.
ApplyFormat(role, f) ==
    /\ cur' = [cur EXCEPT ![role] = Meant(f)]
    /\ strm' = IF ~pw.connected \/ Meant(f) = cur[role] THEN strm
               ELSE [strm EXCEPT ![role] = [rate |-> Meant(f).rate,
                       latency |-> IF f.quantum = 0 THEN @.latency
                                   ELSE <<f.quantum, Meant(f).rate>>]]

\* on_audio_readable, a FORMAT message.
OnAudioFormat(role, f) ==
    /\ pw.up /\ audioFd # 0
    /\ said' = [said EXCEPT ![role] = Meant(f)]
    /\ ApplyFormat(role, f)
    /\ UNCHANGED <<pw, audioFd, fds>>

PipewireDies ==
    /\ pw.server
    /\ pw' = [pw EXCEPT !.server = FALSE, !.core = IF @ = "live" THEN "broken" ELSE @]
    /\ UNCHANGED <<cur, said, strm, audioFd, fds>>

PipewireStarts ==
    /\ ~pw.server
    /\ pw' = [pw EXCEPT !.server = TRUE]
    /\ UNCHANGED <<cur, said, strm, audioFd, fds>>

------------------------------------------------------------------------

\* anland_audio_set_fd, with a socket or with none.
SetAudioFd(open) ==
    /\ pw.up
    /\ open => fds < MaxAudioFds
    /\ fds' = IF open THEN fds + 1 ELSE fds
    /\ audioFd' = IF open THEN fds + 1 ELSE 0
    /\ UNCHANGED <<pw, cur, said, strm>>

\* anland_audio_stop: the threads are stopped first.
AudioStop ==
    /\ pw.up /\ fds > 0
    /\ pw' = [pw EXCEPT !.core = "null", !.connected = FALSE, !.armed = FALSE, !.up = FALSE]
    /\ strm' = [role \in Roles |-> NoStream]
    /\ audioFd' = 0
    /\ UNCHANGED <<cur, said, fds>>

-----------------------------------------------------------------------------
AudioInit ==
    /\ pw \in [server : BOOLEAN, core : {"null"}, connected : {FALSE},
               armed : {FALSE}, up : {FALSE}]
    /\ cur = [role \in Roles |-> [rate |-> DEFAULT_RATE, quantum |-> 0]]
    /\ said = cur
    /\ strm = [role \in Roles |-> NoStream]
    /\ audioFd = 0 /\ fds = 0

AudioNext ==
    \/ AudioStart \/ AudioCoreError \/ AudioTimer \/ AudioStop
    \/ PipewireDies \/ PipewireStarts
    \/ \E open \in BOOLEAN : SetAudioFd(open)
    \/ \E role \in Roles, f \in Formats : OnAudioFormat(role, f)

\* The loop thread runs: it notices a broken core and serves its timer.
AudioFairness == WF_audVars(AudioCoreError) /\ WF_audVars(AudioTimer)

AudioSpec == AudioInit /\ [][AudioNext]_audVars /\ AudioFairness

-----------------------------------------------------------------------------
(* Properties.                                                             *)

\* A stream that is connected has the format the consumer asked for last,
\* also when it asked while PipeWire was away (apply_format, connect_stream).
StreamsFollowFormat ==
    pw.connected => \A role \in Roles :
        /\ strm[role].rate = said[role].rate
        /\ said[role].quantum # 0 =>
              strm[role].latency = <<said[role].quantum, said[role].rate>>
=============================================================================
