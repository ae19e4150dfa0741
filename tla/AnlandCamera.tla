---------------------------- MODULE AnlandCamera ----------------------------
(***************************************************************************)
(* The camera service: a PipeWire node for each camera of the consumer.    *)
(* A camera records while an application watches its node (streaming), its *)
(* stream socket is attached and the control socket is there; frames come  *)
(* through shared memory that the service asks the consumer for once.      *)
(*                                                                         *)
(* The main thread calls set_resources, clear and stop with the loop's     *)
(* lock held; PipeWire's loop thread runs the callbacks with that lock.    *)
(* The service keeps the descriptors it is given as its own; but           *)
(* handleResourceEvent (AnlandBackend.cpp), the only caller, closes them   *)
(* as soon as set_resources is back, without the lock.  Then the sockets   *)
(* are gone: nothing can be sent or read, and the numbers in the cameras   *)
(* name nothing (that another file gets one of them is left out).  Picture *)
(* formats and sizes are left out: they bound copies and steer nothing     *)
(* else.                                                                   *)
(***************************************************************************)
EXTENDS Naturals, Sequences, SequencesExt

CONSTANTS
    MAX_CAMERAS,   \* cameras of the service
    CamConns,      \* bound: consumers that offer cameras, one after the other
    CAMERA_SLOTS   \* frames that may be on their way in one stream

ASSUME CameraAssumption ==
    /\ MAX_CAMERAS \in Nat \ {0}
    /\ CamConns \in Nat
    /\ CAMERA_SLOTS \in Nat \ {0}

Cams == 1 .. MAX_CAMERAS

VARIABLES
    server,      \* the PipeWire daemon runs
    running,     \* g_cam: "no", "yes", or "crashed"
    core,        \* c->core: "null", "live", or "broken" when the daemon is gone
    pwConnected, \* c->pw_connected
    armed,       \* the reconnect timer is armed
    ctrl,        \* c->ctrl_fd: 0, or the consumer at its other end
    num,         \* c->num_cameras
    cam,         \* c->cams
    served,      \* consumers so far
    handed       \* handleResourceEvent is between set_resources and its closes

camVars == <<server, running, core, pwConnected, armed, ctrl, num, cam, served, handed>>

\* A camera, and what travels on its sockets: owed and told are what the
\* consumer knows (GET_SHM unanswered; told to record), inbox what it sent.
\* failed: the memory offered on this stream could not be mapped.
\* shut: the caller has closed the camera's stream socket and the control socket.
CamState ==
    [node : BOOLEAN, streaming : BOOLEAN, recording : BOOLEAN,
     stream : 0 .. CamConns, io : BOOLEAN,
     shm : 0 .. CamConns, asked : BOOLEAN, failed : BOOLEAN, frame : 0 .. CamConns,
     hup : BOOLEAN, shut : BOOLEAN, owed : BOOLEAN, told : BOOLEAN,
     inbox : BoundedSeq({"offer", "unmappable", "ready"}, CAMERA_SLOTS)]

NewCam ==
    [node |-> FALSE, streaming |-> FALSE, recording |-> FALSE, stream |-> 0,
     io |-> FALSE, shm |-> 0, asked |-> FALSE, failed |-> FALSE, frame |-> 0,
     hup |-> FALSE, shut |-> FALSE, owed |-> FALSE, told |-> FALSE, inbox |-> <<>>]

CameraTypeOK ==
    /\ server \in BOOLEAN /\ running \in {"no", "yes", "crashed"}
    /\ core \in {"null", "live", "broken"}
    /\ pwConnected \in BOOLEAN /\ armed \in BOOLEAN /\ handed \in BOOLEAN
    /\ ctrl \in 0 .. CamConns /\ served \in 0 .. CamConns
    /\ num \in 0 .. MAX_CAMERAS
    /\ cam \in [Cams -> CamState]

-----------------------------------------------------------------------------
(* What the calls make of one camera.                                      *)

\* request_shm: asked for once for each attached stream, though the message
\* may not leave.
RequestShm(k) ==
    IF ~k.streaming \/ k.stream = 0 \/ k.shm # 0 \/ k.asked THEN k
    ELSE [k EXCEPT !.asked = TRUE, !.owed = ~k.shut]

\* update_recording: START_RECORD or STOP_RECORD when what is wanted changed,
\* whether or not it can be sent.
UpdateRecording(k, fd) ==
    LET want == k.streaming /\ k.stream # 0 /\ fd # 0
    IN  IF want = k.recording THEN k
        ELSE IF want THEN RequestShm([k EXCEPT !.told = ~k.shut, !.recording = TRUE])
        ELSE [k EXCEPT !.told = @ /\ fd = 0, !.recording = FALSE]

\* A bug: the last frame of the previous stream is kept.
AttachFd_KeepsFrame(k, fd, control) ==
    RequestShm(UpdateRecording(
        [k EXCEPT !.stream = fd, !.io = fd # 0, !.shm = 0, !.asked = FALSE, !.failed = FALSE,
                  !.hup = FALSE, !.shut = FALSE, !.owed = FALSE, !.inbox = <<>>], control))

\* attach_fd, and detach_fd when fd is 0; unmap_shm is part of it.
AttachFd(k, fd, control) ==
    RequestShm(UpdateRecording(
        [k EXCEPT !.stream = fd, !.io = fd # 0, !.shm = 0, !.asked = FALSE, !.failed = FALSE,
                  !.frame = 0, !.hup = FALSE, !.shut = FALSE, !.owed = FALSE, !.inbox = <<>>],
        control))

\* create_node; ok: pw_stream_new made a node.
CreateNode(k, ok) ==
    IF k.node THEN k
    ELSE [k EXCEPT !.node = ok, !.streaming = FALSE, !.recording = FALSE]

DestroyNode(k) ==
    [k EXCEPT !.node = FALSE, !.io = FALSE, !.streaming = FALSE, !.recording = FALSE]

\* create_nodes: what it makes of camera i; a closed socket cannot be added.
CreateNodes(i, k, ok) ==
    IF i > num \/ k.node THEN k
    ELSE [CreateNode(k, ok) EXCEPT !.io = @ \/ (k.stream # 0 /\ ~k.shut)]

\* handle_stream_msg: an offered memory is mapped, or the offer is lost for
\* good; a frame is copied out of the mapped memory.
HandleStreamMsg(k, m) ==
    CASE m = "offer" -> [k EXCEPT !.shm = k.stream]
      [] m = "unmappable" -> [k EXCEPT !.shm = 0, !.failed = TRUE]
      [] m = "ready" -> [k EXCEPT !.frame = IF k.shm # 0 THEN k.shm ELSE @]

\* on_stream_readable: the messages q, first to last.
ReadAll(k, q) ==
    LET read[n \in 0 .. Len(q)] == IF n = 0 THEN k ELSE HandleStreamMsg(read[n - 1], q[n])
    IN  read[Len(q)]

\* on_process: whose picture the node shows, 0 for a grey one.
Shown(k) == IF k.frame # 0 /\ k.stream # 0 THEN k.frame ELSE 0

-----------------------------------------------------------------------------
(* The main thread, when it is not about to close what it handed over.     *)

\* What a build_pw() that fails or succeeds leaves, after a teardown_pw().
BuildPw ==
    /\ core' = IF server THEN "live" ELSE "null"
    /\ pwConnected' = server
    /\ armed' = ~server

CameraStart ==
    /\ running = "no" /\ served = 0
    /\ running' = "yes"
    /\ BuildPw
    /\ UNCHANGED <<server, ctrl, num, cam, served, handed>>

\* anland_camera_set_resources with n stream sockets.  It makes nodes whether
\* or not there is a core, and pw_stream_new does not survive a null core.
SetResources(n) ==
    /\ running = "yes" /\ served < CamConns /\ ~handed
    /\ served' = served + 1
    /\ IF core = "null" /\ \E i \in 1 .. n : ~cam[i].node
       THEN running' = "crashed" /\ UNCHANGED <<ctrl, num, cam, handed>>
       ELSE /\ ctrl' = served' /\ num' = n /\ handed' = TRUE
            /\ \E ok \in [Cams -> BOOLEAN] :
                  cam' = [i \in Cams |->
                    LET k == [cam[i] EXCEPT !.told = FALSE]
                    IN  IF i <= n THEN AttachFd(CreateNode(k, ok[i]), served', served')
                        ELSE IF i <= num THEN AttachFd(DestroyNode(k), 0, served')
                        ELSE k]
            /\ UNCHANGED running
    /\ UNCHANGED <<server, core, pwConnected, armed>>

\* handleResourceEvent goes on: it closes every descriptor of the hand-over,
\* the numbers that ctrl_fd and the stream_fd of the cameras hold.  The epoll
\* set drops the sockets, and their other ends are hung up.
HandOverCloses ==
    /\ running = "yes" /\ handed
    /\ handed' = FALSE
    /\ cam' = [i \in Cams |->
                 IF cam[i].stream = 0 THEN cam[i]
                 ELSE [cam[i] EXCEPT !.shut = TRUE, !.owed = FALSE, !.told = FALSE, !.inbox = <<>>]]
    /\ UNCHANGED <<server, running, core, pwConnected, armed, ctrl, num, served>>

\* anland_camera_clear: the consumer is gone.
CameraClear ==
    /\ running = "yes" /\ ~handed
    /\ ctrl' = 0
    /\ cam' = [i \in Cams |->
                 IF i <= num THEN AttachFd([cam[i] EXCEPT !.recording = FALSE, !.told = FALSE], 0, 0)
                 ELSE [cam[i] EXCEPT !.told = FALSE]]
    /\ UNCHANGED <<server, running, core, pwConnected, armed, num, served, handed>>

CameraStop ==
    /\ running = "yes" /\ served > 0 /\ ~handed
    /\ running' = "no" /\ core' = "null" /\ pwConnected' = FALSE /\ armed' = FALSE
    /\ ctrl' = 0 /\ num' = 0
    /\ cam' = [i \in Cams |-> NewCam]
    /\ UNCHANGED <<server, served, handed>>

-----------------------------------------------------------------------------
(* The loop thread.                                                        *)

\* on_stream_state_changed: an application starts or stops watching.
OnStreamStateChanged(i) ==
    /\ running = "yes" /\ cam[i].node
    /\ core = "live" \/ cam[i].streaming
    /\ cam' = [cam EXCEPT ![i] = UpdateRecording([@ EXCEPT !.streaming = ~cam[i].streaming], ctrl)]
    /\ UNCHANGED <<server, running, core, pwConnected, armed, ctrl, num, served, handed>>

\* on_stream_readable: reads all there is, and nothing from a hung up socket.
OnStreamReadable(i) ==
    /\ running = "yes" /\ cam[i].io /\ ~cam[i].hup /\ cam[i].inbox # <<>>
    /\ cam' = [cam EXCEPT ![i] = ReadAll([@ EXCEPT !.inbox = <<>>], @.inbox)]
    /\ UNCHANGED <<server, running, core, pwConnected, armed, ctrl, num, served, handed>>

\* on_core_error: the loop notices that the daemon is gone.
OnCoreError ==
    /\ running = "yes" /\ core = "broken" /\ pwConnected
    /\ pwConnected' = FALSE /\ armed' = TRUE
    /\ UNCHANGED <<server, running, core, ctrl, num, cam, served, handed>>

\* on_reconnect_timer: the core and every node anew (pw_connected is never set
\* while the timer is armed).
OnReconnectTimer ==
    /\ running = "yes" /\ armed
    /\ BuildPw
    /\ \E ok \in [Cams -> BOOLEAN] :
         cam' = [i \in Cams |->
                   IF server THEN CreateNodes(i, DestroyNode(cam[i]), ok[i])
                   ELSE DestroyNode(cam[i])]
    /\ UNCHANGED <<server, running, ctrl, num, served, handed>>

-----------------------------------------------------------------------------
(* The consumer and the PipeWire daemon.                                   *)

\* The consumer answers GET_SHM; the memory can be mapped or not.
Offer(i, m) ==
    /\ cam[i].owed /\ ~cam[i].hup /\ Len(cam[i].inbox) < CAMERA_SLOTS
    /\ m \in {"offer", "unmappable"}
    /\ cam' = [cam EXCEPT ![i].owed = FALSE, ![i].inbox = Append(@, m)]
    /\ UNCHANGED <<server, running, core, pwConnected, armed, ctrl, num, served, handed>>

\* The consumer has filmed a frame.
Filmed(i) ==
    /\ cam[i].told /\ cam[i].stream # 0 /\ ~cam[i].hup
    /\ ~cam[i].owed /\ Len(cam[i].inbox) < CAMERA_SLOTS
    /\ cam' = [cam EXCEPT ![i].inbox = Append(@, "ready")]
    /\ UNCHANGED <<server, running, core, pwConnected, armed, ctrl, num, served, handed>>

ConsumerHangsUp ==
    /\ ctrl # 0 /\ \E i \in Cams : cam[i].stream # 0 /\ ~cam[i].hup
    /\ cam' = [i \in Cams |-> [cam[i] EXCEPT !.hup = @ \/ cam[i].stream # 0]]
    /\ UNCHANGED <<server, running, core, pwConnected, armed, ctrl, num, served, handed>>

ServerDies ==
    /\ server
    /\ server' = FALSE
    /\ core' = IF core = "live" THEN "broken" ELSE core
    /\ UNCHANGED <<running, pwConnected, armed, ctrl, num, cam, served, handed>>

ServerStarts ==
    /\ ~server
    /\ server' = TRUE
    /\ UNCHANGED <<running, core, pwConnected, armed, ctrl, num, cam, served, handed>>

-----------------------------------------------------------------------------
CameraInit ==
    /\ server \in BOOLEAN /\ running = "no" /\ core = "null"
    /\ pwConnected = FALSE /\ armed = FALSE
    /\ ctrl = 0 /\ num = 0 /\ served = 0 /\ handed = FALSE
    /\ cam = [i \in Cams |-> NewCam]

CameraNext ==
    \/ CameraStart \/ CameraClear \/ CameraStop
    \/ \E n \in 0 .. MAX_CAMERAS : SetResources(n)
    \/ HandOverCloses
    \/ OnCoreError \/ OnReconnectTimer
    \/ ConsumerHangsUp \/ ServerDies \/ ServerStarts
    \/ \E i \in Cams :
         \/ OnStreamStateChanged(i) \/ OnStreamReadable(i) \/ Filmed(i)
         \/ \E m \in {"offer", "unmappable"} : Offer(i, m)

\* The main thread goes on, the loop thread serves what is ready, and the
\* consumer answers.
CameraFairness ==
    /\ WF_camVars(HandOverCloses)
    /\ WF_camVars(OnCoreError) /\ WF_camVars(OnReconnectTimer)
    /\ \A i \in Cams : WF_camVars(OnStreamReadable(i))
    /\ \A i \in Cams : WF_camVars(Offer(i, "offer"))

CameraSpec == CameraInit /\ [][CameraNext]_camVars /\ CameraFairness

-----------------------------------------------------------------------------
(* Properties.                                                             *)

\* What a node shows was filmed by the consumer that is attached now, though
\* nodes, streams and memory come and go independently (attach_fd, on_process).
ShownIsCurrent ==
    \A i \in Cams : Shown(cam[i]) \in {0, cam[i].stream} /\ cam[i].shm \in {0, cam[i].stream}

\* What the list in AnlandBackend.hpp says the backend provides, "Camera
\* (PipeWire virtual devices)": a camera that records gets the memory its frames
\* come through, unless it stops, its consumer goes, or the memory cannot be
\* mapped.  It does not: handleResourceEvent closes the sockets of the request
\* and of the answer.
ShmArrives ==
    \A i \in Cams :
        cam[i].recording ~> cam[i].shm # 0 \/ ~cam[i].recording \/ cam[i].hup
                            \/ cam[i].failed \/ running = "crashed"
=============================================================================
