# Aquamarine in TLA+

Aquamarine is the rendering backend library of the Hyprland compositor: it
finds displays (through DRM/KMS, a parent Wayland compositor, an Android
consumer called Anland, or none at all), hands out buffers, shows what the
compositor (below: the *consumer* of a DRM output, or the *user*) commits, and
tells it when to draw.  This directory holds TLA+ models of its parts, the TLC
runs that check them and the TLAPS proofs about them.  `PROJECT.json` lists
components, runs, hazards, findings and theorems, and maps every definition to
the lines it models.

Contents: [inventory](#inventory), [modules](#modules), [runs](#runs),
[bounds](#bounds), [fairness](#fairness), [proofs](#proofs),
[findings](#findings), [hazards without a property](#hazards-without-a-property),
[not modelled](#what-is-not-modelled), [plan](#plan).

## Inventory

The library is one thread, driven by the compositor's event loop, plus
PipeWire's threads in the Anland audio and camera services.  Components call
each other directly; they call the compositor through signals
(`events.frame.emit()` and the like), and it may call back into the library
from inside a signal.  The kernel, libseat, libinput, udev, PipeWire, a parent
Wayland compositor, the Anland daemon and the Anland consumer run concurrently.

| Component | State | Operations | What makes it correct |
|---|---|---|---|
| DRM frame loop (`DRM.cpp`, `Atomic.cpp`, `Legacy.cpp`) | staged output state; `isPageFlipPending`, `isFrameRunning`, `frameEventScheduled`, `commitTainted`, `lastCommitNoBuffer`, `enabledState`; front/back/last framebuffers; buffer locks | stage, commit, test, retry with a modeset, flip event, schedule a frame, VT switch, plug and unplug | one flip at a time; a raised flag always gets lowered; a buffer on screen is not released; requested frames come |
| DRM connectors and CRTCs (`DRM.cpp`) | connector list; status, CRTC, output and tiling flag of each | `recheckOutputs`: scan, mark tiles, disconnect, assign CRTCs, connect | no shared CRTC; no output starved; no picture moved by another monitor's hotplug; one output per tiled monitor |
| DRM cursor plane, leases, multi-GPU blit, atomic property blobs | pending cursor, lessee ids, blit swapchains, blob ids | `setCursor`, `moveCursor`, lease and revoke, blit, prepare/apply/rollback | locks and blobs are released exactly once |
| Idle events (`Backend.cpp`) and headless outputs (`Headless.cpp`) | queue of callbacks, timerfd; timers, `frameScheduled` | add, remove, dispatch; schedule, fire, destroy | no lost wakeup; one frame for each request; removed callbacks not called |
| Backend start (`Backend.cpp`, `DRM.cpp`, `Session.cpp`) | requested backends, implementations, GPUs of the session, allocator, ready flag, polled fds | create, wait for the seat, scan GPUs, start, udev add/change/remove | a mandatory backend that fails stops the start; session, implementations and polled fds agree; a primary renders for itself |
| Session input (`Session.cpp`) | libinput devices, tablet tools, seat | open, enable and disable the seat, device events, input events | what sends events was announced; a button held down is known to be |
| Swapchain (`Swapchain.cpp`) | options, ring of buffers, last index | `reconfigure`, `next`, `rollback` | the ring matches its options, also after failures; rollback undoes next |
| Allocators (`GBM.cpp`, `DRMDumb.cpp`) | buffers, their fds | acquire, destroy | a modifier that plane and renderer share; fds closed exactly once |
| Anland link (`AnlandBackend.cpp`, `display_producer.c`) | producer context and sockets, fallback flags, reconnect timer, polled fds | start, connect, fall back, reconnect, dispatch, shut down | the flags agree; every loss is noticed; a consumer that stays is found |
| Anland output and buffers (`AnlandOutput.cpp`, `AnlandBuffer.cpp`) | slots, DMA-BUF cache, fds; `m_frameScheduled`, `m_framePending`, slot mutexes, idle callbacks | import, commit, schedule, buffer ready, fall back | each fd has one owner; no self-deadlock; no flag stays raised |
| Anland audio and camera (`anland_audio.c`, `anland_camera.c`) | PipeWire connection and streams, formats, the sample ring; nodes, sockets, shared memory | start, stop, set fds, format, reconnect | the right format; no stale picture; memory for every camera that records; the ring's fill is bounded again after lost updates |
| Anland input (`display_producer.c`, `socket_utils.c`, `AnlandBackend.cpp`) | the data socket's stream, clipboard | poll an event, read what follows it | every event is handled; the clipboard is that of the last event |
| Wayland backend (`Wayland.cpp`) | outputs, `frameScheduled`, frame callbacks, `idleCallbacks` | schedule, commit, configure, close, frame done, dispatch | as for the DRM frame loop |
| Output state, buffers, attachments, utilities, Null backend | plain data | setters | - |

What is hard here: flip events that race commits, VT switches and hotplug;
signals in whose middle the compositor re-enters the output; flags that outlive
the object that raised them; allocation, commits and handshakes that fail
half-way; descriptor numbers closed twice; peers that die at any moment; a
thread that reads without the lock; everything that must eventually happen
although it hangs on one flag.

## Modules

| Module | Models | Checked in |
|---|---|---|
| `DrmOutput` | one connector, its output and the kernel's side of its CRTC | `MCDrmOutput`, three configurations, and undisturbed in `MCDrmResources`; proofs in `DrmOutputProofs` |
| `DrmCrtc` | the connectors of one GPU and their CRTCs | `MCDrmResources`, `MCDrmCrtc`; proofs in `DrmResourceProofs` |
| `Swapchain` | `CSwapchain` | `MCDrmResources`; proofs in `DrmResourceProofs` |
| `Gbm` | `CGBMAllocator`, `CDRMDumbAllocator` and the buffers they make | `MCDrmResources`; proofs in `DrmResourceProofs` |
| `BackendStart` | `CBackend::create` and `start`, the GPUs of the session, udev | `MCDrmResources`, `MCBackendStart`; proofs in `DrmResourceProofs` |
| `SessionInput` | libinput devices and their events in `CSession` | `MCDrmResources` (constants in `MCSessionInput`); proofs in `SessionInputProofs` |
| `Lists` | erasing from lists and searching them | through the modules that use it |
| `IdleLoop` | `CBackend`'s idle events | through `FrameLoop` |
| `FrameLoop` | DRM and headless outputs on top of the idle queue and timers | `MCEventLoop`, `MCFrameLoop`; proofs in `FrameLoopProofs` |
| `FrameClock` | abstract: what `scheduleFrame` promises | `FrameLoop` implements it (`IsFrameClock`) |
| `WaylandOutput` | the nested outputs of `CWaylandBackend` | `MCEventLoop`; proofs in `FrameLoopProofs` |
| `AnlandLink` | the Anland backend's link to its consumer | `MCEventLoop`; proofs in `AnlandLinkProofs` |
| `AnlandBuffers` | slots, cache and context of the Anland output: who owns which fd | `MCAnlandBuffers`, and through `AnlandOutput`; proofs in `AnlandOutputProofs` |
| `AnlandOutput` | the Anland frame loop on top of its buffers | `MCAnlandOutput`; proofs in `AnlandOutputProofs` |
| `AnlandCamera`, `AnlandAudio`, `AnlandRing`, `AnlandInput` | what the link carries besides pictures | `MCAnlandServices`, the camera also in `MCAnlandCamera`; proofs, but for the input, in `AnlandServicesProofs` |
| `Basics` | lemmas on numbers and lists that the proofs share | - |

`MCDrmResources`, `MCEventLoop` and `MCAnlandServices` each check several
modules that share no state: `part` says which of them moves in a behaviour,
and the others stay in one initial state.  That is a sum, not a product, of
their state spaces; every behaviour of every module is there.

Operators whose name has a suffix (`HandlePF_KeepsPending`) are deliberately
wrong variants of the definition that follows them.  They are used by no
specification: putting one in place of its original shows that a property
notices the mistake.

**DrmOutput.**  The variables carry the names of the fields they model.  A
commit is one action with three outcomes: `CommitAccepted`, `CommitRetried`
(the driver refused, the modeset that `commitState` tries next succeeded) and
`CommitRefused`.  Each includes the kernel call, `applyCommit`, `onCommit` and,
for a tearing commit, the `onPresent` at the end of `commitState`.
`handlePF` is cut at its two signals (`HandlePF`, `PresentReturns`,
`FrameReturns`) because the consumer runs in between: `handler` says which
signal is being emitted.  Checks that refuse a commit without touching any
state (no mode, no format, a dead framebuffer) are stuttering steps.  Of the
staged state only the buffer, whether it was committed, `enabled`, and whether
any bit is set that calls for a modeset are kept.  The kernel (`kms`) accepts
and applies commits as the atomic API documents and may refuse at will if
`Refusals` says so.  `needsFrame` is only written by the library and is left
out, and so are the legacy implementation's differences: it too raises
`isPageFlipPending` with the flip it asks for.  The present event inside a
tearing commit, and the commit event, are not places where the modelled
consumer runs.  Four constants narrow what the environment does.  `Tearing`,
`Hotplug` and `VtSwitch` switch those features on.  `RequestInFrame` lets the
consumer ask for another frame inside a flip's frame event without having
committed, and `BusyPresent` lets listeners of the present event commit; the
liveness run excludes both, because the code loses the request in the first
case and may leave `isFrameRunning` raised in the second (both are hazards).

**DrmCrtc.**  `recheckOutputs` is one action, a composition of functions, one
per phase; the loop over CRTC slots is the recursive function in
`RecheckCRTCs`, one round of it is `AssignSlot`.  `got` and `still` are the connectors that the kernel agrees
to describe during the scan and during the connects.

**Swapchain and Gbm.**  `reconfigure` is one action per way it can go; a
failing allocator may stop a growth anywhere.  `given` and `undone` are history
variables for the property on `rollback`.  In `Gbm` a format table is a
function from formats to modifiers; acquiring goes through the code's chain of
explicit modifiers, linear, and implicit allocation, each of which gbm may
refuse, and exports one fd for each plane into the process's table, where the
rest of the process opens and closes files too.

**BackendStart.**  `stage` walks through `create` (one step for each requested
backend; the wait for the seat is a step in which udev is already dispatched),
`start` (implementations start, fail, or end the process) and `ready`.  A
device is a card with an open number, so that one card opened twice is two
devices.  Which GPU comes first (AQ_DRM_DEVICES, builtin panels, boot_vga,
udev's order) is computed as `scanGPUs` does.  From then on udev events that
wait in the monitor are received one at a time.  Use after free
(`gpuRemove`) and null dereferences (`initMgpu`) are steps after which the
process may be gone.

**SessionInput.**  libinput's queue is a sequence of events; each handler of
`handleLibinputEvent` is an action, told apart by what it does to state: the
device list, the tools, the switch's state, the button count of the seat.
`early` remembers that libinput was dispatched while `create` waited for the
seat.

**IdleLoop, FrameLoop and FrameClock.**  `dispatchIdle` is cut at each
callback.  `FrameLoop` adds the outputs: a DRM output's `frameIdle` and a
headless output's `framecb`, which comes through the queue or a timer; the
user asks for frames and destroys outputs in between and inside.  `FrameClock` is
what all this is for: a request is answered by one frame, there is none unasked
and none of an output that is gone, and every request is answered.  The
mapping takes `alive` for the open outputs and those with `frameScheduled` for
the asked ones; `frames` counts frames modulo two.

**WaylandOutput.**  The handlers emit several events, and the user runs in each,
so what is left of the running handler is the sequence `steps`.
`dispatchEvents` calls the idle callbacks in order and clears the list.

**AnlandLink.**  `tryConnect` is cut at its attempts and at the request for
camera resources, the points where the death of a peer makes a difference;
`raced` remembers a consumer that died between its handshake and that request.
`poll` holds the reconnect timer and what the compositor was told to poll.

**AnlandBuffers and AnlandOutput.**  The descriptor table is a function from
numbers to files, and the kernel hands out the lowest free number, so closing
a number twice closes whoever has it now.  `AnlandOutput` extends it with the
frame loop: `calls` is the stack of calls in progress, because listeners call
`scheduleFrame` from inside `commit` and `scheduleFrame` emits events itself.
The mutex of the slot that `commit` holds while its listeners run is a variable.
Three ways of connecting are told apart: `TryExitFallback`, whose `exitFallback`
imports the buffers; `ConnectAndLose`, a consumer that dies in its handshake; and
`Reconnect` (in the output `ConnectAgain`), the consumer that comes after that if
it was `start()` that lost the first one, and whose buffers are left to the next
commit (`Imported`).  `start()` and the timer's handler are not told apart, so
`Reconnect` is allowed after either.

**The services.**  `AnlandCamera` and `AnlandAudio` have one action for each
PipeWire callback and each call of the main thread; both run under the loop's
lock.  In `AnlandRing` the loads and stores of
`ring_fill`, which both sides change, are steps of their own, since
`on_source_process` runs in PipeWire's data thread without that lock, and
`size_t` wraps at `FillMod`.  The tail is not treated so: the writer's drop
changes it together with the fill, the reader's copy moves it in one step.  `AnlandInput` is the byte stream of the
data socket, cut into events and halves of payloads, and the five-second and
the unlimited waits for them; `last`, `hooked` and `clip` are the clipboard's last
text, its callback, and what that was called with.  `handleResourceEvent` hands
descriptors to the camera service and then closes them: `HandOverCloses` is
that close, which the loop's thread may come before, and after which nothing
is sent or read on the sockets (`shut`).

## Runs

| Run | Shows |
|---|---|
| `drm_full` | with everything switched on: `FlipEventOwed` (a pending flip has its event on the way) and `ScheduledIsQueued` (a scheduled frame is in the idle queue) |
| `drm_live` | everything but `RequestInFrame` and `BusyPresent`, under fairness: `FrameRunningEnds`, `FlipServed`, `FrameServed` |
| `drm_resources` | an output without tearing, hotplug, VT switch, or refusal cured by a modeset: `OneFlip` and `ScanoutLocked`; CRTCs: `NoOutputStarved`, `OneOutputPerTiledMonitor`, `CrtcStable`; the ring: `RingAsConfigured`, `RollbackUndoesNext`; the allocator: `GbmFdsOwned`, `ScanoutIsRenderable`; GPUs: `GpusTracked`, `PrimaryRendersItself`; input: `KnownIsTold`, `SeatButtonAgrees` |
| `event_loop` | the idle queue: `NoLostWakeup`, and `IsFrameClock`, the refinement; Wayland: `WlScheduledIsPending`, `WlWaitingServed`; the Anland link: `FallbackAgrees`, `TimerInFallback`, `OutputFollows`, `LossNoticed`, `Reconnects` |
| `anland_output` | `NoSelfDeadlock`, `FrameFlagIsQueued`, `PendingEnds`; descriptors: `SlotIsItsDmabuf`, `NoForeignClose`, `ShutdownClosesAll` |
| `anland_services` | camera: `ShownIsCurrent`; audio: `StreamsFollowFormat`; ring: `RingIsFifo` (a FIFO without races), `RingHeals` (the fill is bounded again after them); input: `ClipboardFollows`, `InputFlows` |
| `drm_tearing` | violated: `ReleasedIsGone` |
| `crtc_shared` | violated: `NoSharedCrtc` |
| `backend_mandatory` | violated: `MandatoryIsThere` |
| `idle_remove` | violated: `RemovedNotCalled` |
| `anland_stale` | violated: `WrapsDmabuf` |
| `camera_closed` | violated: `ShmArrives` |

Some properties are restricted on purpose, to what the code does guarantee:

- `ScanoutLocked` fails with tearing (`drm_tearing`), with a refused commit
  that is retried as a modeset (the retry asks for a flip event even without a
  new buffer, and the rotation releases the buffer that stays on screen), and
  after a VT switch, where `restoreAfterVT` shows whatever is staged;
- `TimerInFallback`, `OutputFollows` and `Reconnects` fail once a consumer has
  died between its handshake and the camera request (`raced`): the backend is
  in fallback again before `tryConnect` returns true, and the timer's handler
  then takes the reconnect timer down.  `Reconnects` also excludes a restarted
  daemon, whose control socket is never reopened;
- `IsFrameClock` is checked with `DestroyQueued = FALSE`: a headless output
  destroyed while its callback is queued, or a DRM output while its callback is
  in the batch, still gives a frame (`idle_remove` shows the second);
- `WlScheduledIsPending` is checked with `BusyIdle = FALSE`: what a user
  queues for other outputs while the idle callbacks run is cleared unseen;
- `KnownIsTold` excepts sessions in which libinput was dispatched during the wait
  for the seat (`early`): devices made then are never announced;
- `NoSelfDeadlock` is checked with listeners that ask for frames in frame
  events; one that asks in the present event of a commit deadlocks;
- `SlotIsItsDmabuf` and `NoForeignClose` are stated while the first consumer
  stays and the descriptor table has room, since the next connection closes
  numbers twice (`anland_stale`);
- `RingIsFifo` says nothing once a reader has overlapped a writer or a reset;
  then only the fill is known to recover (`RingHeals`), not the distance between
  tail and head, which is right again only after `set_fd`;
- `ClipboardFollows` allows a clipboard that was never set: a text that comes
  before the callback is registered is dropped, and skipped if it is repeated;
- `InputFlows` excepts a payload that comes after the five seconds.

`Reconnect` stands for one consumer only: one that dies in its own handshake, after
another did in the handshake of `start()`, is left out.

To run one: `tlc -config MCDrmOutput_full.cfg MCDrmOutput`; to check the
proofs: `tlapm DrmOutputProofs.tla`, and so on for each module whose name ends in
`Proofs`, and for `Basics`.

## Bounds

Every run is exhaustive within its bounds.

- DRM frame loop: two or three buffers, one on screen, one queued, one to draw
  in.  Nothing tells buffers apart, so they are symmetric in `drm_full`.
  `MaxEvents = 2`: the code keeps to one flip, two leave room to see it fail.
- CRTCs: three connectors and two CRTCs, with two tiles and a CRTC left by the
  firmware: each rule of the assignment decides something.
- Rings of up to three buffers, two sizes, two formats; two GBM buffers, two
  descriptors and two format tables that have one modifier of one format in common.
- GPUs: the two of a laptop, one with the panel, and a USB adapter driven by
  evdi; four lists of requests; `MaxUdev = 2` events waiting, so that one
  overtakes the dispatch of another.  Input: two pointers, one of them with
  keys and a lid, and a tablet with two tools; `MaxInput = 2`.
- Idle callbacks: three, one that runs, one in the batch, one queued; one
  belongs to a DRM output, two to headless ones.  Two Wayland outputs;
  `MaxIdle = 2`, since a configure may put an output on the list twice.
- Anland: `Attempts = 3` in place of 100: first, middle and last.  Two
  consumers one after the other, two buffers each, five or six descriptors;
  `MaxCalls = 3` calls of the compositor in a turn of the event loop, two
  refreshes on the fence socket.  Two cameras, two consumers (one of each for
  `ShmArrives`); three sampling rates;
  a ring of two samples and messages of up to three (more than it holds);
  two events on each of two connections.

## Fairness

Weak fairness, only on what the code or the hardware does by itself: the
display completes queued flips, timers expire, listeners return, calls in
progress go on, the event loop dispatches what it polls, PipeWire's loop runs.  Three
places need strong fairness, because an event loop that serves one fd while
another is readable comes back to the other: the idle timer and the timers of
`FrameLoop`, the host's answers in `WaylandOutput` (they are dispatched between
other handlers) and the two sources of `AnlandOutput`.  Of peers it is assumed
that a consumer shows a refresh it received, that it sends the rest of what it
began, and that it answers a camera's request for memory, each of them unless
it dies; those are the cases the properties except.  Nothing is assumed of
commits, requests, the user, the session, hotplug or reconnects.

In `MCEventLoop` the Anland link's fairness is
`WF_vars(part = "anland" /\ Backend)`: the backend's steps are owed only in the
behaviours in which it moves.

## Proofs

`DrmOutputProofs` proves, for every set of buffers, every room for events and
every setting of the constants:

- `TypeCorrect`, `PendingFlipHasEvent`, `ScheduledFrameIsQueued`, from the
  inductive invariant `AnyInv`.  Beyond the three it needs `EventRoom`: queued
  and unread flips fit on the fd, which is why an accepted flip keeps the
  event count in its type;
- `OneFlipAtATime` and `ScreenStaysLocked`, assuming `Steady` (what `drm_resources`
  assumes, but with a consumer that may call back from any event), from
  `SteadyInv`.  `OneFlip` and `ScanoutLocked` are not inductive alone: what
  `onPresent` releases is right because of where the buffers are
  (`BufferPlaces`: the kernel shows or has queued `back`; `front` differs from
  `back` while a flip is pending; a staged buffer is not locked), and the
  second attempt of a commit never runs because of what the last commit left
  staged (`CommittedState`, used in the lemma `NoRetry`).

`AnlandLinkProofs` proves, for any number of attempts:

- `LinkTypeCorrect` and `BackendFollowsProducer`, from `LinkInv`: the flags
  agree everywhere outside the two places of `tryConnect` that change them,
  and the context keeps its callback (`CallbackKept`), without which only the
  first loss would be noticed;
- `TimerRunsInFallback` and `OutputFollowsBackend`, until a consumer dies in its
  handshake, from `TimerInv`: while connecting for the timer the timer is armed
  and polled, at rest it is exactly in fallback.

`DrmOutputProofs` also proves `RunningFrameEnds`, assuming `~BusyPresent`, from
`RunningInv`: `isFrameRunning` is raised only while the frame event is emitted, or
the present event of an output that will get its frame event.

`DrmResourceProofs`, for any connectors, CRTCs, tiles, cards and requests:

- `OutputsNeverStarve`, `TiledMonitorsHaveOneOutput` and the action property
  `CrtcsStay`.  What holds after each slot of `recheckCRTCs` (`AfterSlot`: only
  connectors that need a CRTC have changed, and one that still waits finds
  every slot so far that it could use taken) is proved by induction over the slots; the
  properties follow from the phases of `recheckOutputs` in their order;
- `GpusStayTracked` and `PrimariesStay`, from `BackendInv`.
  `PrimaryRendersItself` is not inductive: a plugged GPU takes the first DRM
  implementation for its primary, which is right because every secondary comes
  after its primary in the list (`PrimariesFirst`), so that the first has none.

It also proves, for any length, sizes, formats, tables and descriptors:

- `RingStaysConfigured` and `RollbackRestores`, from `SwapchainInv`, which adds
  where `next` left the ring (`HandedOut`);
- `FdsStayOwned` and `ScanoutStaysRenderable`, from `GbmInv`; that there are
  enough lowest free descriptors is an induction over their number.

`FrameLoopProofs`, for any number of outputs:

- `NoWakeupIsLost`, from the types of the queue;
- `LoopIsFrameClock`, assuming `~DestroyQueued`: `FrameLoop` implements the safety
  part of `FrameClock`, every step being a step of it or a stutter.  It needs
  `OnceInv` (a callback is in one place at most of queue, batch, timers and
  timers taken out, and only while `frameScheduled` is raised) and `AliveInv`
  (what is queued belongs to an output that exists);
- `NestedFramesStayPending`, assuming `~BusyIdle`, from `WlInv`, which says of every
  step of every handler what `WlScheduledIsPending` says of the event loop:
  the rest of a handler has one of a few shapes (`WlShape`); a raised flag has
  something that lowers it in that rest, in the host's answer or in the part of the
  idle callbacks still to be called (`Pend`); and `onFrameDone` lowers
  `frameScheduledWhileWaiting` only when no request depends on it (`Answering`).

`AnlandOutputProofs`, for calls of any depth, assuming that only listeners of the
frame event ask for frames (`SchedulesIn \subseteq {"frame"}`):
`NeverSelfDeadlocked` and `FlagNeverForgotten`, from `LoopInv`.  Neither is
inductive: both need the shape of the stack of calls (`StackInv`: while
`commit` runs there is one end of a commit on it, and only events of that commit
above), and the flag the call on the stack that is about to queue its callback
(`FlagInv`).

It also proves, for any number of buffers and consumers and a descriptor table of
any size, of `AnlandBuffers`:

- `ShutdownForgetsNothing` and `CacheNeverAnswers`, from `BufferInv`: every open
  descriptor of a DMA-BUF is that of the staged buffer, of the cache or of a slot,
  whoever closed which number before, and only slot 0 can be left without a buffer.
  The second is why: `importBuffer` closes the daemon's descriptor even when it
  fails, which makes room for the slots after it (`Imports`).  So a commit imports
  at most slot 0, with an empty cache, besides the whole connection that
  `exitFallback` could not import: until that commit its buffers are the context's
  (`LateInv`), and what the import leaves is what `exitFallback` leaves
  (`WorldInv`);
- `SlotsKeepTheirDmabufs` and `ForeignFilesStayOpen`, assuming
  `NumFds >= MAX_BUFS + 2 + MaxOthers`, the room that the first consumer needs,
  from `FirstInv`.  Neither is inductive: a commit closes nothing because every
  announced slot is imported and the staged buffer is that of a slot, and the
  import closes only the daemon's numbers because before the first consumer the
  table holds nothing but the files of the rest of the process;
- `LoopKeepsBufferSpec`: every step of `AnlandOutput` is a step of
  `AnlandBuffers` or leaves it alone, so all four hold of the output as well.

`SessionInputProofs`, for any devices, tools and users and a queue of any length:
`DevicesStayTold` and `ButtonFollowsPointers`, from `InputInv`.  libinput is ahead of the
session by the events that wait, so the invariant is about these: read in order they
lead from what the session knows, and the button it told of, to the devices and
held buttons of libinput (`QueueInv`).  Handlers take the first step of that path;
plugging, users and the seat add steps at its end, a suspended libinput as many as it
has devices and held buttons (`AllGonePath`).

`AnlandServicesProofs`, for any formats, ring, messages, cameras and consumers:

- `StreamsKeepFormat`, from `AudioInv`;
- `RingAlwaysHeals`, from `HealInv`, and `RingStaysFifo`, from `FifoInv`, which
  follow the counters through each step of reader and writer; the wrap-around of
  `size_t` is dealt with by the lemmas on remainders in `Basics`;
- `ShownStaysCurrent`, from `CameraInv`: a camera's memory and its last frame are
  none, or those of the consumer attached to it.

The assumptions are the named `ASSUME`s of the component modules, which TLC
evaluates in the runs, and the hypotheses named above; each of these excludes
a use for which the code breaks the property (see [runs](#runs)).

Induction over data is done with the lemma `UpTo` of `Basics`, about sets of
numbers.  That a function defined by recursion exists, and so is what its equations
say, is the lemma `Recursion` of `Basics`, from which `KeepStep`, `AllGoneStep`,
`ReceivedStep` and `ImportStep` unfold the models' recursive functions; operators
declared RECURSIVE occur in no module with a theorem.

Only model-checked is liveness (`FlipServed`, `FrameServed`, `WlWaitingServed`,
`LossNoticed`, `Reconnects`, `PendingEnds`, `InputFlows`, and the liveness half of
`IsFrameClock`): fairness and ENABLED are beyond the installed provers.  So is
`ClipboardFollows`, for which there is no proof yet.  Every other invariant and
every action property that a passing run checks is stated by a theorem.

## Findings

1. **Tearing commits rotate twice** (`drm_tearing`).  An asynchronous flip
   asks for a flip event and also calls `onPresent` at once; `handlePF` calls
   it again.  The buffer on screen becomes `last` and is released.
2. **Two outputs on one CRTC** (`crtc_shared`).  An unplugged connector keeps
   its CRTC.  It is given to another connector, and the first one, plugged in
   again, is skipped by `recheckCRTCs` since it "has crtc and is connected".
3. **A removed idle callback is called** (`idle_remove`) if it is in the batch
   that `dispatchIdle` has copied.
4. **A mandatory backend may be missing** (`backend_mandatory`).  `create`
   skips a DRM backend that fails without looking at its mode, and adds a
   headless one if nothing is left.
5. **A slot wraps a file that is no buffer** (`anland_stale`).  `importBuffer`
   closes the context's descriptor, the context closes the number again, and
   by then it belongs to somebody else.
6. **No camera ever gets its memory** (`camera_closed`).  `handleResourceEvent`
   closes the descriptors that it handed to `anland_camera_set_resources`, which
   keeps the same numbers without duplicating them: the request for memory and its
   answer go to closed sockets.  `ShownIsCurrent` does not depend on this, since
   it also holds while the sockets are open.

## Hazards without a property

`PROJECT.json` lists the hazards that matter most.  These are real as well,
and no property covers them; most are visible in the models.

- `DRM.cpp:447`, `:1729`, `:2044`, `:2050`, `:1758`: `restoreAfterVT` shows what is
  staged without locking it; disabling an output with a flip pending leaves its
  buffer locked; a test may taint later commits; what a commit listener stages
  is dropped; a failed commit applies the cursor's framebuffer.
- `Atomic.cpp:334`: mode blobs that do not end up in the request are not destroyed.
- `Swapchain.cpp:71`, `:34`: a ring cleared with a length; formats mixed by a
  reconfigure without one.  `GBM.cpp:287`, `:149`, `:75`: a buffer without fds
  is "good"; a format is compared with a modifier; the kind of a buffer comes
  from the options it replaces.  `DRMDumb.cpp:74`: the prime fd is never closed.
- `DRM.cpp:819`, `:609`: `this` is used after the listener's owner is erased; a
  null allocator is dereferenced if the node could not be reopened.
  `Session.cpp:350`: a GPU added during the wait for the seat is registered
  twice.  `Session.cpp:684`: lid and tablet mode share one state.
- `Headless.cpp:81`, `:92`, `:77`: a queued callback and a timer use an output
  that is gone; a refresh rate of zero.  `Wayland.cpp:648`, `:153`, `:248`: a
  request made inside a frame event is forgotten; a destroyed output is
  announced; `focusedOutput` is read before it is checked.
- `AnlandBackend.cpp:261`, `:313`, `:144`, `:524`, `:180`: a closed timer
  is polled; a late consumer brings no `newOutput`; ten seconds of attempts
  block the loop; a clipboard set before its callback is lost; held keys are not
  released.
  `AnlandOutput.cpp:287`, `:777`: the cache would hand a slot another slot's
  buffer, if another thread took the last free descriptor in the middle of
  `importBuffers` (`CacheNeverAnswers`: not otherwise); idle callbacks outlive
  their owner.
- `anland_camera.c:149`, `:412`, `:280`: no START_RECORD for a new control
  socket; a node on a null core; a hung-up socket keeps the loop spinning.
  `display_producer.c:66`: the audio fd is closed while it is polled.

## What is not modelled

Parsing and conversion without state (EDID, hwdata, `Props.cpp`, `Math.cpp`,
format names), the GL renderer (`Renderer.cpp`: EGL and GL calls whose effect
is a picture), logging, the attachments and input interfaces, the
Wayland backend's pointers, keyboards and cursor, the values that input events
carry, and `CAnlandAllocator`, which nothing creates.  The cursor plane, leases
and property blobs are planned.  Times are not modelled anywhere: a timer is
something that may expire.

## Plan

1. `DrmCursor` (pending cursor, failed commits) and `AtomicBlobs` (creation,
   apply, rollback), leases, and a composition of `DrmOutput` with `Swapchain`
   and `Gbm` in which a leaked lock costs the consumer a buffer.
2. `DrmOutput` and `WaylandOutput` against `FrameClock`, with the exceptions
   they need.
