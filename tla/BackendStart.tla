---------------------------- MODULE BackendStart ----------------------------
(***************************************************************************)
(* How the list of implementations of a CBackend comes about and changes:  *)
(* CBackend::create (the requests, the session, the five-second wait for   *)
(* the seat, scanGPUs), CBackend::start (failures, the allocator, ready)   *)
(* and, from then on, the GPUs that udev reports as added, changed or      *)
(* removed.  The seat, the kernel's cards and the caller are external.     *)
(***************************************************************************)
EXTENDS Naturals, Sequences, SequencesExt, FiniteSets, Lists

CONSTANTS
    CardList,       \* the GPUs in the order udev enumerates them
    Panels,         \* per GPU: how many builtin panels are connected
    BootVga,        \* GPUs with the boot_vga attribute
    Evdi,           \* GPUs driven by evdi, which never have a primary
    DeviceLists,    \* the values of AQ_DRM_DEVICES: lists of GPUs, <<>> when it is unset
    RequestLists,   \* the lists of backends a caller may request
    AnlandEnvs,     \* whether ANLAND=1 may be set: a set of Booleans
    MaxUdev         \* bound: udev events waiting in the monitor

Cards == Range(CardList)
Types == {"drm", "wayland", "headless", "null", "anland"}
Modes == {"mandatory", "available", "fallback"}
Request(type, mode) == [type |-> type, mode |-> mode]

ASSUME BackendAssumption ==
    /\ CardList \in Seq(Cards) /\ IsInjective(CardList)
    /\ Panels \in [Cards -> Nat]
    /\ BootVga \subseteq Cards /\ Evdi \subseteq Cards
    /\ \A l \in DeviceLists : l \in Seq(Cards) /\ IsInjective(l)
    /\ \A q \in RequestLists : q # <<>> /\ q \in Seq([type : Types, mode : Modes])
    /\ AnlandEnvs \subseteq BOOLEAN
    /\ MaxUdev \in Nat

VARIABLES
    stage,      \* "create", "start", "starting" up to onReady, "ready", "failed", "crashed"
    requests,   \* implementationOptions: what the caller asked for
    toCreate,   \* what is left of effectiveBackends
    hasSession, \* session
    seat,       \* session->active: "inactive", "active", or "waking" in the round of the
                \* wait that finds the seat enabled
    impls,      \* implementations, in their order
    gpus,       \* the GPUs among session->sessionDevices, in their order
    allocator,  \* primaryAllocator is set
    polled,     \* the implementations whose fds the caller polls
    present,    \* the kernel: the cards that exist
    udev        \* the udev monitor: events not received yet

startVars == <<stage, requests, toCreate, hasSession, seat, impls, gpus, allocator, polled>>
gpuVars == <<startVars, present, udev>>

\* A CSessionDevice is an open card: num tells two openings of a card apart.
Device == [card : Cards, num : Nat]
NoDevice == [card |-> "none", num |-> 0]

Impl(type) == [type |-> type, dev |-> NoDevice, primary |-> NoDevice]
DrmImpl(dev, primary) == [type |-> "drm", dev |-> dev, primary |-> primary]

BackendTypeOK ==
    /\ stage \in {"create", "start", "starting", "ready", "failed", "crashed"}
    /\ requests \in RequestLists
    /\ toCreate \in Seq([type : Types, mode : Modes])
    /\ hasSession \in BOOLEAN /\ allocator \in BOOLEAN
    /\ seat \in {"inactive", "waking", "active"}
    /\ impls \in Seq([type : Types, dev : Device \cup {NoDevice}, primary : Device \cup {NoDevice}])
    /\ gpus \in Seq(Device)
    /\ polled \subseteq [type : Types, dev : Device \cup {NoDevice}]
    /\ present \subseteq Cards
    /\ udev \in Seq([card : Cards, action : {"add", "change", "remove"}])

-----------------------------------------------------------------------------
(* GPUs.                                                                   *)

DrmImpls == {i \in Range(impls) : i.type = "drm"}

\* The poll fds of the implementations: getPollFDs.
ImplFDs(seq) == {[type |-> i.type, dev |-> i.dev] : i \in Range(seq)}

\* libseat_open_device: a descriptor that nothing else in use has.
Opened(c) ==
    LET used == {g.num : g \in {g \in Range(gpus) \cup {i.dev : i \in Range(impls)} : g.card = c}}
        nums == 1 .. Len(gpus) + Len(impls) + 1
    IN  [card |-> c, num |-> CHOOSE n \in nums : n \notin used /\ \A k \in 1 .. n - 1 : k \in used]

\* scanGPUs: boot GPUs first, then the first of the GPUs with the most builtin
\* panels before them all; or the explicit list and nothing else.
ScanGPUs(opens, explicit) ==
    LET cards   == Keep(CardList, opens)
        devices == Reverse(Keep(cards, BootVga)) \o Keep(cards, Cards \ BootVga)
        builtin == {c \in opens : Panels[c] > 0 /\ \A d \in opens : Panels[d] <= Panels[c]}
        first   == First(cards, builtin)
    IN  IF explicit # <<>> THEN Keep(explicit, opens)
        ELSE IF builtin = {} THEN devices
        ELSE <<first>> \o Keep(devices, Cards \ {first})

\* registerGPU: the primary of a GPU is the one it is registered under.
RegisterGPU(dev, primary) == DrmImpl(dev, IF dev.card \in Evdi THEN NoDevice ELSE primary)

\* A CDRMBackend that goes away takes the weak references to it along.
Expire(seq, dev) == [k \in DOMAIN seq |-> IF seq[k].primary = dev THEN [seq[k] EXCEPT !.primary = NoDevice] ELSE seq[k]]

\* CDRMBackend::onReady of a GPU without a primary needs the primary allocator:
\* initMgpu asks its type without a check.
OnReadyCrashes(seq, ready) == ready /\ ~allocator /\ \E i \in Range(seq) : i.type = "drm" /\ i.primary = NoDevice

-----------------------------------------------------------------------------
(* CBackend::create.                                                       *)

\* With ANLAND=1 the requests are replaced, but implementationOptions is not.
EffectiveBackends(q, anlandEnv) ==
    IF anlandEnv THEN <<Request("anland", "mandatory"), Request("headless", "fallback")>> ELSE q

Creating(type) == stage = "create" /\ toCreate # <<>> /\ Head(toCreate).type = type

\* Wayland, Headless and Null are made on the spot; a second Anland is skipped.
CreateImpl(type) ==
    /\ Creating(type)
    /\ impls' = IF type = "anland" /\ \E i \in Range(impls) : i.type = type
                  THEN impls ELSE Append(impls, Impl(type))
    /\ toCreate' = Tail(toCreate)
    /\ UNCHANGED <<stage, requests, hasSession, seat, gpus, allocator, polled, present, udev>>

\* CSession::attempt: a seat, active or not, a udev monitor and libinput.
SessionOpens ==
    /\ Creating("drm") /\ ~hasSession
    /\ hasSession' = TRUE
    /\ seat' \in {"inactive", "active"}
    /\ UNCHANGED <<stage, requests, toCreate, impls, gpus, allocator, polled, present, udev>>

\* CDRMBackend::attempt returns nothing: no session, or five seconds without
\* the seat becoming active.
AttemptFails ==
    /\ Creating("drm") /\ (~hasSession \/ seat = "inactive")
    /\ toCreate' = Tail(toCreate)
    /\ UNCHANGED <<stage, requests, hasSession, seat, impls, gpus, allocator, polled, present, udev>>

\* Each round of the wait dispatches the seat's events, then one of udev's.
SeatActivates ==
    /\ Creating("drm") /\ hasSession /\ seat = "inactive"
    /\ seat' = "waking"
    /\ UNCHANGED <<stage, requests, toCreate, hasSession, impls, gpus, allocator, polled, present, udev>>

\* CDRMBackend::attempt: the GPUs that open, in the order of scanGPUs, those
\* that have the features and resources; the first becomes the primary.
Attempt ==
    /\ Creating("drm") /\ (seat = "active" \/ (seat = "waking" /\ udev = <<>>))
    /\ \E explicit \in DeviceLists, opens \in SUBSET present : \E works \in SUBSET opens :
         LET found   == Keep(ScanGPUs(opens, explicit), works)
             devs    == [k \in DOMAIN found |-> Opened(found[k])]
             primary == [k \in DOMAIN found |-> IF k = 1 THEN NoDevice ELSE devs[1]]
         IN  /\ impls' = impls \o [k \in DOMAIN found |-> RegisterGPU(devs[k], primary[k])]
             /\ gpus' = gpus \o devs
    /\ toCreate' = Tail(toCreate)
    /\ UNCHANGED <<stage, requests, hasSession, seat, allocator, polled, present, udev>>

\* create returns: Headless when nothing else could be made.
CreateEnds ==
    /\ stage = "create" /\ toCreate = <<>>
    /\ impls' = IF impls = <<>> THEN <<Impl("headless")>> ELSE impls
    /\ stage' = "start"
    /\ UNCHANGED <<requests, toCreate, hasSession, seat, gpus, allocator, polled, present, udev>>

-----------------------------------------------------------------------------
(* CBackend::start.                                                        *)

\* optionsForType: the caller's options, IF_AVAILABLE for what it did not name.
ModeFor(type) ==
    LET named == SelectSeq(requests, LAMBDA r : r.type = type)
    IN  IF named = <<>> THEN "available" ELSE Head(named).mode

\* Only the Wayland implementation can fail to start: without a host it has
\* no display and no poll fds, without the host's protocols it keeps both.
WaylandStarts == {"ok", "noDisplay", "noProtocols"}

Wayland(i) == i.type = "wayland"

StartImpls ==
    /\ stage = "start"
    /\ \E outcome \in WaylandStarts :
         LET failed(i) == Wayland(i) /\ outcome # "ok"
             erased(i) == Wayland(i) /\ outcome = "noDisplay"
             kept      == Keep(impls, {i \in Range(impls) : ~erased(i)})
             mandatory == \E i \in Range(impls) : failed(i) /\ ModeFor(i.type) = "mandatory"
             anland    == \E i \in Range(kept) : i.type = "anland"
             drmFd     == \E i \in Range(kept) : i.type = "drm" \/ (Wayland(i) /\ outcome = "ok")
         IN  IF mandatory \/ \A i \in Range(impls) : failed(i)
               THEN /\ stage' = "failed"
                    /\ impls' = IF mandatory THEN <<>> ELSE impls
                    /\ UNCHANGED allocator
               ELSE /\ stage' = "starting"
                    /\ impls' = kept
                    \* reopenDRMNode and CGBMAllocator::create may fail
                    /\ allocator' \in {FALSE, drmFd /\ ~anland}
    /\ UNCHANGED <<requests, toCreate, hasSession, seat, gpus, polled, present, udev>>

\* ready is set, every implementation's onReady runs, and the caller that
\* start returns to asks for the poll fds.
GetReady ==
    /\ stage = "starting"
    /\ IF OnReadyCrashes(impls, TRUE)
         THEN stage' = "crashed" /\ UNCHANGED polled
         ELSE stage' = "ready" /\ polled' = ImplFDs(impls)
    /\ UNCHANGED <<requests, toCreate, hasSession, seat, impls, gpus, allocator, present, udev>>

-----------------------------------------------------------------------------
(* udev.                                                                   *)

\* dispatchUdevEvents runs from the event loop, and while create waits.
UdevDispatches == hasSession /\ (stage = "ready" \/ (Creating("drm") /\ seat # "active"))

\* An event is taken off the monitor; the wait is over after the round that
\* found the seat enabled.
Receive ==
    /\ udev' = Tail(udev)
    /\ seat' = IF seat = "waking" THEN "active" ELSE seat

Received(action) == UdevDispatches /\ udev # <<>> /\ Head(udev).action = action
ReceivedCard == Head(udev).card
KnownAs(c) == {g \in Range(gpus) : g.card = c}

\* The caller asks for the poll fds when it is told that they changed.
PollFDsChanged(seq) == polled' = IF stage = "ready" THEN ImplFDs(seq) ELSE polled

\* onNewGpu: fromGpu opens and registers the card under the first DRM
\* implementation and lets the session know it; then the new one is started,
\* added, announced and made ready.  Bugs: the session does not learn of the
\* card; the newest DRM implementation is taken as the primary.
OnNewGpu_NotTracked(c) ==
    LET dev == Opened(c)
        new == Append(impls, RegisterGPU(dev, IF DrmImpls = {} THEN NoDevice ELSE First(impls, DrmImpls).dev))
    IN  /\ impls' = new
        /\ PollFDsChanged(new)
        /\ UNCHANGED <<stage, gpus>>

OnNewGpu_NewestPrimary(c) ==
    LET dev == Opened(c)
        new == Append(impls, RegisterGPU(dev, IF DrmImpls = {} THEN NoDevice ELSE First(Reverse(impls), DrmImpls).dev))
    IN  /\ impls' = new
        /\ gpus' = Append(gpus, dev)
        /\ PollFDsChanged(new)
        /\ UNCHANGED stage

OnNewGpu(c) ==
    LET dev  == Opened(c)
        impl == RegisterGPU(dev, IF DrmImpls = {} THEN NoDevice ELSE First(impls, DrmImpls).dev)
        new  == Append(impls, impl)
    IN  /\ impls' = new
        /\ gpus' = Append(gpus, dev)
        /\ PollFDsChanged(new)
        /\ stage' = IF OnReadyCrashes(<<impl>>, stage = "ready") THEN "crashed" ELSE stage

\* A card the session does not know is added; opening it may fail.
UdevAdds ==
    /\ Received("add") /\ KnownAs(ReceivedCard) = {}
    /\ \/ ReceivedCard \in present /\ OnNewGpu(ReceivedCard)
       \/ UNCHANGED <<stage, impls, gpus, polled>>
    /\ Receive
    /\ UNCHANGED <<requests, toCreate, hasSession, allocator, present>>

\* The session device's remove event erases the implementations on its fd.
\* The listener belongs to one of them and goes on to use it: either it still
\* reaches the caller or the process dies.
UdevRemoves ==
    /\ Received("remove") /\ KnownAs(ReceivedCard) # {}
    /\ LET dev == First(gpus, KnownAs(ReceivedCard))
           new == Expire(Keep(impls, {i \in Range(impls) : i.dev # dev}), dev)
       IN  /\ impls' = new
           /\ gpus' = Keep(gpus, Range(gpus) \ {dev})
           /\ \/ PollFDsChanged(new) /\ UNCHANGED stage
              \/ stage' = "crashed" /\ UNCHANGED polled
    /\ Receive
    /\ UNCHANGED <<requests, toCreate, hasSession, allocator, present>>

\* Everything else changes nothing here: an add of a known card, an event of
\* an unknown one, and a change, which goes to recheckOutputs or scanLeases.
UdevOther ==
    /\ UdevDispatches /\ udev # <<>>
    /\ \/ Head(udev).action = "change"
       \/ Head(udev).action = "add" /\ KnownAs(ReceivedCard) # {}
       \/ Head(udev).action = "remove" /\ KnownAs(ReceivedCard) = {}
    /\ Receive
    /\ UNCHANGED <<stage, requests, toCreate, hasSession, impls, gpus, allocator, polled, present>>

\* The monitor queues what happens to cards once the session has it.
KernelEvent(c, action) ==
    /\ Len(udev) < MaxUdev /\ stage \notin {"failed", "crashed"}
    /\ udev' = IF hasSession THEN Append(udev, [card |-> c, action |-> action]) ELSE udev
    /\ UNCHANGED startVars

PlugCard(c) == c \notin present /\ present' = present \cup {c} /\ KernelEvent(c, "add")
UnplugCard(c) == c \in present /\ present' = present \ {c} /\ KernelEvent(c, "remove")
CardChanges(c) == c \in present /\ hasSession /\ KernelEvent(c, "change") /\ UNCHANGED present

\* The process is gone, or the caller has given up.
BackendOver == stage \in {"failed", "crashed"} /\ UNCHANGED gpuVars

-----------------------------------------------------------------------------

BackendInit ==
    /\ stage = "create"
    /\ requests \in RequestLists
    /\ toCreate \in {EffectiveBackends(requests, e) : e \in AnlandEnvs}
    /\ hasSession = FALSE /\ seat = "inactive"
    /\ impls = <<>> /\ gpus = <<>>
    /\ allocator = FALSE
    /\ polled = {}
    /\ present \in SUBSET Cards
    /\ udev = <<>>

BackendNext ==
    \/ \E t \in Types \ {"drm"} : CreateImpl(t)
    \/ SessionOpens \/ AttemptFails \/ SeatActivates \/ Attempt \/ CreateEnds
    \/ StartImpls \/ GetReady
    \/ UdevAdds \/ UdevRemoves \/ UdevOther
    \/ \E c \in Cards : PlugCard(c) \/ UnplugCard(c) \/ CardChanges(c)
    \/ BackendOver

BackendSpec == BackendInit /\ [][BackendNext]_gpuVars

-----------------------------------------------------------------------------

\* The session hears of every GPU that an implementation drives, so that udev's
\* change and remove events reach it, and of no other; and once the backend
\* is ready the caller polls exactly the implementations there are, however
\* additions, removals and the wait for the seat interleave.
GpusTracked ==
    stage \in {"create", "start", "starting", "ready"} =>
        /\ {i.dev : i \in DrmImpls} = Range(gpus)
        /\ stage = "ready" => polled = ImplFDs(impls)

\* A secondary GPU's frames are made by its primary, so a primary is alive and
\* is no secondary itself, whatever was plugged, unplugged or lost before.
PrimaryRendersItself ==
    \A i \in DrmImpls : i.primary # NoDevice =>
        \E p \in DrmImpls : p.dev = i.primary /\ p.primary = NoDevice

\* Backend.hpp on AQ_BACKEND_REQUEST_MANDATORY: "Require the provided backend,
\* will error out if it's not available."
MandatoryIsThere ==
    stage = "starting" =>
        \A k \in DOMAIN requests : requests[k].mode = "mandatory" =>
            \E i \in Range(impls) : i.type = requests[k].type
=============================================================================
