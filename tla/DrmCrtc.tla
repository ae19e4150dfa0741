------------------------------ MODULE DrmCrtc ------------------------------
(***************************************************************************)
(* Which connectors of one GPU have an output, and which CRTC each one     *)
(* drives: CDRMBackend::recheckOutputs (scanConnectors, markRedundantTiles,*)
(* the disconnects, recheckCRTCs, the connects), run on every hotplug      *)
(* event and after every VT switch, against a kernel whose connectors are  *)
(* plugged, unplugged, added and removed (DisplayPort MST) at any time.    *)
(***************************************************************************)
EXTENDS Naturals, Sequences, SequencesExt, FiniteSets, Lists

CONSTANTS
    ConnectorList,\* connector ids, in the order in which the kernel lists them
    NumCrtcs,     \* crtcs.size()
    Possible,     \* possibleCrtcs of each connector: a set of CRTC slots
    TileGroup,    \* tileInfo.groupId of each connector, 0 for none
    FullRes,      \* connectors with a mode of the full tiled resolution
    BootCrtc,     \* the CRTC that the firmware left each connector on
    GetFails      \* drmModeGetConnector may fail

Connectors == Range(ConnectorList)
Crtcs == 1 .. NumCrtcs
NoCrtc == 0

ASSUME CrtcAssumption ==
    /\ ConnectorList \in Seq(Connectors) /\ IsInjective(ConnectorList)
    /\ IsFiniteSet(Connectors)
    /\ NumCrtcs \in Nat
    /\ Possible \in [Connectors -> SUBSET Crtcs]
    /\ TileGroup \in [Connectors -> Nat]
    /\ FullRes \subseteq Connectors
    /\ BootCrtc \in [Connectors -> Crtcs \cup {NoCrtc}]
    /\ GetFails \in BOOLEAN

VARIABLES
    listed,      \* the kernel: connectors in drmModeGetResources
    plugged,     \* the kernel: connectors with a monitor
    connectors,  \* CDRMBackend::connectors, in its order
    conn         \* per connector: status, output, crtc, tilingRedundant

crtcVars == <<listed, plugged, connectors, conn>>

ConnState == [status : BOOLEAN, output : BOOLEAN, crtc : Crtcs \cup {NoCrtc}, redundant : BOOLEAN]

\* What SDRMConnector::init finds: a connector that appears at run time has
\* no CRTC routed to it, one that was there at boot has the firmware's.
NewConn == [status |-> FALSE, output |-> FALSE, crtc |-> NoCrtc, redundant |-> FALSE]

CrtcTypeOK ==
    /\ listed \subseteq Connectors
    /\ plugged \subseteq listed
    /\ connectors \in Seq(Connectors) /\ IsInjective(connectors)
    /\ conn \in [Connectors -> ConnState]

Known(seq) == Range(seq)

-----------------------------------------------------------------------------
(* The phases of recheckOutputs, each a function of the phase before it.   *)

\* scanConnectors: new connectors go to the end, in the kernel's order, and
\* those the kernel no longer lists are disconnected and erased.
ScanOrder(got) ==
    Keep(connectors, listed) \o Keep(ConnectorList, got \ Known(connectors))

ScanConnectors(got) ==
    [c \in Connectors |->
        IF c \notin listed THEN NewConn
        ELSE IF c \notin got THEN conn[c]
        ELSE [conn[c] EXCEPT !.status = c \in plugged]]

\* markRedundantTiles: in a group of several connected connectors, the first
\* with the full resolution makes the others redundant.
TileMembers(seq, f, g) == {c \in Known(seq) : f[c].status /\ TileGroup[c] = g}

FullResOf(seq, members) ==
    IF Cardinality(members) > 1 /\ members \cap FullRes # {}
    THEN {First(seq, members \cap FullRes)} ELSE {}

MarkRedundantTiles(seq, f) ==
    [c \in Connectors |->
        LET driver == FullResOf(seq, TileMembers(seq, f, TileGroup[c]))
        IN  [f[c] EXCEPT !.redundant = /\ c \in Known(seq)
                                       /\ f[c].status /\ TileGroup[c] # 0
                                       /\ driver # {} /\ c \notin driver]]

\* SDRMConnector::disconnect keeps the connector's CRTC.  A bug: outputs of
\* redundant tiles are kept.
DisconnectGone_KeepsTiles(seq, f) ==
    [c \in Connectors |->
        IF c \in Known(seq) /\ f[c].output /\ ~f[c].status
          THEN [f[c] EXCEPT !.status = FALSE, !.output = FALSE]
          ELSE f[c]]

DisconnectGone(seq, f) ==
    [c \in Connectors |->
        IF c \in Known(seq) /\ f[c].output /\ (~f[c].status \/ f[c].redundant)
          THEN [f[c] EXCEPT !.status = FALSE, !.output = FALSE]
          ELSE f[c]]

\* recheckCRTCs.  A slot is taken by a connected connector; a free one goes to
\* the first connected connector that has none and can use it.  A bug: a
\* connector that is gone still takes its slot.
Taken_ByAnyone(seq, f, i) == \E c \in Known(seq) : f[c].crtc = i

Taken(seq, f, i) ==
    \E c \in Known(seq) : f[c].crtc = i /\ f[c].status /\ ~f[c].redundant

\* The connectors that take part, as the assignment starts.  A bug: those
\* that are connected and have a CRTC take part too.
Rechecked_All(seq, f) == {c \in Known(seq) : ~f[c].redundant}

Rechecked(seq, f) ==
    {c \in Known(seq) : ~f[c].redundant /\ ~(f[c].crtc # NoCrtc /\ f[c].status)}

\* One round of the assignment: slot i, with the assignment so far and the
\* connectors that are left to assign.
AssignSlot(seq, s, i) ==
    LET able == {c \in s.left : i \in Possible[c] /\ s.f[c].status}
        c    == First(seq, able)
    IN  IF Taken(seq, s.f, i) \/ able = {} THEN s
        ELSE [f |-> [s.f EXCEPT ![c].crtc = i], left |-> s.left \ {c}]

RecheckCRTCs(seq, f) ==
    LET step[i \in 0 .. NumCrtcs] ==
          IF i = 0 THEN [f |-> f, left |-> Rechecked(seq, f)]
          ELSE AssignSlot(seq, step[i - 1], i)
    IN  step[NumCrtcs].f

\* SDRMConnector::connect for every connected connector without an output
\* that the kernel still describes.
ConnectNew(seq, f, got) ==
    [c \in Connectors |->
        IF c \in Known(seq) \cap got /\ f[c].status /\ ~f[c].output /\ ~f[c].redundant
          THEN [f[c] EXCEPT !.output = TRUE]
          ELSE f[c]]

\* The connectors that drmModeGetConnector describes.
Gettable == IF GetFails THEN SUBSET listed ELSE {listed}

\* recheckOutputs: each phase works on the result of the one before it.
RecheckOutputs ==
    \E got \in Gettable, still \in Gettable :
      \E seq \in {ScanOrder(got)} :
      \E scanned \in {MarkRedundantTiles(seq, ScanConnectors(got))} :
      \E assigned \in {RecheckCRTCs(seq, DisconnectGone(seq, scanned))} :
        /\ connectors' = seq
        /\ conn' = ConnectNew(seq, assigned, still)
        /\ UNCHANGED <<listed, plugged>>

-----------------------------------------------------------------------------
(* The kernel.                                                             *)

Plug(c) ==
    /\ c \in listed \ plugged
    /\ plugged' = plugged \cup {c}
    /\ UNCHANGED <<listed, connectors, conn>>

Unplug(c) ==
    /\ c \in plugged
    /\ plugged' = plugged \ {c}
    /\ UNCHANGED <<listed, connectors, conn>>

AddConnector(c) ==
    /\ c \notin listed
    /\ listed' = listed \cup {c}
    /\ UNCHANGED <<plugged, connectors, conn>>

RemoveConnector(c) ==
    /\ c \in listed
    /\ listed' = listed \ {c}
    /\ plugged' = plugged \ {c}
    /\ UNCHANGED <<connectors, conn>>

-----------------------------------------------------------------------------

\* Before attempt()'s first recheckOutputs nothing is known.
CrtcInit ==
    /\ listed = Connectors
    /\ plugged \in SUBSET Connectors
    /\ connectors = <<>>
    /\ conn = [c \in Connectors |-> [NewConn EXCEPT !.crtc = BootCrtc[c]]]

CrtcNext ==
    \/ RecheckOutputs
    \/ \E c \in Connectors : Plug(c) \/ Unplug(c) \/ AddConnector(c) \/ RemoveConnector(c)

CrtcSpec == CrtcInit /\ [][CrtcNext]_crtcVars

-----------------------------------------------------------------------------

\* Two outputs never drive the same CRTC.  recheckOutputs disconnects first
\* "to possibly free up crtcs", and recheckCRTCs reports the old CRTC of a
\* connector that is not connected as removed.
NoSharedCrtc ==
    \A c, d \in Known(connectors) :
        c # d /\ conn[c].output /\ conn[d].output /\ conn[c].crtc # NoCrtc
            => conn[c].crtc # conn[d].crtc

\* An output goes without a CRTC only when every CRTC it could use drives
\* another output: a CRTC left behind by an unplugged or tiling-redundant
\* connector is given away.
NoOutputStarved ==
    \A c \in Known(connectors) :
        conn[c].output /\ conn[c].crtc = NoCrtc
            => \A i \in Possible[c] : \E d \in Known(connectors) :
                  conn[d].crtc = i /\ conn[d].status /\ ~conn[d].redundant

\* A connector that stays connected through a recheck keeps its CRTC: hotplug
\* of one monitor never moves another one's picture.
CrtcStable ==
    [][\A c \in Known(connectors) :
          conn[c].output /\ conn[c].crtc # NoCrtc /\ conn'[c].output
              => conn'[c].crtc = conn[c].crtc]_crtcVars

\* A tiled monitor that one connector can drive whole has one output, however
\* its tiles come and go.
OneOutputPerTiledMonitor ==
    \A c, d \in Known(connectors) :
        (/\ c # d /\ conn[c].output /\ conn[d].output
         /\ TileGroup[c] = TileGroup[d] /\ TileGroup[c] # 0)
            => {c, d} \cap FullRes = {}
=============================================================================
