-------------------------------- MODULE Gbm --------------------------------
(***************************************************************************)
(* CGBMAllocator and CDRMDumbAllocator, which make the buffers of the      *)
(* swapchains: the choice of a format and of modifiers that the plane and  *)
(* the renderer have in common, the chain of fallbacks when gbm refuses,   *)
(* and the file descriptors the planes are exported with.  gbm and the     *)
(* kernel are external: any call of theirs may fail.                       *)
(***************************************************************************)
EXTENDS Naturals, Sequences, FiniteSets

CONSTANTS
    BufferNames,    \* buffers that exist at a time
    MaxFds,         \* bound: file descriptors of the process
    FormatTables,   \* lists of formats: the modifiers of each; {} if it is not listed
    ForceLinear     \* AQ_FORCE_LINEAR_BLIT is not disabled

\* The kinds of formats guessFormatFrom tells apart: 10 and 8 bits with alpha
\* or without, other formats whose names have a 30 or a 24, and the rest.
FormatKinds == {"ARGB10", "XRGB10", "ARGB8", "XRGB8", "30", "24", "other"}
Implicit == "implicit"      \* DRM_FORMAT_MOD_INVALID
Linear == "linear"          \* DRM_FORMAT_MOD_LINEAR
Modifiers == {Implicit, Linear, "tiled"}
NoFormat == "none"          \* DRM_FORMAT_INVALID

ASSUME GbmAssumption ==
    /\ MaxFds \in Nat /\ ForceLinear \in BOOLEAN
    /\ BufferNames \cap {"free", "dumb", "other"} = {}
    /\ \A t \in FormatTables : \A f \in DOMAIN t : f \in FormatKinds /\ t[f] \subseteq Modifiers

VARIABLES
    tables,     \* what the primary, the cursor plane, the output and the renderer list
    bufs,       \* the buffers
    owner       \* whose every open file descriptor is

gbmVars == <<tables, bufs, owner>>

NoBuffer == [live |-> FALSE]
Fd == 1 .. MaxFds
Kinds == UNION {DOMAIN t : t \in FormatTables}
NoTable == [f \in Kinds |-> {}]
Params == [scanout : BOOLEAN, cursor : BOOLEAN, multigpu : BOOLEAN, explicit : BOOLEAN,
           format : Kinds \cup {NoFormat}]

-----------------------------------------------------------------------------
\* The choice of a format and of modifiers.

CURSOR(p) == p.cursor /\ p.scanout
MULTIGPU(p) == p.multigpu /\ p.scanout
EXPLICIT_SCANOUT(p) == p.scanout /\ p.explicit /\ ~p.multigpu

Regular(p) == p.scanout /\ ~CURSOR(p) /\ ~MULTIGPU(p)

Source(p) == IF CURSOR(p) THEN "cursor" ELSE IF EXPLICIT_SCANOUT(p) THEN "output" ELSE "primary"
FORMATS(p) == tables[Source(p)]

Listed(t) == {f \in DOMAIN t : t[f] # {}}

\* guessFormatFrom: 10 bits before 8, but not for cursors; alpha unless the
\* buffer is scanned out; then whatever is RGB, then anything.
GuessFormatFrom(t, cursor, scanout) ==
    LET order == (IF cursor THEN <<>> ELSE (IF scanout THEN <<>> ELSE <<"ARGB10">>) \o <<"XRGB10">>)
                 \o (IF ~scanout \/ cursor THEN <<"ARGB8">> ELSE <<>>)
                 \o <<"XRGB8", "30", "24">>
        found == SelectSeq(order, LAMBDA f : f \in Listed(t))
    IN  IF found # <<>> THEN {Head(found)} ELSE IF Listed(t) = {} THEN {NoFormat} ELSE Listed(t)

FormatsFor(p) ==
    IF p.format # NoFormat THEN {p.format} ELSE GuessFormatFrom(FORMATS(p), CURSOR(p), p.scanout)

\* The modifiers to ask for: of a regular scanout buffer only those the
\* renderer lists as well.  A bug: the lists are not compared.
ExplicitModifiers_NoClip(p, f) == FORMATS(p)[f] \ {Implicit}

ExplicitModifiers(p, f) ==
    LET known == FORMATS(p)[f] \ {Implicit} IN
    IF Listed(tables.renderable) # {} /\ Regular(p)
    THEN known \cap tables.renderable[f] ELSE known

\* The modifier of the buffer object gbm makes, by the chain of attempts: with
\* modifiers (for a cursor also without flags), implicitly, and, across GPUs
\* where linear was forced, with the modifiers there were.  Nothing may come
\* out of it; the comparison of a format with DRM_FORMAT_MOD_LINEAR that
\* would make others linear is never true.
BoModifiers(p, f) ==
    LET old  == ExplicitModifiers(p, f)
        mods == IF MULTIGPU(p) /\ ForceLinear THEN {Linear} ELSE old
        last == IF old = {} THEN Modifiers ELSE old \cup {Implicit}
    IN  IF mods = {} THEN {Implicit}
        ELSE (IF mods = {Linear} THEN {Linear} ELSE mods \cup {Implicit})
             \cup (IF MULTIGPU(p) /\ ForceLinear THEN last ELSE {})

-----------------------------------------------------------------------------
\* File descriptors.

FreeFds == {d \in Fd : owner[d] = "free"}

\* The n lowest free descriptors, which the kernel hands out.
LowestFds(n) == CHOOSE s \in SUBSET FreeFds :
    Cardinality(s) = n /\ \A d \in s, e \in FreeFds \ s : d < e

Give(fds, to) == [d \in Fd |-> IF d \in fds THEN to ELSE owner[d]]

Made(p, f, m, fds) ==
    [live |-> TRUE, source |-> Source(p), regular |-> Regular(p), format |-> f, modifier |-> m, fds |-> fds]

\* acquire of a GBM buffer.  If the descriptor of a plane cannot be had those
\* of the n planes before it are closed; the buffer is handed out all the
\* same, for it has a buffer object.  A bug: the planes are still counted.
PlaneFails_KeepsPlanes(b, p, f, m, n) ==
    /\ bufs' = [bufs EXCEPT ![b] = Made(p, f, m, LowestFds(n))]
    /\ UNCHANGED owner

PlaneFails(b, p, f, m, n) ==
    /\ bufs' = [bufs EXCEPT ![b] = Made(p, f, m, {})]
    /\ UNCHANGED owner

AllPlanes(b, p, f, m, n) ==
    /\ bufs' = [bufs EXCEPT ![b] = Made(p, f, m, LowestFds(n))]
    /\ owner' = Give(LowestFds(n), b)

AcquireGbm(b, p) ==
    /\ ~bufs[b].live
    /\ \E f \in FormatsFor(p) : f \in Listed(FORMATS(p)) /\
       \E m \in BoModifiers(p, f), n \in 1 .. 2 :
        \/ n <= Cardinality(FreeFds) /\ AllPlanes(b, p, f, m, n)
        \/ n - 1 <= Cardinality(FreeFds) /\ PlaneFails(b, p, f, m, n - 1)
    /\ UNCHANGED tables

\* ~CGBMBuffer: the descriptors of its planes are closed.
DestroyGbm(b) ==
    /\ bufs[b].live
    /\ owner' = Give(bufs[b].fds, "free")
    /\ bufs' = [bufs EXCEPT ![b] = NoBuffer]
    /\ UNCHANGED tables

\* A dumb buffer is made and exported; when it goes the export stays open.  A
\* failure before the export leaves nothing.
AcquireDumb ==
    /\ FreeFds # {}
    /\ owner' = Give(LowestFds(1), "dumb")
    /\ UNCHANGED <<tables, bufs>>

\* No format is found, gbm refuses every attempt, or the size is not positive.
AcquireFails == UNCHANGED gbmVars

\* The rest of the process opens and closes descriptors of its own.
OtherOpens ==
    /\ FreeFds # {}
    /\ owner' = Give(LowestFds(1), "other")
    /\ UNCHANGED <<tables, bufs>>

OtherCloses(d) ==
    /\ owner[d] = "other"
    /\ owner' = [owner EXCEPT ![d] = "free"]
    /\ UNCHANGED <<tables, bufs>>

-----------------------------------------------------------------------------

GbmInit ==
    /\ tables \in [primary : FormatTables, cursor : FormatTables, output : FormatTables,
                   renderable : FormatTables \cup {NoTable}]
    /\ bufs = [b \in BufferNames |-> NoBuffer]
    /\ owner = [d \in Fd |-> "free"]

GbmNext ==
    \/ \E b \in BufferNames :
        \/ \E p \in Params : AcquireGbm(b, p)
        \/ DestroyGbm(b)
    \/ AcquireDumb \/ AcquireFails \/ OtherOpens \/ \E d \in Fd : OtherCloses(d)

GbmSpec == GbmInit /\ [][GbmNext]_gbmVars

-----------------------------------------------------------------------------

\* Every GBM buffer owns the descriptors it will close, and what it
\* opened is closed with it, also when the export of a later plane failed: none
\* is closed twice, when it may already be somebody else's, and none leaks.
GbmFdsOwned ==
    \A d \in Fd, b \in BufferNames : bufs[b].live /\ d \in bufs[b].fds <=> owner[d] = b

\* A regular scanout buffer has a modifier that both the plane it is for and the
\* renderer list, or an implicit one, whatever the fallbacks it went through.
ScanoutIsRenderable ==
    \A b \in BufferNames : bufs[b].live =>
        LET f == bufs[b].format  m == bufs[b].modifier IN
        bufs[b].regular /\ m # Implicit =>
            /\ m \in tables[bufs[b].source][f]
            /\ Listed(tables.renderable) # {} => m \in tables.renderable[f]
=============================================================================
