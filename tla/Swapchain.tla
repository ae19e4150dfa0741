----------------------------- MODULE Swapchain -----------------------------
(***************************************************************************)
(* CSwapchain: a ring of buffers that reconfigure() rebuilds, grows,       *)
(* shrinks or clears, next() hands out in turn and rollback() takes back.  *)
(* The allocator is external: it may fail at any buffer, and it chooses    *)
(* the format when none is asked for.  A swapchain without an allocator    *)
(* does nothing and is not modelled.                                       *)
(***************************************************************************)
EXTENDS Integers, Sequences

CONSTANTS
    Sizes,      \* sizes other than Vector2D{}
    NoSize,     \* Vector2D{}
    Formats,    \* DRM formats
    Invalid,    \* DRM_FORMAT_INVALID
    MaxLength   \* bound on the length a consumer asks for

ASSUME SwapchainAssumption ==
    /\ NoSize \notin Sizes
    /\ Invalid \notin Formats
    /\ MaxLength \in Nat

VARIABLES
    options,       \* the SSwapchainOptions in force
    buffers,       \* the ring: the size and format of each buffer
    lastAcquired,  \* index of the buffer handed out last; -1 in an empty ring
    given,         \* history: the index that the last next() returned
    undone         \* history: the last call was a rollback() of that next()

swVars == <<options, buffers, lastAcquired, given, undone>>

Options == [length : 0 .. MaxLength, size : Sizes \cup {NoSize}, format : Formats \cup {Invalid}]
RingBuffer == [size : Sizes, format : Formats]
NoIndex == -1

SwapchainTypeOK ==
    /\ options \in Options
    /\ buffers \in Seq(RingBuffer)
    /\ lastAcquired \in -1 .. MaxLength
    /\ given \in -1 .. MaxLength
    /\ undone \in BOOLEAN

-----------------------------------------------------------------------------

\* A buffer that the allocator may return for this size and format.
Acquired(b, size, format) ==
    /\ b.size = size
    /\ format # Invalid => b.format = format

SameKind(o) == (o.format = options.format \/ o.format = Invalid) /\ o.size = options.size

Clears(o) == o.size = NoSize \/ o.length = 0

Forget == given' = NoIndex /\ undone' = FALSE /\ UNCHANGED lastAcquired

Clear(o) ==
    /\ Clears(o)
    /\ buffers' = <<>>
    /\ options' = o
    /\ Forget

\* resize() to fewer buffers drops the last ones.
Shrink(o) ==
    /\ ~Clears(o) /\ SameKind(o)
    /\ o.length <= Len(buffers)
    /\ ~(o.length = options.length /\ Len(buffers) = options.length)
    /\ buffers' = SubSeq(buffers, 1, o.length)
    /\ options' = o
    /\ Forget

\* resize() to more buffers, of the old options; a failure keeps the buffers
\* acquired before it and the old options.  n: how many there are then.
GrowTo(n) ==
    \E f \in Formats :
        /\ Acquired([size |-> options.size, format |-> f], options.size, options.format)
        /\ buffers' = [i \in 1 .. n |-> IF i <= Len(buffers) THEN buffers[i]
                                        ELSE [size |-> options.size, format |-> f]]

Grow(o) ==
    /\ ~Clears(o) /\ SameKind(o)
    /\ o.length > Len(buffers)
    /\ \/ GrowTo(o.length) /\ options' = o
       \/ /\ \E n \in Len(buffers) .. (o.length - 1) : GrowTo(n)
          /\ UNCHANGED options
    /\ Forget

\* fullReconfigure(): all buffers anew, or nothing at all.  A bug: the buffers
\* acquired before a failure replace the old ones.
FullReconfigure_Partial(o) ==
    /\ ~Clears(o) /\ ~SameKind(o)
    /\ \E f \in Formats, n \in 0 .. o.length :
        /\ Acquired([size |-> o.size, format |-> f], o.size, o.format)
        /\ buffers' = [i \in 1 .. n |-> [size |-> o.size, format |-> f]]
        /\ options' = IF n = o.length THEN [o EXCEPT !.format = f] ELSE options
    /\ Forget

FullReconfigure(o) ==
    /\ ~Clears(o) /\ ~SameKind(o)
    /\ \E f \in Formats :
        /\ Acquired([size |-> o.size, format |-> f], o.size, o.format)
        /\ buffers' = [i \in 1 .. o.length |-> [size |-> o.size, format |-> f]]
        /\ options' = [o EXCEPT !.format = f]
    /\ Forget

Reconfigure(o) == Clear(o) \/ Shrink(o) \/ Grow(o) \/ FullReconfigure(o)

\* next(): nothing without a length; buffers.at(lastAcquired) is the result.
AcquireNext ==
    /\ options.length > 0
    /\ lastAcquired' = (lastAcquired + 1) % options.length
    /\ given' = lastAcquired'
    /\ undone' = FALSE
    /\ UNCHANGED <<options, buffers>>

\* rollback().  A bug: the wrap at zero is off by one.
Rollback_WrapsToLength ==
    /\ lastAcquired' = IF lastAcquired - 1 < 0 THEN options.length ELSE lastAcquired - 1
    /\ undone' = (given # NoIndex /\ ~undone)
    /\ given' = IF undone THEN NoIndex ELSE given
    /\ UNCHANGED <<options, buffers>>

Rollback ==
    /\ lastAcquired' = IF lastAcquired - 1 < 0 THEN options.length - 1 ELSE lastAcquired - 1
    /\ undone' = (given # NoIndex /\ ~undone)
    /\ given' = IF undone THEN NoIndex ELSE given
    /\ UNCHANGED <<options, buffers>>

-----------------------------------------------------------------------------

SwapchainInit ==
    /\ options = [length |-> 0, size |-> NoSize, format |-> Invalid]
    /\ buffers = <<>>
    /\ lastAcquired = 0
    /\ given = NoIndex
    /\ undone = FALSE

SwapchainNext == (\E o \in Options : Reconfigure(o)) \/ AcquireNext \/ Rollback

SwapchainSpec == SwapchainInit /\ [][SwapchainNext]_swVars

-----------------------------------------------------------------------------

\* next() never indexes past the ring and never gives a buffer of a size that
\* is not in force: a configured swapchain has all the buffers of its length,
\* all of its size, also after a resize or an allocation that failed half-way.
RingAsConfigured ==
    /\ options.length > 0 /\ options.size # NoSize => options.length <= Len(buffers)
    /\ \A i \in 1 .. Len(buffers) : buffers[i].size = options.size

\* rollback() makes the buffer consumed last the next one again, also at the
\* ends of the ring ("marking the last consumed as the next valid").
RollbackUndoesNext ==
    undone => (lastAcquired + 1) % options.length = given
=============================================================================
