--------------------------- MODULE AnlandBuffers ---------------------------
(***************************************************************************)
(* Who owns which file descriptor of the Anland buffers.  The daemon hands *)
(* the producer one descriptor per DMA-BUF of a consumer; the output's     *)
(* slots wrap duplicates of them, a cache keeps another duplicate, and     *)
(* every party closes numbers, not files: the kernel gives a closed number *)
(* to whoever opens a file next.                                           *)
(*                                                                         *)
(* All buffers of one consumer have the same format, modifier and size, so *)
(* every valid entry of the DMA-BUF cache matches and at most one is ever  *)
(* filled: the cache is one descriptor here.  It is emptied with the       *)
(* consumer, so only slots that importBuffer failed on look into it.       *)
(***************************************************************************)
EXTENDS Naturals, FiniteSets, FiniteSetsExt

CONSTANTS
    NumFds,     \* size of the process's descriptor table
    MAX_BUFS,   \* most buffers of one consumer
    MaxConns,   \* bound: consumers that connect, one after the other
    MaxOthers   \* bound: files that other parts of the process hold open

ASSUME BoundsAssumption ==
    /\ NumFds \in Nat \ {0}
    /\ MAX_BUFS \in Nat \ {0}
    /\ MaxConns \in Nat
    /\ MaxOthers \in Nat

Fds == 0 .. NumFds - 1
NoFd == NumFds                 \* -1
Idx == 0 .. MAX_BUFS - 1
Conns == 1 .. MaxConns

\* What a descriptor may refer to.
Dmabuf(c, i) == <<"dmabuf", c, i>>
Channel(c) == <<"channel", c>>
Other == <<"other">>
Nothing == <<"nothing">>
Dmabufs == {Dmabuf(c, i) : c \in Conns, i \in Idx}
Files == Dmabufs \cup {Channel(c) : c \in Conns} \cup {Other, Nothing}

\* A CAnlandDmaBuffer, with the descriptor it owns.
NoBuf == [conn |-> 0, idx |-> 0, fd |-> NoFd]
Bufs == [conn : Conns, idx : Idx, fd : Fds]

VARIABLES
    file,      \* the descriptor table
    conn,      \* consumers so far
    fallback,  \* the producer is in fallback
    ctxFds,    \* the context's dmabuf_fds
    count,     \* the context's buf_count, and m_bufferCount
    chan,      \* one of its other descriptors (data_fd)
    slot,      \* the buffer of each slot; imported exactly if there is one
    staged,    \* the buffer that the output's state refers to
    cache,     \* the DMA-BUF cache's descriptor
    others,    \* descriptors that other parts of the process believe to own
    inFallback,\* m_inFallback of the output
    imported,  \* m_buffersImported of the output
    down       \* shutdown() ran

vars == <<file, conn, fallback, ctxFds, count, chan, slot, staged, cache,
          others, inFallback, imported, down>>

TypeOK ==
    /\ file \in [Fds -> Files]
    /\ conn \in 0 .. MaxConns
    /\ fallback \in BOOLEAN
    /\ ctxFds \in [Idx -> Fds \cup {NoFd}]
    /\ count \in 0 .. MAX_BUFS
    /\ chan \in Fds \cup {NoFd}
    /\ slot \in [Idx -> Bufs \cup {NoBuf}]
    /\ staged \in Bufs \cup {NoBuf}
    /\ cache \in Fds \cup {NoFd}
    /\ others \subseteq Fds
    /\ inFallback \in BOOLEAN /\ imported \in BOOLEAN
    /\ down \in BOOLEAN

-----------------------------------------------------------------------------
(* The descriptor table.                                                   *)

Free(f) == {n \in Fds : f[n] = Nothing}
Lowest(f) == IF Free(f) = {} THEN NoFd ELSE Min(Free(f))
Opened(f, x) == IF Free(f) = {} THEN f ELSE [f EXCEPT ![Lowest(f)] = x]

\* dup(n): the new number, and the table after it.
DupFd(f, n) == IF n \in Fds /\ f[n] # Nothing THEN Lowest(f) ELSE NoFd
Duped(f, n) == IF DupFd(f, n) = NoFd THEN f ELSE Opened(f, f[n])

\* close(n), of whatever it refers to now.
Closed(f, n) == IF n \in Fds THEN [f EXCEPT ![n] = Nothing] ELSE f

\* Several descriptors closed; the order does not matter.
ClosedAll(f, S) == [n \in Fds |-> IF n \in S THEN Nothing ELSE f[n]]

-----------------------------------------------------------------------------
(* Importing.  A world is the table with the slots.                        *)

\* The descriptors that die with the buffers in gone, but for those still
\* referred to.  A bug: a buffer dies with its first reference.
DeadFds_FirstReference(gone, kept) == {b.fd : b \in gone} \ {NoFd}

DeadFds(gone, kept) == {b.fd : b \in gone \ kept} \ {NoFd}

SlotBufs == {slot[i] : i \in Idx}

\* importBuffer.  A bug: the buffer takes the context's descriptor over
\* instead of a duplicate, and it is closed all the same.
ImportBuffer_NoDup(w, fds, c, i) ==
    [file |-> Closed(w.file, fds[i]),
     slot |-> [w.slot EXCEPT ![i] = [conn |-> c, idx |-> i, fd |-> fds[i]]]]

\* The buffer duplicates the context's descriptor, and the context's own is
\* closed, whether the duplication worked or not.
ImportBuffer(w, fds, c, i) ==
    LET own == DupFd(w.file, fds[i]) IN
    [file |-> Closed(Duped(w.file, fds[i]), fds[i]),
     slot |-> [w.slot EXCEPT ![i] =
                  IF own = NoFd THEN NoBuf
                  ELSE [conn |-> c, idx |-> i, fd |-> own]]]

\* importBuffers: every old buffer is dropped, then n slots are imported in
\* order.
ImportBuffers(f, fds, c, n) ==
    LET world[i \in 0 .. n] ==
            IF i = 0
            THEN [file |-> ClosedAll(f, DeadFds(SlotBufs, {staged})),
                  slot |-> [j \in Idx |-> NoBuf]]
            ELSE ImportBuffer(world[i - 1], fds, c, i - 1)
    IN world[n]

\* pickup_fds and receive_dmabufs: the kernel installs the descriptors of a
\* message in order.
Received(f, c, n) ==
    LET table[i \in 0 .. n] ==
            IF i = 0 THEN Opened(f, Channel(c))
            ELSE Opened(table[i - 1], Dmabuf(c, i - 1))
    IN table

\* try_exit_fallback: what the producer has of a consumer with n buffers.  The
\* handshake fails, and leaves nothing behind, if the table has no room for
\* the descriptors.
HasRoom(n) == Cardinality(Free(file)) > n
DmabufFds(n) ==
    LET table == Received(file, conn + 1, n)
    IN  [i \in Idx |-> IF i < n THEN Lowest(table[i]) ELSE ctxFds[i]]
Handshake(n) ==
    /\ fallback /\ ~down
    /\ conn < MaxConns
    /\ HasRoom(n)
    /\ conn' = conn + 1
    /\ fallback' = FALSE
    /\ chan' = Lowest(file)
    /\ ctxFds' = DmabufFds(n)
    /\ count' = n

\* tryConnect() while the output is in fallback: exitFallback imports at once.
TryExitFallback(n) ==
    LET w == ImportBuffers(Received(file, conn + 1, n)[n], DmabufFds(n), conn + 1, n)
    IN
    /\ inFallback
    /\ Handshake(n)
    /\ inFallback' = FALSE /\ imported' = TRUE
    /\ file' = w.file
    /\ slot' = w.slot
    /\ UNCHANGED <<staged, cache, others, down>>

\* The consumer dies between its handshake and exitFallback: the context
\* closes what it received, and the output leaves fallback all the same, with
\* nothing imported.
ConnectAndLose ==
    /\ fallback /\ inFallback /\ ~down
    /\ conn < MaxConns
    /\ conn' = conn + 1
    /\ inFallback' = FALSE
    /\ UNCHANGED <<file, fallback, ctxFds, count, chan, slot, staged, cache, others, imported, down>>

\* After that the timer connects again only if it was start() that met the
\* first consumer: the handler of the timer takes the timer down.  The output
\* is not in fallback, so its exitFallback() does nothing, and the import is
\* left to the next commit.  (That this second consumer dies in its handshake
\* as well is left out.)
Reconnect(n) ==
    /\ ~inFallback /\ conn = 1
    /\ Handshake(n)
    /\ file' = Received(file, conn + 1, n)[n]
    /\ UNCHANGED <<slot, staged, cache, others, inFallback, imported, down>>

-----------------------------------------------------------------------------
(* Committing.                                                             *)

\* cacheOrImportBuffer's normal import, with a cache that may have been
\* invalidated on the way.
DoImport(w, i) ==
    LET fd == ctxFds[i]
        own == DupFd(w.file, fd)
        f1 == Duped(w.file, fd)
    IN IF own = NoFd
       THEN [w EXCEPT !.file = Closed(w.file, fd)]
       ELSE LET f2 == Closed(f1, w.cache) IN
            [file  |-> Duped(f2, fd),
             slot  |-> [w.slot EXCEPT ![i] = [conn |-> conn, idx |-> i, fd |-> own]],
             cache |-> DupFd(f2, fd)]

\* cacheOrImportBuffer.  On a hit the buffer is made of a duplicate of the
\* cached descriptor, and duplicates it once more; the one in between is
\* never closed, the context's is.
CacheOrImportBuffer(w, i) ==
    LET dupFd == DupFd(w.file, w.cache)
        f1 == Duped(w.file, w.cache)
        own == DupFd(f1, dupFd)
    IN IF w.cache = NoFd THEN DoImport(w, i)
       ELSE IF dupFd = NoFd \/ own = NoFd
       THEN DoImport([w EXCEPT !.file = Closed(f1, w.cache), !.cache = NoFd], i)
       ELSE [file  |-> Closed(Duped(f1, dupFd), ctxFds[i]),
             slot  |-> [w.slot EXCEPT ![i] = [conn |-> conn, idx |-> i, fd |-> own]],
             cache |-> w.cache]

\* What a commit works on, once it has imported the buffers that exitFallback
\* could not.
Imported ==
    LET all == ImportBuffers(file, ctxFds, conn, count)
    IN  IF imported THEN [file |-> file, slot |-> slot, cache |-> cache]
        ELSE [file |-> all.file, slot |-> all.slot, cache |-> cache]

\* The buffers' part of commit(), with the index that the consumer selected in
\* the shared page.  The state keeps the slot's buffer alive until the next one
\* is staged.
CommitBuffer(i) ==
    LET w == IF Imported.slot[i] = NoBuf THEN CacheOrImportBuffer(Imported, i) ELSE Imported
        now == IF w.slot[i] = NoBuf THEN staged ELSE w.slot[i]
        kept == {w.slot[j] : j \in Idx} \cup {now}
    IN
    /\ ~fallback /\ ~inFallback /\ ~down
    /\ i < count
    /\ file' = ClosedAll(w.file, DeadFds({staged}, kept))
    /\ slot' = w.slot
    /\ cache' = w.cache
    /\ staged' = now
    /\ imported' = TRUE
    /\ UNCHANGED <<conn, fallback, ctxFds, count, chan, others, inFallback, down>>

-----------------------------------------------------------------------------
(* The consumer goes, and the end.                                         *)

\* release_consumer_resources.
ContextFds == ({ctxFds[i] : i \in {j \in Idx : j < count}} \cup {chan}) \ {NoFd}
ForgetContext ==
    /\ ctxFds' = [i \in Idx |-> IF i < count THEN NoFd ELSE ctxFds[i]]
    /\ count' = 0
    /\ chan' = NoFd

\* enter_fallback, CAnlandBackend::enterFallback and, in it, the output's
\* releaseBuffers.
ReleaseConsumer ==
    /\ ~fallback /\ ~down
    /\ fallback' = TRUE
    /\ file' = ClosedAll(file, ContextFds \cup {cache} \cup DeadFds(SlotBufs, {staged}))
    /\ ForgetContext
    /\ cache' = NoFd
    /\ slot' = [i \in Idx |-> NoBuf]
    /\ inFallback' = TRUE /\ imported' = FALSE
    /\ UNCHANGED <<conn, staged, others, down>>

\* CAnlandBackend::shutdown: the cache, the output with its state, the
\* context.  A bug: the buffer that the state refers to is forgotten.
Shutdown_KeepsStaged ==
    /\ ~down
    /\ down' = TRUE
    /\ file' = ClosedAll(file, ContextFds \cup {cache} \cup DeadFds(SlotBufs, {staged}))
    /\ ForgetContext
    /\ cache' = NoFd
    /\ slot' = [i \in Idx |-> NoBuf]
    /\ staged' = NoBuf
    /\ imported' = FALSE
    /\ UNCHANGED <<conn, fallback, others, inFallback>>

Shutdown ==
    /\ ~down
    /\ down' = TRUE
    /\ file' = ClosedAll(file, ContextFds \cup {cache} \cup DeadFds(SlotBufs \cup {staged}, {}))
    /\ ForgetContext
    /\ cache' = NoFd
    /\ slot' = [i \in Idx |-> NoBuf]
    /\ staged' = NoBuf
    /\ imported' = FALSE
    /\ UNCHANGED <<conn, fallback, others, inFallback>>

\* The rest of the process opens and closes files of its own.
OpenOther ==
    /\ Cardinality(others) < MaxOthers
    /\ Free(file) # {}
    /\ file' = Opened(file, Other)
    /\ others' = others \cup {Lowest(file)}
    /\ UNCHANGED <<conn, fallback, ctxFds, count, chan, slot, staged, cache, inFallback,
                  imported, down>>

CloseOther ==
    \E n \in others :
        /\ others' = others \ {n}
        /\ file' = Closed(file, n)
        /\ UNCHANGED <<conn, fallback, ctxFds, count, chan, slot, staged, cache,
                       inFallback, imported, down>>

-----------------------------------------------------------------------------

Init ==
    /\ file = [n \in Fds |-> Nothing]
    /\ conn = 0
    /\ fallback = TRUE
    /\ ctxFds = [i \in Idx |-> NoFd]
    /\ count = 0
    /\ chan = NoFd
    /\ slot = [i \in Idx |-> NoBuf]
    /\ staged = NoBuf
    /\ cache = NoFd
    /\ others = {}
    /\ inFallback = TRUE /\ imported = FALSE
    /\ down = FALSE

Next ==
    \/ \E n \in 1 .. MAX_BUFS : TryExitFallback(n) \/ Reconnect(n)
    \/ ConnectAndLose
    \/ \E i \in Idx : CommitBuffer(i)
    \/ ReleaseConsumer
    \/ Shutdown
    \/ OpenOther
    \/ CloseOther

Spec == Init /\ [][Next]_vars

-----------------------------------------------------------------------------

\* importBuffer and commit.  As long as the first consumer stays, every slot
\* wraps the very buffer that the daemon announced under its index, however
\* the numbers are reused: the consumer shows what was rendered for it.  (With
\* room for all duplicates: NumFds >= MAX_BUFS + 2 + MaxOthers.)
SlotIsItsDmabuf ==
    conn = 1 /\ ~fallback /\ ~down =>
        \A i \in Idx : slot[i] # NoBuf => file[slot[i].fd] = Dmabuf(1, i)

\* importBuffer and cacheOrImportBuffer.  As long as the first consumer
\* stays, nobody closes a descriptor of the link or of another part of the
\* process.
NoForeignClose ==
    conn = 1 /\ ~fallback /\ ~down =>
        /\ file[chan] = Channel(1)
        /\ \A n \in others : file[n] = Other

\* shutdown.  Once it ran, and through all consumers before it, no buffer of
\* a consumer is kept alive by a descriptor that was forgotten open.
ShutdownClosesAll ==
    down => \A n \in Fds : file[n] \notin Dmabufs

\* The comment on CAnlandDmaBuffer: it "wraps a dmabuf fd from the Android
\* display daemon".  Stated for every buffer that a slot holds.
WrapsDmabuf ==
    \A i \in Idx : slot[i] # NoBuf => file[slot[i].fd] \in Dmabufs

=============================================================================
