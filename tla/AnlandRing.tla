----------------------------- MODULE AnlandRing -----------------------------
(***************************************************************************)
(* The ring of the audio service, where the consumer's microphone samples  *)
(* wait for the source stream.                                             *)
(*                                                                         *)
(* The loop thread fills the ring under the loop's lock and set_fd (the    *)
(* main thread) empties it under that lock, but the source stream is an    *)
(* RT_PROCESS one: PipeWire's data thread reads the ring under no lock at  *)
(* all.  Loads and stores of the fill, which both sides change, are        *)
(* therefore steps of their own here, with size_t's wrap-around; but the   *)
(* writer's drop changes tail and fill in one step, from the fill loaded   *)
(* first, and the reader's copy moves the tail in one: races on the tail   *)
(* are left out, and no property is about what they leave.  Nor is the     *)
(* memory the copies touch: with a fill above the ring's size the reader   *)
(* copies from outside it.  A sample is one value.                         *)
(***************************************************************************)
EXTENDS Integers, Sequences, SequencesExt

CONSTANTS
    RingSize,  \* ring_size
    FillMod,   \* bound: one more than the largest size_t
    MaxPcm     \* most samples of one PCM message or of one request

ASSUME RingAssumption ==
    /\ RingSize \in Nat \ {0} /\ MaxPcm \in Nat \ {0}
    /\ FillMod \in Nat /\ FillMod > RingSize + 2 * MaxPcm

VARIABLES
    fed,       \* an audio socket is set
    ring,      \* the ring: cells, head, tail, fill
    w,         \* the writer (loop thread): where it is, its count, its load
    r,         \* the reader (data thread)
    queued,    \* history: the samples a FIFO of RingSize would hold
    overlap,   \* history: the reader has overlapped a writer or a reset
    whole,     \* history: the last write was disturbed by no reader
    next       \* the next sample

ringVars == <<fed, ring, w, r, queued, overlap, whole, next>>

SampleMod == 2 * RingSize
Samples == 0 .. SampleMod - 1

RingTypeOK ==
    /\ fed \in BOOLEAN
    /\ ring \in [cells : [0 .. RingSize - 1 -> Samples], head : 0 .. RingSize - 1,
                 tail : 0 .. RingSize - 1, fill : 0 .. FillMod - 1]
    /\ w \in [at : {"idle", "drop", "copy", "add"}, n : 0 .. MaxPcm, fill : 0 .. FillMod - 1]
    /\ r \in [at : {"idle", "tail", "load", "store"}, n : 0 .. MaxPcm, fill : 0 .. FillMod - 1]
    /\ queued \in BoundedSeq(Samples, RingSize)
    /\ overlap \in BOOLEAN /\ whole \in BOOLEAN /\ next \in Samples

-----------------------------------------------------------------------------
\* The k-th sample from now; samples of a torn ring are not told apart.
Sample(k) == IF overlap THEN 0 ELSE (next + k) % SampleMod

Wrap(i) == i % FillMod

\* on_audio_readable, a PCM message of n samples: ring_write loads the fill.
\* Of more samples than the ring holds only the last are kept.
WriteBegins(n) ==
    /\ fed /\ w.at = "idle"
    /\ w' = [at |-> "drop", n |-> IF n > RingSize THEN RingSize ELSE n, fill |-> ring.fill]
    /\ next' = Sample(IF n > RingSize THEN n - RingSize ELSE 0)
    /\ overlap' = (overlap \/ r.at # "idle") /\ whole' = (r.at = "idle")
    /\ UNCHANGED <<ring, r, queued, fed>>

\* A bug: what does not fit is not dropped from the tail.
WriteDrops_KeepsTail ==
    /\ w.at = "drop"
    /\ LET drop == Wrap(w.fill + w.n - RingSize)
       IN  ring' = IF Wrap(w.fill + w.n) > RingSize
                   THEN [ring EXCEPT !.fill = Wrap(w.fill - drop)]
                   ELSE ring
    /\ w' = [w EXCEPT !.at = "copy"]
    /\ UNCHANGED <<r, queued, overlap, whole, next, fed>>

\* A bug: the fill is left to the addition that follows.
WriteDrops_KeepsFill ==
    /\ w.at = "drop"
    /\ LET drop == Wrap(w.fill + w.n - RingSize)
       IN  ring' = IF Wrap(w.fill + w.n) > RingSize
                   THEN [ring EXCEPT !.tail = Wrap(@ + drop) % RingSize]
                   ELSE ring
    /\ w' = [w EXCEPT !.at = "copy"]
    /\ UNCHANGED <<r, queued, overlap, whole, next, fed>>

\* The oldest samples make room.
WriteDrops ==
    /\ w.at = "drop"
    /\ LET drop == Wrap(w.fill + w.n - RingSize)
       IN  ring' = IF Wrap(w.fill + w.n) > RingSize
                   THEN [ring EXCEPT !.tail = Wrap(@ + drop) % RingSize,
                                     !.fill = Wrap(w.fill - drop)]
                   ELSE ring
    /\ w' = [w EXCEPT !.at = "copy"]
    /\ UNCHANGED <<r, queued, overlap, whole, next, fed>>

\* The samples are copied; then the fill is loaded once more.
WriteCopies ==
    /\ w.at = "copy"
    /\ ring' = [ring EXCEPT
          !.cells = [c \in DOMAIN @ |->
                       LET k == (c - ring.head) % RingSize
                       IN  IF k < w.n THEN Sample(k) ELSE @[c]],
          !.head = (@ + w.n) % RingSize]
    /\ w' = [w EXCEPT !.at = "add", !.fill = ring.fill]
    /\ next' = Sample(w.n)
    /\ queued' = LET all == queued \o [k \in 1 .. w.n |-> Sample(k - 1)]
                     over == Len(all) - RingSize
                 IN  IF over > 0 THEN SubSeq(all, over + 1, Len(all)) ELSE all
    /\ UNCHANGED <<r, overlap, whole, fed>>

WriteEnds ==
    /\ w.at = "add"
    /\ ring' = [ring EXCEPT !.fill = Wrap(w.fill + w.n)]
    /\ w' = [at |-> "idle", n |-> 0, fill |-> 0]
    /\ UNCHANGED <<r, queued, overlap, whole, next, fed>>

\* on_source_process in the data thread: ring_read loads the fill, ...
ReadBegins(n) ==
    /\ r.at = "idle"
    /\ r' = [at |-> "tail", n |-> IF n < ring.fill THEN n ELSE ring.fill, fill |-> 0]
    /\ overlap' = (overlap \/ w.at # "idle") /\ whole' = (whole /\ w.at = "idle")
    /\ UNCHANGED <<ring, w, queued, next, fed>>

\* ... copies the samples and moves the tail, ...
ReadMovesTail ==
    /\ r.at = "tail"
    /\ ring' = [ring EXCEPT !.tail = (@ + r.n) % RingSize]
    /\ queued' = IF r.n > Len(queued) THEN <<>> ELSE SubSeq(queued, r.n + 1, Len(queued))
    /\ r' = [r EXCEPT !.at = "load"]
    /\ UNCHANGED <<w, overlap, whole, next, fed>>

\* ... loads the fill again and stores what is left.
ReadLoads ==
    /\ r.at = "load"
    /\ r' = [r EXCEPT !.at = "store", !.fill = ring.fill]
    /\ UNCHANGED <<ring, w, queued, overlap, whole, next, fed>>

ReadEnds ==
    /\ r.at = "store"
    /\ ring' = [ring EXCEPT !.fill = Wrap(r.fill - r.n)]
    /\ r' = [at |-> "idle", n |-> 0, fill |-> 0]
    /\ UNCHANGED <<w, queued, overlap, whole, next, fed>>

\* anland_audio_set_fd, with a socket or with none: ring_reset.  The lock
\* keeps the writer out, and not the reader.
SetFd(open) ==
    /\ w.at = "idle"
    /\ fed' = open
    /\ ring' = [ring EXCEPT !.head = 0, !.tail = 0, !.fill = 0]
    /\ queued' = <<>>
    /\ overlap' = (r.at # "idle") /\ whole' = (r.at = "idle")
    /\ UNCHANGED <<w, r, next>>

-----------------------------------------------------------------------------
RingInit ==
    /\ fed = FALSE
    /\ ring = [cells |-> [c \in 0 .. RingSize - 1 |-> 0], head |-> 0, tail |-> 0, fill |-> 0]
    /\ w = [at |-> "idle", n |-> 0, fill |-> 0]
    /\ r = [at |-> "idle", n |-> 0, fill |-> 0]
    /\ queued = <<>> /\ overlap = FALSE /\ whole = TRUE /\ next = 0

RingNext ==
    \/ WriteDrops \/ WriteCopies \/ WriteEnds \/ ReadMovesTail \/ ReadLoads \/ ReadEnds
    \/ \E n \in 1 .. MaxPcm : WriteBegins(n) \/ ReadBegins(n)
    \/ \E open \in BOOLEAN : SetFd(open)

RingSpec == RingInit /\ [][RingNext]_ringVars

-----------------------------------------------------------------------------
(* Properties.                                                             *)

\* While no reader and writer have overlapped since the last set_fd, the ring
\* holds the samples that came last, oldest first, and no more than it has
\* room for (ring_write, ring_read, ring_reset).
RingIsFifo ==
    ~overlap /\ w.at = "idle" /\ r.at = "idle" =>
        /\ ring.fill = Len(queued)
        /\ \A k \in 1 .. Len(queued) : ring.cells[(ring.tail + k - 1) % RingSize] = queued[k]

\* A write that no reader disturbs leaves a fill the ring has room for, however
\* earlier races left the counters: what ring_write drops makes up for them,
\* also when the reader's subtraction has wrapped below zero.  Where tail and
\* head are is another matter: only set_fd puts them right again.
RingHeals ==
    whole /\ w.at = "idle" /\ r.at = "idle" => ring.fill <= RingSize
=============================================================================
