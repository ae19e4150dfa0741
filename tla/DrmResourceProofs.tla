------------------------- MODULE DrmResourceProofs --------------------------
(***************************************************************************)
(* Proofs about what a session drives its outputs with: the connectors of  *)
(* a GPU, the GPUs, the ring of an output's buffers and the allocator      *)
(* behind it.                                                              *)
(*                                                                         *)
(* recheckOutputs, for any connectors, CRTCs and tiled monitors, whatever  *)
(* drmModeGetConnector fails for: recheckCRTCs goes through the slots, and *)
(* what holds after each is proved by induction over them (AfterSlot).     *)
(* The properties follow from the phases in their order, and need nothing  *)
(* of the state before but its type.                                       *)
(*                                                                         *)
(* The list of implementations, for any GPUs and requests: a primary comes *)
(* before the GPUs it renders for (PrimariesFirst).  The first GPU of the  *)
(* list therefore never has a primary, which is why a GPU that is plugged  *)
(* later may take it as its own.                                           *)
(*                                                                         *)
(* Swapchain, for any length, sizes and formats: RingAsConfigured is       *)
(* inductive with the types; what rollback() restores also needs to know   *)
(* where next() left the ring (HandedOut).                                 *)
(*                                                                         *)
(* Allocator: both properties are inductive together, with the types.      *)
(* That the kernel finds as many lowest free descriptors as it is asked    *)
(* for is an induction over their number (LowestExist).                    *)
(***************************************************************************)
EXTENDS DrmCrtc, BackendStart, Swapchain, Gbm, Basics, SequenceTheorems, FiniteSetTheorems, TLAPS

Assignments == [Connectors -> ConnState]

CrtcInv ==
    /\ listed \subseteq Connectors
    /\ connectors \in Seq(Connectors)
    /\ conn \in Assignments

-----------------------------------------------------------------------------
(* Lists of connectors.                                                    *)

LEMMA KnownContains ==
    ASSUME NEW seq \in Seq(Connectors)
    PROVE  /\ Known(seq) \subseteq Connectors
           /\ \A c : c \in Known(seq) <=> Contains(seq, c)
<1>1. DOMAIN seq = 1 .. Len(seq)
  OBVIOUS
<1>2. \A c : c \in Known(seq) <=> Contains(seq, c)
  BY <1>1 DEF Known, Range, Contains
<1>3. Known(seq) \subseteq Connectors
  BY <1>1 DEF Known, Range
<1> QED BY <1>2, <1>3

LEMMA FirstKnown ==
    ASSUME NEW seq \in Seq(Connectors), NEW S, S \subseteq Known(seq), S # {}
    PROVE  First(seq, S) \in S
<1>1. PICK c : c \in S
  OBVIOUS
<1>2. Contains(seq, c)
  BY <1>1, KnownContains
<1> QED BY <1>1, <1>2, FirstProperties

LEMMA ScanOrderType ==
    ASSUME CrtcInv, NEW got, got \subseteq listed
    PROVE  ScanOrder(got) \in Seq(Connectors)
<1>1. Keep(connectors, listed) \in Seq(Connectors)
  BY KeepProperties DEF CrtcInv
<1>2. Keep(ConnectorList, got \ Known(connectors)) \in Seq(Connectors)
  BY KeepProperties, CrtcAssumption
<1> QED BY <1>1, <1>2, ConcatProperties DEF ScanOrder

-----------------------------------------------------------------------------
(* recheckCRTCs.                                                           *)

\* What the assignment changes is only the CRTC.
SameBut(f, g) ==
    \A c \in Connectors : /\ g[c].status = f[c].status
                          /\ g[c].output = f[c].output
                          /\ g[c].redundant = f[c].redundant

\* After slots 1 .. n, with s the assignment and what is left, from f.
AfterSlot(seq, f, s, n) ==
    /\ s = [f |-> s.f, left |-> s.left]
    /\ s.f \in Assignments
    /\ s.left \subseteq Rechecked(seq, f)
    /\ SameBut(f, s.f)
    /\ \A c \in Connectors : c \notin Rechecked(seq, f) => s.f[c] = f[c]
    /\ \A c \in s.left : s.f[c] = f[c]
    /\ \A c \in Rechecked(seq, f) : s.f[c].crtc = NoCrtc => c \in s.left
    /\ \A c \in s.left : s.f[c].status =>
          \A i \in Possible[c] : i <= n => Taken(seq, s.f, i)

\* The recursion that RecheckCRTCs stands for has a solution.
LEMMA RecheckStep ==
    ASSUME NEW seq, NEW f
    PROVE  \E step :
              /\ RecheckCRTCs(seq, f) = step[NumCrtcs].f
              /\ step[0] = [f |-> f, left |-> Rechecked(seq, f)]
              /\ \A n \in 1 .. NumCrtcs : step[n] = AssignSlot(seq, step[n - 1], n)
<1> DEFINE Body(g, n) == IF n = 0 THEN [f |-> f, left |-> Rechecked(seq, f)]
                         ELSE AssignSlot(seq, g[n - 1], n)
           R == CHOOSE g : g = [n \in 0 .. NumCrtcs |-> Body(g, n)]
           G == {m \in 0 .. NumCrtcs : \E g : g = [n \in 0 .. m |-> Body(g, n)]}
<1>1. RecheckCRTCs(seq, f) = R[NumCrtcs].f
  BY DEF RecheckCRTCs
<1>2. NumCrtcs \in Nat
  BY CrtcAssumption
<1>3. 0 \in G
  <2>1. PICK g : g = [n \in 0 .. 0 |-> [f |-> f, left |-> Rechecked(seq, f)]]
    OBVIOUS
  <2>2. g = [n \in 0 .. 0 |-> Body(g, n)]
    BY <2>1
  <2> HIDE DEF Body
  <2> QED BY <1>2, <2>2
<1>4. ASSUME NEW m \in 1 .. NumCrtcs, m - 1 \in G PROVE m \in G
  <2>1. PICK g : g = [n \in 0 .. m - 1 |-> Body(g, n)]
    BY <1>4
  <2>2. PICK h : h = [n \in 0 .. m |-> IF n = m THEN Body(g, m) ELSE g[n]]
    OBVIOUS
  <2>3. ASSUME NEW n \in 0 .. m PROVE h[n] = Body(h, n)
    <3>1. n # 0 => n - 1 \in 0 .. m /\ n - 1 # m
      OBVIOUS
    <3>2. Body(h, n) = Body(g, n)
      BY <2>2, <3>1
    <3> HIDE DEF Body
    <3>3. h[n] = Body(g, n)
      <4>1. CASE n = m
        BY <2>2, <4>1
      <4>2. CASE n # m
        <5>1. n \in 0 .. m - 1 /\ h[n] = g[n]
          BY <2>2, <4>2
        <5> QED BY <2>1, <5>1
      <4> QED BY <4>1, <4>2
    <3> QED BY <3>2, <3>3
  <2> HIDE DEF Body
  <2>4. h = [n \in 0 .. m |-> Body(h, n)]
    BY <2>2, <2>3
  <2> QED BY <2>4
<1>5. NumCrtcs \in G
  <2> HIDE DEF G
  <2>1. \A k \in 0 .. NumCrtcs : k \in G
    BY <1>2, <1>3, <1>4, UpTo
  <2> QED BY <1>2, <2>1
<1>6. PICK g : g = [n \in 0 .. NumCrtcs |-> Body(g, n)]
  BY <1>5
<1>7. R = [n \in 0 .. NumCrtcs |-> Body(R, n)]
  BY <1>6
<1> HIDE DEF R
<1>8. R[0] = [f |-> f, left |-> Rechecked(seq, f)]
  BY <1>2, <1>7
<1>9. ASSUME NEW n \in 1 .. NumCrtcs PROVE R[n] = AssignSlot(seq, R[n - 1], n)
  <2>1. n \in 0 .. NumCrtcs /\ n # 0
    BY <1>2
  <2>2. R[n] = Body(R, n)
    <3> HIDE DEF Body
    <3> QED BY <1>7, <2>1
  <2> QED BY <2>1, <2>2
<1> QED BY <1>1, <1>8, <1>9

\* One slot more.
LEMMA SlotAssigned ==
    ASSUME NEW seq \in Seq(Connectors), NEW f \in Assignments, NEW s, NEW n \in Crtcs,
           AfterSlot(seq, f, s, n - 1)
    PROVE  AfterSlot(seq, f, AssignSlot(seq, s, n), n)
<1> DEFINE able == {c \in s.left : n \in Possible[c] /\ s.f[c].status}
           d    == First(seq, able)
           t    == AssignSlot(seq, s, n)
<1>n. n \in Nat /\ n # NoCrtc /\ n \in 1 .. NumCrtcs /\ NumCrtcs \in Nat
  BY CrtcAssumption DEF Crtcs, NoCrtc
<1>p. \A c \in Connectors : Possible[c] \subseteq Crtcs
  BY CrtcAssumption
<1>i. \A i \in Crtcs : i <= n => i <= n - 1 \/ i = n
  BY <1>n DEF Crtcs
<1>k. Known(seq) \subseteq Connectors
  BY KnownContains
<1>l. /\ s.left \subseteq Known(seq) /\ s.left \subseteq Connectors
      /\ \A c \in s.left : ~f[c].redundant /\ (f[c].status => f[c].crtc = NoCrtc)
  BY <1>k DEF AfterSlot, Rechecked
<1>s. /\ s.f \in Assignments /\ s.left \subseteq Rechecked(seq, f) /\ SameBut(f, s.f)
      /\ s = [f |-> s.f, left |-> s.left]
  BY DEF AfterSlot
<1>1. CASE Taken(seq, s.f, n) \/ able = {}
  <2>1. t = s
    BY <1>1 DEF AssignSlot
  <2>2. ASSUME NEW c \in s.left, s.f[c].status, NEW i \in Possible[c], i <= n
        PROVE  Taken(seq, s.f, i)
    <3>1. CASE i = n
      BY <1>1, <2>2, <3>1
    <3>2. CASE i <= n - 1
      BY <2>2, <3>2 DEF AfterSlot
    <3> QED BY <1>i, <1>l, <1>p, <2>2, <3>1, <3>2
  <2>3. AfterSlot(seq, f, s, n)
    BY <2>2 DEF AfterSlot
  <2> QED BY <2>1, <2>3
<1>2. CASE ~Taken(seq, s.f, n) /\ able # {}
  <2>1. able \subseteq Known(seq)
    BY <1>l
  <2>2. d \in able
    <3> HIDE DEF able, d
    <3>1. First(seq, able) \in able
      BY <1>2, <2>1, FirstKnown
    <3> QED BY <3>1 DEF d
  <2>3. d \in s.left /\ d \in Connectors /\ n \in Possible[d] /\ s.f[d].status
    BY <1>l, <2>2
  <2>4. t = [f |-> [s.f EXCEPT ![d].crtc = n], left |-> s.left \ {d}]
    BY <1>2 DEF AssignSlot
  <2> HIDE DEF d, able, t
  <2>5. t.f = [s.f EXCEPT ![d].crtc = n] /\ t.left = s.left \ {d}
        /\ t = [f |-> t.f, left |-> t.left]
    BY <2>4
  <2>6. /\ t.f \in Assignments
        /\ \A c \in Connectors : c # d => t.f[c] = s.f[c]
        /\ t.f[d].crtc = n /\ t.f[d].status = s.f[d].status
        /\ t.f[d].output = s.f[d].output /\ t.f[d].redundant = s.f[d].redundant
    <3>1. PICK g : g = s.f
      OBVIOUS
    <3>2. g \in [Connectors -> ConnState] /\ g[d] \in ConnState /\ n \in Crtcs \cup {NoCrtc}
      BY <1>s, <2>3, <3>1 DEF Assignments
    <3>3. PICK e : e = [g[d] EXCEPT !.crtc = n]
      OBVIOUS
    <3>4. /\ e \in ConnState /\ e.crtc = n /\ e.status = g[d].status
          /\ e.output = g[d].output /\ e.redundant = g[d].redundant
      BY <3>2, <3>3 DEF ConnState
    <3>5. t.f = [g EXCEPT ![d] = e]
      BY <2>5, <3>1, <3>3
    <3>6. /\ t.f \in [Connectors -> ConnState] /\ t.f[d] = e
          /\ \A c \in Connectors : c # d => t.f[c] = g[c]
      BY <2>3, <3>2, <3>4, <3>5
    <3> QED BY <3>1, <3>4, <3>6 DEF Assignments
  <2>7. SameBut(f, t.f)
    BY <1>s, <2>6 DEF SameBut
  <2>8. \A c \in Connectors : c \notin Rechecked(seq, f) => t.f[c] = f[c]
    BY <1>s, <2>3, <2>6 DEF AfterSlot
  <2>9. \A c \in t.left : t.f[c] = f[c]
    BY <1>l, <2>5, <2>6 DEF AfterSlot
  <2>10. \A c \in Rechecked(seq, f) : t.f[c].crtc = NoCrtc => c \in t.left
    <3>1. Rechecked(seq, f) \subseteq Connectors
      BY <1>k DEF Rechecked
    <3> QED BY <1>n, <2>5, <2>6, <3>1 DEF AfterSlot
  <2>11. d \in Known(seq) /\ ~t.f[d].redundant /\ t.f[d].status
    <3>1. s.f[d].redundant = f[d].redundant
      BY <1>s, <2>3 DEF SameBut
    <3> QED BY <1>l, <2>3, <2>6, <3>1
  <2>12. Taken(seq, t.f, n)
    BY <2>6, <2>11 DEF Taken
  <2>13. ASSUME NEW i \in Crtcs, Taken(seq, s.f, i) PROVE Taken(seq, t.f, i)
    <3>1. PICK e \in Known(seq) : s.f[e].crtc = i /\ s.f[e].status /\ ~s.f[e].redundant
      BY <2>13 DEF Taken
    <3>2. s.f[d].crtc = NoCrtc
      <4>1. s.f[d] = f[d]
        BY <2>3 DEF AfterSlot
      <4> QED BY <1>l, <2>3, <4>1
    <3>3. i # NoCrtc
      BY DEF Crtcs, NoCrtc
    <3>4. e # d /\ e \in Connectors
      BY <1>k, <3>1, <3>2, <3>3
    <3>5. t.f[e] = s.f[e]
      BY <2>6, <3>4
    <3> QED BY <3>1, <3>5 DEF Taken
  <2>14. ASSUME NEW c \in t.left, t.f[c].status, NEW i \in Possible[c], i <= n
         PROVE  Taken(seq, t.f, i)
    <3>1. c \in s.left /\ c # d /\ c \in Connectors /\ s.f[c].status /\ i \in Crtcs
      BY <1>l, <1>p, <2>5, <2>6, <2>14
    <3>2. CASE i = n
      BY <2>12, <3>2
    <3>3. CASE i <= n - 1
      <4>1. Taken(seq, s.f, i)
        BY <2>14, <3>1, <3>3 DEF AfterSlot
      <4> QED BY <2>13, <3>1, <4>1
    <3> QED BY <1>i, <2>14, <3>1, <3>2, <3>3
  <2>15. t.left \subseteq Rechecked(seq, f)
    BY <1>s, <2>5
  <2>16. AfterSlot(seq, f, t, n)
    BY <2>5, <2>6, <2>7, <2>8, <2>9, <2>10, <2>14, <2>15 DEF AfterSlot
  <2> QED BY <2>16 DEF t
<1> QED BY <1>1, <1>2

\* What recheckCRTCs does: only CRTCs change, only those of connectors that
\* take part, and who takes part and ends without one finds them all taken.
LEMMA Rechecks ==
    ASSUME NEW seq \in Seq(Connectors), NEW f \in Assignments
    PROVE  LET r == RecheckCRTCs(seq, f)
           IN  /\ r \in Assignments
               /\ SameBut(f, r)
               /\ \A c \in Connectors : c \notin Rechecked(seq, f) => r[c] = f[c]
               /\ \A c \in Known(seq) : f[c].status /\ ~f[c].redundant /\ r[c].crtc = NoCrtc
                      => \A i \in Possible[c] : Taken(seq, r, i)
<1>1. PICK step :
        /\ RecheckCRTCs(seq, f) = step[NumCrtcs].f
        /\ step[0] = [f |-> f, left |-> Rechecked(seq, f)]
        /\ \A n \in 1 .. NumCrtcs : step[n] = AssignSlot(seq, step[n - 1], n)
  BY RecheckStep
<1>2. NumCrtcs \in Nat
  BY CrtcAssumption
<1>k. Known(seq) \subseteq Connectors
  BY KnownContains
<1>p. \A c \in Connectors : Possible[c] \subseteq Crtcs
  BY CrtcAssumption
<1> DEFINE G == {n \in 0 .. NumCrtcs : AfterSlot(seq, f, step[n], n)}
<1>3. 0 \in G
  <2>1. step[0].f = f /\ step[0].left = Rechecked(seq, f)
    BY <1>1
  <2>2. \A c \in Rechecked(seq, f) : \A i \in Possible[c] : ~(i <= 0)
    BY <1>k, <1>p DEF Rechecked, Crtcs
  <2>3. AfterSlot(seq, f, step[0], 0)
    BY <1>1, <2>1, <2>2 DEF AfterSlot, SameBut
  <2> QED BY <1>2, <2>3
<1>4. ASSUME NEW n \in 1 .. NumCrtcs, n - 1 \in G PROVE n \in G
  <2>1. AfterSlot(seq, f, step[n - 1], n - 1) /\ n \in Crtcs
    BY <1>4 DEF Crtcs
  <2>2. AfterSlot(seq, f, AssignSlot(seq, step[n - 1], n), n)
    BY <2>1, SlotAssigned
  <2>3. AfterSlot(seq, f, step[n], n)
    BY <1>1, <2>2
  <2> QED BY <1>2, <2>3
<1>5. AfterSlot(seq, f, step[NumCrtcs], NumCrtcs)
  <2>1. \A n \in 0 .. NumCrtcs : n \in G
    <3> HIDE DEF G
    <3> QED BY <1>2, <1>3, <1>4, UpTo
  <2> QED BY <1>2, <2>1
<1>6. PICK s : s = step[NumCrtcs]
  OBVIOUS
<1>7. AfterSlot(seq, f, s, NumCrtcs) /\ RecheckCRTCs(seq, f) = s.f
  BY <1>1, <1>5, <1>6
<1>8. ASSUME NEW c \in Known(seq), f[c].status, ~f[c].redundant, s.f[c].crtc = NoCrtc,
             NEW i \in Possible[c]
      PROVE  Taken(seq, s.f, i)
  <2>1. c \in Connectors /\ i \in Crtcs /\ i <= NumCrtcs
    BY <1>k, <1>p, <1>2, <1>8 DEF Crtcs
  <2>2. c \in Rechecked(seq, f)
    <3>1. CASE c \notin Rechecked(seq, f)
      <4>1. s.f[c] = f[c]
        BY <1>7, <2>1, <3>1 DEF AfterSlot
      <4> QED BY <1>8, <4>1 DEF Rechecked
    <3> QED BY <3>1
  <2>3. c \in s.left /\ s.f[c].status
    BY <1>7, <1>8, <2>1, <2>2 DEF AfterSlot, SameBut
  <2> QED BY <1>7, <2>1, <2>3 DEF AfterSlot
<1> QED BY <1>7, <1>8 DEF AfterSlot

-----------------------------------------------------------------------------
(* The other phases.                                                       *)

LEMMA Scanned ==
    ASSUME CrtcInv, NEW got, got \subseteq listed
    PROVE  LET f == ScanConnectors(got)
           IN  /\ f \in Assignments
               /\ \A c \in Connectors : c \in listed =>
                      f[c].crtc = conn[c].crtc /\ f[c].output = conn[c].output
               /\ \A c \in Connectors : c \notin listed => f[c].output = FALSE /\ f[c].status = FALSE
<1> DEFINE f == ScanConnectors(got)
<1>1. NewConn \in ConnState /\ NewConn.output = FALSE /\ NewConn.status = FALSE
  BY DEF NewConn, ConnState, NoCrtc
<1>2. ASSUME NEW c \in Connectors
      PROVE  /\ f[c] \in ConnState
             /\ c \in listed => f[c].crtc = conn[c].crtc /\ f[c].output = conn[c].output
             /\ c \notin listed => f[c] = NewConn
  <2>1. conn[c] \in ConnState
    BY DEF CrtcInv, Assignments
  <2>2. PICK e : e = [conn[c] EXCEPT !.status = c \in plugged]
    OBVIOUS
  <2>3. (c \in plugged) \in BOOLEAN
    OBVIOUS
  <2>4. e \in ConnState /\ e.crtc = conn[c].crtc /\ e.output = conn[c].output
    BY <2>1, <2>2, <2>3 DEF ConnState
  <2>5. f[c] = IF c \notin listed THEN NewConn ELSE IF c \notin got THEN conn[c] ELSE e
    BY <2>2 DEF ScanConnectors
  <2> HIDE DEF f
  <2> QED BY <1>1, <2>1, <2>4, <2>5
<1>3. f \in Assignments
  <2>1. DOMAIN f = Connectors /\ f = [c \in Connectors |-> f[c]]
    BY DEF ScanConnectors
  <2> HIDE DEF f
  <2> QED BY <1>2, <2>1 DEF Assignments
<1> HIDE DEF f
<1>4. /\ \A c \in Connectors : c \in listed =>
                      f[c].crtc = conn[c].crtc /\ f[c].output = conn[c].output
      /\ \A c \in Connectors : c \notin listed => f[c].output = FALSE /\ f[c].status = FALSE
  BY <1>1, <1>2
<1> QED BY <1>3, <1>4 DEF f

\* Of the connected connectors of a group, one of which can drive the monitor,
\* at most one is not redundant.
LEMMA Marked ==
    ASSUME NEW seq \in Seq(Connectors), NEW f \in Assignments
    PROVE  LET m == MarkRedundantTiles(seq, f)
           IN  /\ m \in Assignments
               /\ \A c \in Connectors : /\ m[c].status = f[c].status
                                        /\ m[c].output = f[c].output
                                        /\ m[c].crtc = f[c].crtc
               /\ \A c, d \in Known(seq) :
                      /\ c # d /\ TileGroup[c] = TileGroup[d] /\ TileGroup[c] # 0
                      /\ m[c].status /\ m[d].status /\ ~m[c].redundant /\ ~m[d].redundant
                      => {c, d} \cap FullRes = {}
<1> DEFINE m == MarkRedundantTiles(seq, f)
           M(g) == TileMembers(seq, f, g)
           D(g) == FullResOf(seq, M(g))
           Red(c) == /\ c \in Known(seq) /\ f[c].status /\ TileGroup[c] # 0
                     /\ D(TileGroup[c]) # {} /\ c \notin D(TileGroup[c])
<1>1. ASSUME NEW c \in Connectors
      PROVE  /\ m[c] \in ConnState
             /\ m[c].status = f[c].status /\ m[c].output = f[c].output /\ m[c].crtc = f[c].crtc
             /\ m[c].redundant = Red(c)
  <2>1. m[c] = [f[c] EXCEPT !.redundant = Red(c)]
    BY DEF MarkRedundantTiles
  <2>2. Red(c) \in BOOLEAN
    OBVIOUS
  <2>3. f[c] \in ConnState
    BY DEF Assignments
  <2> HIDE DEF m, Red
  <2> QED BY <2>1, <2>2, <2>3 DEF ConnState
<1>2. m \in Assignments
  <2>1. m = [c \in Connectors |-> m[c]]
    BY DEF MarkRedundantTiles
  <2> HIDE DEF m
  <2> QED BY <1>1, <2>1 DEF Assignments
<1>3. ASSUME NEW c \in Known(seq), NEW d \in Known(seq), c # d,
             TileGroup[c] = TileGroup[d], TileGroup[c] # 0, m[c].status, m[d].status,
             ~m[c].redundant, ~m[d].redundant, {c, d} \cap FullRes # {}
      PROVE  FALSE
  <2> DEFINE g == TileGroup[c]
  <2>1. c \in Connectors /\ d \in Connectors /\ Known(seq) \subseteq Connectors
    BY KnownContains
  <2>2. f[c].status /\ f[d].status
    BY <1>1, <1>3, <2>1
  <2>3. c \in M(g) /\ d \in M(g) /\ M(g) \subseteq Known(seq)
    BY <1>3, <2>2 DEF TileMembers
  <2>4. M(g) \cap FullRes # {}
    BY <1>3, <2>3
  <2>5. Cardinality(M(g)) > 1
    <3> HIDE DEF M
    <3>1. IsFiniteSet(M(g)) /\ Cardinality(M(g)) \in Nat
      BY <2>1, <2>3, CrtcAssumption, FS_Subset, FS_CardinalityType
    <3>2. Cardinality(M(g)) # 0
      BY <2>3, <3>1, FS_EmptySet
    <3>3. Cardinality(M(g)) # 1
      <4>1. SUFFICES ASSUME Cardinality(M(g)) = 1 PROVE FALSE
        OBVIOUS
      <4>2. PICK x : M(g) = {x}
        BY <3>1, <4>1, FS_Singleton
      <4> QED BY <1>3, <2>3, <4>2
    <3> QED BY <3>1, <3>2, <3>3
  <2>6. PICK x : D(g) = {x}
    BY <2>4, <2>5 DEF FullResOf
  <2> HIDE DEF M, D, m
  <2>7. ~Red(c) /\ ~Red(d)
    BY <1>1, <1>3, <2>1
  <2>8. c \in D(g)
    BY <1>3, <2>2, <2>6, <2>7
  <2>9. d \in D(g)
    BY <1>3, <2>2, <2>6, <2>7
  <2> QED BY <1>3, <2>6, <2>8, <2>9
<1> HIDE DEF m
<1>4. \A c, d \in Known(seq) :
          /\ c # d /\ TileGroup[c] = TileGroup[d] /\ TileGroup[c] # 0
          /\ m[c].status /\ m[d].status /\ ~m[c].redundant /\ ~m[d].redundant
          => {c, d} \cap FullRes = {}
  BY <1>3
<1>5. \A c \in Connectors : /\ m[c].status = f[c].status
                            /\ m[c].output = f[c].output
                            /\ m[c].crtc = f[c].crtc
  BY <1>1
<1> QED BY <1>2, <1>4, <1>5 DEF m

LEMMA Disconnected ==
    ASSUME NEW seq \in Seq(Connectors), NEW f \in Assignments
    PROVE  LET g == DisconnectGone(seq, f)
           IN  /\ g \in Assignments
               /\ \A c \in Connectors : /\ g[c].redundant = f[c].redundant
                                        /\ g[c].crtc = f[c].crtc
                                        /\ g[c].status => f[c].status
                                        /\ g[c].output => f[c].output
                                        /\ g[c] = f[c] \/ ~g[c].status
                                        /\ c \in Known(seq) /\ g[c].output
                                              => g[c].status /\ ~g[c].redundant
<1> DEFINE g == DisconnectGone(seq, f)
<1>1. ASSUME NEW c \in Connectors
      PROVE  /\ g[c] \in ConnState
             /\ g[c].redundant = f[c].redundant /\ g[c].crtc = f[c].crtc
             /\ g[c].status => f[c].status
             /\ g[c].output => f[c].output
             /\ g[c] = f[c] \/ ~g[c].status
             /\ c \in Known(seq) /\ g[c].output => g[c].status /\ ~g[c].redundant
  <2>1. f[c] \in ConnState
    BY DEF Assignments
  <2>2. PICK e : e = [f[c] EXCEPT !.status = FALSE, !.output = FALSE]
    OBVIOUS
  <2>3. /\ e \in ConnState /\ e.status = FALSE /\ e.output = FALSE
        /\ e.redundant = f[c].redundant /\ e.crtc = f[c].crtc
    BY <2>1, <2>2 DEF ConnState
  <2>4. g[c] = IF c \in Known(seq) /\ f[c].output /\ (~f[c].status \/ f[c].redundant)
               THEN e ELSE f[c]
    BY <2>2 DEF DisconnectGone
  <2> HIDE DEF g
  <2>5. CASE c \in Known(seq) /\ f[c].output /\ (~f[c].status \/ f[c].redundant)
    BY <2>3, <2>4, <2>5
  <2>6. CASE ~(c \in Known(seq) /\ f[c].output /\ (~f[c].status \/ f[c].redundant))
    BY <2>1, <2>4, <2>6
  <2> QED BY <2>5, <2>6
<1>2. g \in Assignments
  <2>1. g = [c \in Connectors |-> g[c]]
    BY DEF DisconnectGone
  <2> HIDE DEF g
  <2> QED BY <1>1, <2>1 DEF Assignments
<1> HIDE DEF g
<1>3. \A c \in Connectors : /\ g[c].redundant = f[c].redundant
                            /\ g[c].crtc = f[c].crtc
                            /\ g[c].status => f[c].status
                            /\ g[c].output => f[c].output
                            /\ g[c] = f[c] \/ ~g[c].status
                            /\ c \in Known(seq) /\ g[c].output
                                  => g[c].status /\ ~g[c].redundant
  BY <1>1
<1> QED BY <1>2, <1>3 DEF g

LEMMA Connected ==
    ASSUME NEW seq \in Seq(Connectors), NEW f \in Assignments, NEW got
    PROVE  LET g == ConnectNew(seq, f, got)
           IN  /\ g \in Assignments
               /\ \A c \in Connectors : /\ g[c].redundant = f[c].redundant
                                        /\ g[c].crtc = f[c].crtc
                                        /\ g[c].status = f[c].status
                                        /\ g[c].output => f[c].output
                                              \/ (f[c].status /\ ~f[c].redundant)
<1> DEFINE g == ConnectNew(seq, f, got)
<1>1. ASSUME NEW c \in Connectors
      PROVE  /\ g[c] \in ConnState
             /\ g[c].redundant = f[c].redundant /\ g[c].crtc = f[c].crtc
             /\ g[c].status = f[c].status
             /\ g[c].output => f[c].output \/ (f[c].status /\ ~f[c].redundant)
  <2>1. f[c] \in ConnState
    BY DEF Assignments
  <2>2. PICK e : e = [f[c] EXCEPT !.output = TRUE]
    OBVIOUS
  <2>3. /\ e \in ConnState /\ e.status = f[c].status /\ e.output = TRUE
        /\ e.redundant = f[c].redundant /\ e.crtc = f[c].crtc
    BY <2>1, <2>2 DEF ConnState
  <2>4. g[c] = IF c \in Known(seq) \cap got /\ f[c].status /\ ~f[c].output /\ ~f[c].redundant
               THEN e ELSE f[c]
    BY <2>2 DEF ConnectNew
  <2> HIDE DEF g
  <2>5. CASE c \in Known(seq) \cap got /\ f[c].status /\ ~f[c].output /\ ~f[c].redundant
    BY <2>3, <2>4, <2>5
  <2>6. CASE ~(c \in Known(seq) \cap got /\ f[c].status /\ ~f[c].output /\ ~f[c].redundant)
    BY <2>1, <2>4, <2>6
  <2> QED BY <2>5, <2>6
<1>2. g \in Assignments
  <2>1. g = [c \in Connectors |-> g[c]]
    BY DEF ConnectNew
  <2> HIDE DEF g
  <2> QED BY <1>1, <2>1 DEF Assignments
<1> HIDE DEF g
<1>3. \A c \in Connectors : /\ g[c].redundant = f[c].redundant
                            /\ g[c].crtc = f[c].crtc
                            /\ g[c].status = f[c].status
                            /\ g[c].output => f[c].output \/ (f[c].status /\ ~f[c].redundant)
  BY <1>1
<1> QED BY <1>2, <1>3 DEF g

-----------------------------------------------------------------------------
(* recheckOutputs.                                                         *)

\* What holds of the connectors after recheckOutputs.
AfterRecheck ==
    /\ CrtcInv'
    /\ NoOutputStarved'
    /\ OneOutputPerTiledMonitor'
    /\ \A c \in Connectors :
          conn[c].output /\ conn[c].crtc # NoCrtc /\ conn'[c].output
              => conn'[c].crtc = conn[c].crtc

LEMMA RecheckOutputsWorks ==
    ASSUME CrtcInv, RecheckOutputs
    PROVE  AfterRecheck
<1>1. PICK got \in Gettable, still \in Gettable :
        \E seq \in {ScanOrder(got)} :
        \E scanned \in {MarkRedundantTiles(seq, ScanConnectors(got))} :
        \E assigned \in {RecheckCRTCs(seq, DisconnectGone(seq, scanned))} :
            /\ connectors' = seq
            /\ conn' = ConnectNew(seq, assigned, still)
            /\ UNCHANGED <<listed, plugged>>
  BY DEF RecheckOutputs
<1>2. got \subseteq listed
  BY DEF Gettable
<1>3. PICK seq : seq = ScanOrder(got)
  OBVIOUS
<1>4. PICK s : s = ScanConnectors(got)
  OBVIOUS
<1>5. PICK m : m = MarkRedundantTiles(seq, s)
  OBVIOUS
<1>6. PICK b : b = DisconnectGone(seq, m)
  OBVIOUS
<1>7. PICK r : r = RecheckCRTCs(seq, b)
  OBVIOUS
<1>8. connectors' = seq /\ conn' = ConnectNew(seq, r, still) /\ listed' = listed
  BY <1>1, <1>3, <1>4, <1>5, <1>6, <1>7
<1>9. seq \in Seq(Connectors)
  BY <1>2, <1>3, ScanOrderType
<1>10. Known(seq) \subseteq Connectors
  BY <1>9, KnownContains
<1>11. /\ s \in Assignments
       /\ \A c \in Connectors : c \in listed =>
              s[c].crtc = conn[c].crtc /\ s[c].output = conn[c].output
       /\ \A c \in Connectors : c \notin listed => s[c].output = FALSE /\ s[c].status = FALSE
  BY <1>2, <1>4, Scanned
<1>12. /\ m \in Assignments
       /\ \A c \in Connectors : /\ m[c].status = s[c].status
                                /\ m[c].output = s[c].output
                                /\ m[c].crtc = s[c].crtc
       /\ \A c, d \in Known(seq) :
              /\ c # d /\ TileGroup[c] = TileGroup[d] /\ TileGroup[c] # 0
              /\ m[c].status /\ m[d].status /\ ~m[c].redundant /\ ~m[d].redundant
              => {c, d} \cap FullRes = {}
  BY <1>5, <1>9, <1>11, Marked
<1>13. /\ b \in Assignments
       /\ \A c \in Connectors : /\ b[c].redundant = m[c].redundant
                                /\ b[c].crtc = m[c].crtc
                                /\ b[c].status => m[c].status
                                /\ b[c].output => m[c].output
                                /\ b[c] = m[c] \/ ~b[c].status
                                /\ c \in Known(seq) /\ b[c].output
                                      => b[c].status /\ ~b[c].redundant
  BY <1>6, <1>9, <1>12, Disconnected
<1>14. /\ r \in Assignments
       /\ SameBut(b, r)
       /\ \A c \in Connectors : c \notin Rechecked(seq, b) => r[c] = b[c]
       /\ \A c \in Known(seq) : b[c].status /\ ~b[c].redundant /\ r[c].crtc = NoCrtc
              => \A i \in Possible[c] : Taken(seq, r, i)
  BY <1>7, <1>9, <1>13, Rechecks
<1>15. /\ conn' \in Assignments
       /\ \A c \in Connectors : /\ conn'[c].redundant = r[c].redundant
                                /\ conn'[c].crtc = r[c].crtc
                                /\ conn'[c].status = r[c].status
                                /\ conn'[c].output => r[c].output
                                      \/ (r[c].status /\ ~r[c].redundant)
  BY <1>8, <1>9, <1>14, Connected
<1>16. CrtcInv'
  BY <1>8, <1>9, <1>15 DEF CrtcInv
\* An output that is there in the end is that of a connected connector that is
\* not redundant.
<1>17. ASSUME NEW c \in Known(seq), conn'[c].output
       PROVE  b[c].status /\ ~b[c].redundant
  <2>1. c \in Connectors
    BY <1>10
  <2>2. /\ r[c].status = b[c].status /\ r[c].output = b[c].output
        /\ r[c].redundant = b[c].redundant
    BY <1>14, <2>1 DEF SameBut
  <2>3. CASE r[c].output
    BY <1>13, <2>1, <2>2, <2>3
  <2>4. CASE r[c].status /\ ~r[c].redundant
    BY <2>2, <2>4
  <2> QED BY <1>15, <1>17, <2>1, <2>3, <2>4
<1>18. NoOutputStarved'
  <2>1. ASSUME NEW c \in Known(seq), conn'[c].output, conn'[c].crtc = NoCrtc, NEW i \in Possible[c]
        PROVE  \E d \in Known(seq) : conn'[d].crtc = i /\ conn'[d].status /\ ~conn'[d].redundant
    <3>1. r[c].crtc = NoCrtc
      BY <1>10, <1>15, <2>1
    <3>2. Taken(seq, r, i)
      BY <1>14, <1>17, <2>1, <3>1
    <3>3. PICK d \in Known(seq) : r[d].crtc = i /\ r[d].status /\ ~r[d].redundant
      BY <3>2 DEF Taken
    <3>4. d \in Connectors
      BY <1>10
    <3> QED BY <1>15, <3>3, <3>4
  <2> QED BY <1>8, <2>1 DEF NoOutputStarved, Known, Range
<1>19. OneOutputPerTiledMonitor'
  <2>1. ASSUME NEW c \in Known(seq), NEW d \in Known(seq), c # d, conn'[c].output,
               conn'[d].output, TileGroup[c] = TileGroup[d], TileGroup[c] # 0
        PROVE  {c, d} \cap FullRes = {}
    <3>1. b[c].status /\ ~b[c].redundant /\ b[d].status /\ ~b[d].redundant
      BY <1>17, <2>1
    <3>2. m[c].status /\ ~m[c].redundant /\ m[d].status /\ ~m[d].redundant
      BY <1>10, <1>13, <3>1
    <3> QED BY <1>12, <2>1, <3>2
  <2> QED BY <1>8, <2>1 DEF OneOutputPerTiledMonitor, Known, Range
<1>20. ASSUME NEW c \in Connectors, conn[c].output, conn[c].crtc # NoCrtc, conn'[c].output
       PROVE  conn'[c].crtc = conn[c].crtc
  <2>1. /\ r[c].status = b[c].status /\ r[c].output = b[c].output
        /\ r[c].redundant = b[c].redundant
    BY <1>14 DEF SameBut
  <2>2. c \in listed
    <3>1. SUFFICES ASSUME c \notin listed PROVE FALSE
      OBVIOUS
    <3>2. m[c].output = FALSE /\ m[c].status = FALSE
      BY <1>11, <1>12, <3>1
    <3>3. ~b[c].output /\ ~b[c].status
      BY <1>13, <3>2
    <3>4. ~r[c].output /\ ~r[c].status
      BY <2>1, <3>3
    <3> QED BY <1>15, <1>20, <3>4
  <2>3. b[c].crtc = conn[c].crtc
    BY <1>11, <1>12, <1>13, <2>2
  <2>4. c \notin Rechecked(seq, b)
    <3>1. CASE c \notin Known(seq)
      BY <3>1 DEF Rechecked
    <3>2. CASE c \in Known(seq)
      BY <1>17, <1>20, <2>3, <3>2 DEF Rechecked
    <3> QED BY <3>1, <3>2
  <2>5. r[c] = b[c]
    BY <1>14, <2>4
  <2> QED BY <1>15, <2>3, <2>5
<1> QED BY <1>16, <1>18, <1>19, <1>20 DEF AfterRecheck

-----------------------------------------------------------------------------
(* The specification.                                                      *)

LEMMA CrtcInitial ==
    ASSUME CrtcInit
    PROVE  CrtcInv /\ NoOutputStarved /\ OneOutputPerTiledMonitor
<1>1. connectors = <<>> /\ listed = Connectors
  BY DEF CrtcInit
<1>2. Known(connectors) = {}
  BY <1>1 DEF Known, Range
<1>3. conn \in Assignments
  <2>1. \A c \in Connectors : BootCrtc[c] \in Crtcs \cup {NoCrtc}
    BY CrtcAssumption
  <2>2. \A c \in Connectors : [NewConn EXCEPT !.crtc = BootCrtc[c]] \in ConnState
    BY <2>1 DEF NewConn, ConnState
  <2> QED BY <2>2 DEF CrtcInit, Assignments
<1>4. connectors \in Seq(Connectors)
  BY <1>1
<1> QED BY <1>1, <1>2, <1>3, <1>4 DEF CrtcInv, NoOutputStarved, OneOutputPerTiledMonitor

LEMMA CrtcStep ==
    ASSUME CrtcInv, NoOutputStarved, OneOutputPerTiledMonitor, [CrtcNext]_crtcVars
    PROVE  AfterRecheck
<1>1. CASE RecheckOutputs
  BY <1>1, RecheckOutputsWorks
<1>2. CASE UNCHANGED <<connectors, conn>> /\ listed' \subseteq Connectors
  <2>1. CrtcInv'
    BY <1>2 DEF CrtcInv
  <2>2. NoOutputStarved' /\ OneOutputPerTiledMonitor'
    BY <1>2 DEF NoOutputStarved, OneOutputPerTiledMonitor, Known, Range
  <2> QED BY <1>2, <2>1, <2>2 DEF AfterRecheck
<1>3. CASE \E c \in Connectors : Plug(c) \/ Unplug(c) \/ AddConnector(c) \/ RemoveConnector(c)
  BY <1>2, <1>3 DEF CrtcInv, Plug, Unplug, AddConnector, RemoveConnector
<1>4. CASE UNCHANGED crtcVars
  BY <1>2, <1>4 DEF CrtcInv, crtcVars
<1> QED BY <1>1, <1>3, <1>4 DEF CrtcNext

LEMMA CrtcInvAlways == CrtcSpec => [](CrtcInv /\ NoOutputStarved /\ OneOutputPerTiledMonitor)
<1>1. CrtcInit => CrtcInv /\ NoOutputStarved /\ OneOutputPerTiledMonitor
  BY CrtcInitial
<1>2. (CrtcInv /\ NoOutputStarved /\ OneOutputPerTiledMonitor) /\ [CrtcNext]_crtcVars
        => (CrtcInv /\ NoOutputStarved /\ OneOutputPerTiledMonitor)'
  BY CrtcStep DEF AfterRecheck
<1> QED BY <1>1, <1>2, PTL DEF CrtcSpec

\* recheckCRTCs leaves an output without a CRTC only if each one that it could
\* use drives a connected connector: a CRTC that an unplugged or redundant
\* connector keeps is always given away, whatever was plugged before.
THEOREM OutputsNeverStarve == CrtcSpec => []NoOutputStarved
  BY CrtcInvAlways, PTL

\* markRedundantTiles leaves a tiled monitor that one connector can drive whole
\* with one output, however its tiles came and went.
THEOREM TiledMonitorsHaveOneOutput == CrtcSpec => []OneOutputPerTiledMonitor
  BY CrtcInvAlways, PTL

\* No recheckOutputs moves an output that stays to another CRTC.
THEOREM CrtcsStay == CrtcSpec => CrtcStable
<1> DEFINE Stays == \A c \in Known(connectors) :
          conn[c].output /\ conn[c].crtc # NoCrtc /\ conn'[c].output
              => conn'[c].crtc = conn[c].crtc
<1>1. (CrtcInv /\ NoOutputStarved /\ OneOutputPerTiledMonitor) /\ [CrtcNext]_crtcVars
        => [Stays]_crtcVars
  <2> SUFFICES ASSUME CrtcInv, NoOutputStarved, OneOutputPerTiledMonitor, [CrtcNext]_crtcVars
               PROVE  Stays
    OBVIOUS
  <2>1. Known(connectors) \subseteq Connectors
    BY KnownContains DEF CrtcInv
  <2>2. AfterRecheck
    BY CrtcStep
  <2> QED BY <2>1, <2>2 DEF AfterRecheck
<1> QED BY <1>1, CrtcInvAlways, PTL DEF CrtcSpec, CrtcStable

-----------------------------------------------------------------------------
(* Lists of whatever.                                                      *)

IsList(q) == q \in Seq(Range(q))

LEMMA ListShape ==
    ASSUME NEW n \in Nat, NEW q, DOMAIN q = 1 .. n, q = [i \in 1 .. n |-> q[i]]
    PROVE  IsList(q) /\ Len(q) = n
<1>1. \A i \in 1 .. n : q[i] \in Range(q)
  BY DEF Range
<1>2. q \in [1 .. n -> Range(q)]
  BY <1>1
<1> QED BY <1>2 DEF IsList

LEMMA ListOf ==
    ASSUME NEW T, NEW q \in Seq(T)
    PROVE  IsList(q) /\ Range(q) \subseteq T
<1>1. DOMAIN q = 1 .. Len(q) /\ Len(q) \in Nat /\ q = [i \in 1 .. Len(q) |-> q[i]]
  OBVIOUS
<1>2. Range(q) \subseteq T
  BY <1>1 DEF Range
<1> QED BY <1>1, <1>2, ListShape

LEMMA ListRange ==
    ASSUME NEW q, IsList(q)
    PROVE  /\ DOMAIN q = 1 .. Len(q) /\ Len(q) \in Nat
           /\ \A x : x \in Range(q) <=> \E i \in 1 .. Len(q) : q[i] = x
           /\ \A x : x \in Range(q) <=> Contains(q, x)
<1>1. DOMAIN q = 1 .. Len(q) /\ Len(q) \in Nat
  BY DEF IsList
<1> QED BY <1>1 DEF Range, Contains

LEMMA ListAppend ==
    ASSUME NEW q, IsList(q), NEW x
    PROVE  LET r == Append(q, x)
           IN  /\ IsList(r) /\ Range(r) = Range(q) \cup {x}
               /\ Len(r) = Len(q) + 1 /\ r[Len(q) + 1] = x
               /\ \A i \in 1 .. Len(q) : r[i] = q[i]
<1>1. PICK T : T = Range(q) \cup {x}
  OBVIOUS
<1>2. q \in Seq(T) /\ x \in T
  <2>1. q \in Seq(Range(q)) /\ Range(q) \subseteq T
    BY <1>1 DEF IsList
  <2> QED BY <1>1, <2>1
<1>3. PICK r : r = Append(q, x)
  OBVIOUS
<1>4. /\ r \in Seq(T) /\ Len(r) = Len(q) + 1 /\ r[Len(q) + 1] = x
      /\ \A i \in 1 .. Len(q) : r[i] = q[i]
  BY <1>2, <1>3, AppendProperties
<1>5. IsList(r) /\ Range(r) \subseteq T
  BY <1>4, ListOf
<1>6. T \subseteq Range(r)
  <2>1. Len(q) \in Nat
    BY ListRange
  <2>2. \A i \in 1 .. Len(q) : i \in 1 .. Len(r)
    BY <1>4, <2>1
  <2>3. x \in Range(r)
    BY <1>4, <1>5, <2>1, ListRange
  <2>4. \A y \in Range(q) : y \in Range(r)
    BY <1>4, <1>5, <2>2, ListRange
  <2> QED BY <1>1, <2>3, <2>4
<1> QED BY <1>1, <1>3, <1>4, <1>5, <1>6

LEMMA ListConcat ==
    ASSUME NEW p, IsList(p), NEW q, IsList(q)
    PROVE  LET r == p \o q
           IN  /\ IsList(r) /\ Range(r) = Range(p) \cup Range(q)
               /\ Len(r) = Len(p) + Len(q)
               /\ \A i \in 1 .. Len(p) : r[i] = p[i]
               /\ \A i \in 1 .. Len(q) : r[Len(p) + i] = q[i]
<1>1. PICK T : T = Range(p) \cup Range(q)
  OBVIOUS
<1>2. p \in Seq(T) /\ q \in Seq(T)
  BY <1>1 DEF IsList
<1>3. PICK r : r = p \o q
  OBVIOUS
<1>4. /\ r \in Seq(T) /\ Len(r) = Len(p) + Len(q)
      /\ \A i \in 1 .. Len(p) + Len(q) : r[i] = IF i <= Len(p) THEN p[i] ELSE q[i - Len(p)]
  BY <1>2, <1>3, ConcatProperties
<1>5. Len(p) \in Nat /\ Len(q) \in Nat
  BY ListRange
<1>6. IsList(r) /\ Range(r) \subseteq T
  BY <1>4, ListOf
<1>7. \A i \in 1 .. Len(p) : i \in 1 .. Len(r) /\ r[i] = p[i]
  BY <1>4, <1>5
<1>8. ASSUME NEW i \in 1 .. Len(q) PROVE Len(p) + i \in 1 .. Len(r) /\ r[Len(p) + i] = q[i]
  <2>1. PICK k : k = Len(p) + i
    OBVIOUS
  <2>2. k \in 1 .. Len(p) + Len(q) /\ ~(k <= Len(p)) /\ k - Len(p) = i
    BY <1>5, <2>1
  <2>3. r[k] = q[k - Len(p)]
    BY <1>4, <2>2
  <2> QED BY <1>4, <2>1, <2>2, <2>3
<1>9. T \subseteq Range(r)
  <2>1. \A y \in Range(p) : y \in Range(r)
    BY <1>6, <1>7, ListRange
  <2>2. \A y \in Range(q) : y \in Range(r)
    BY <1>6, <1>8, ListRange
  <2> QED BY <1>1, <2>1, <2>2
<1> QED BY <1>1, <1>3, <1>4, <1>6, <1>7, <1>8, <1>9

LEMMA ListKeep ==
    ASSUME NEW q, IsList(q), NEW S
    PROVE  IsList(Keep(q, S)) /\ Range(Keep(q, S)) = Range(q) \cap S
<1>1. Keep(q, S) \in Seq(Range(q)) /\ \A d : Contains(Keep(q, S), d) <=> Contains(q, d) /\ d \in S
  BY KeepProperties DEF IsList
<1>2. IsList(Keep(q, S))
  BY <1>1, ListOf
<1>3. \A d : d \in Range(Keep(q, S)) <=> d \in Range(q) /\ d \in S
  BY <1>1, <1>2, ListRange
<1> QED BY <1>2, <1>3

-----------------------------------------------------------------------------
(* Primaries come first in the list of implementations.                    *)

Renders(p, i) == p.type = "drm" /\ p.dev = i.primary /\ p.primary = NoDevice

PrimariesFirst(q) ==
    \A j \in 1 .. Len(q) : q[j].type = "drm" /\ q[j].primary # NoDevice =>
        \E k \in 1 .. j - 1 : Renders(q[k], q[j])

LEMMA PrimariesAppend ==
    ASSUME NEW q, IsList(q), PrimariesFirst(q), NEW x,
           x.type = "drm" /\ x.primary # NoDevice => \E k \in 1 .. Len(q) : Renders(q[k], x)
    PROVE  PrimariesFirst(Append(q, x))
<1>1. PICK r : r = Append(q, x)
  OBVIOUS
<1>2. /\ Len(q) \in Nat /\ Len(r) = Len(q) + 1 /\ r[Len(q) + 1] = x
      /\ \A i \in 1 .. Len(q) : r[i] = q[i]
  BY <1>1, ListAppend, ListRange
<1>3. ASSUME NEW j \in 1 .. Len(r), r[j].type = "drm", r[j].primary # NoDevice
      PROVE  \E k \in 1 .. j - 1 : Renders(r[k], r[j])
  <2>1. CASE j = Len(q) + 1
    <3>1. PICK k \in 1 .. Len(q) : Renders(q[k], x)
      BY <1>2, <1>3, <2>1
    <3>2. k \in 1 .. j - 1 /\ r[k] = q[k] /\ r[j] = x
      BY <1>2, <2>1
    <3> QED BY <3>1, <3>2
  <2>2. CASE j \in 1 .. Len(q)
    <3>1. r[j] = q[j]
      BY <1>2, <2>2
    <3>2. PICK k \in 1 .. j - 1 : Renders(q[k], q[j])
      BY <1>3, <2>2, <3>1 DEF PrimariesFirst
    <3>3. r[k] = q[k]
      BY <1>2, <2>2
    <3> QED BY <3>1, <3>2, <3>3
  <2> QED BY <1>2, <2>1, <2>2
<1> QED BY <1>1, <1>3 DEF PrimariesFirst

LEMMA PrimariesConcat ==
    ASSUME NEW p, IsList(p), PrimariesFirst(p), NEW q, IsList(q), PrimariesFirst(q)
    PROVE  PrimariesFirst(p \o q)
<1>1. PICK r : r = p \o q
  OBVIOUS
<1>2. /\ Len(p) \in Nat /\ Len(q) \in Nat /\ Len(r) = Len(p) + Len(q)
      /\ \A i \in 1 .. Len(p) : r[i] = p[i]
      /\ \A i \in 1 .. Len(q) : r[Len(p) + i] = q[i]
  BY <1>1, ListConcat, ListRange
<1>3. ASSUME NEW j \in 1 .. Len(r), r[j].type = "drm", r[j].primary # NoDevice
      PROVE  \E k \in 1 .. j - 1 : Renders(r[k], r[j])
  <2>1. CASE j \in 1 .. Len(p)
    <3>1. r[j] = p[j]
      BY <1>2, <2>1
    <3>2. PICK k \in 1 .. j - 1 : Renders(p[k], p[j])
      BY <1>3, <2>1, <3>1 DEF PrimariesFirst
    <3>3. r[k] = p[k]
      BY <1>2, <2>1
    <3> QED BY <3>1, <3>2, <3>3
  <2>2. CASE j \notin 1 .. Len(p)
    <3>1. PICK i \in 1 .. Len(q) : j = Len(p) + i
      <4>1. j - Len(p) \in 1 .. Len(q) /\ j = Len(p) + (j - Len(p))
        BY <1>2, <2>2
      <4> QED BY <4>1
    <3>2. r[j] = q[i]
      BY <1>2, <3>1
    <3>3. PICK k \in 1 .. i - 1 : Renders(q[k], q[i])
      BY <1>3, <3>2 DEF PrimariesFirst
    <3>4. k \in 1 .. Len(q) /\ Len(p) + k \in 1 .. j - 1
      BY <1>2, <3>1
    <3>5. r[Len(p) + k] = q[k]
      BY <1>2, <3>4
    <3> QED BY <3>2, <3>3, <3>4, <3>5
  <2> QED BY <2>1, <2>2
<1> QED BY <1>1, <1>3 DEF PrimariesFirst

\* An erasure that spares every GPU but those on dev leaves each GPU after its
\* primary, unless that was dev.
LEMMA PrimariesKeep ==
    ASSUME NEW q, IsList(q), PrimariesFirst(q), NEW S, NEW dev,
           \A i \in Range(q) : i.type = "drm" /\ i.dev # dev => i \in S
    PROVE  \A j \in 1 .. Len(Keep(q, S)) :
              Keep(q, S)[j].type = "drm" /\ Keep(q, S)[j].primary \notin {NoDevice, dev} =>
                  \E k \in 1 .. j - 1 : Renders(Keep(q, S)[k], Keep(q, S)[j])
<1>1. PICK r : r = Keep(q, S)
  OBVIOUS
<1>2. ASSUME NEW j \in 1 .. Len(r), r[j].type = "drm", r[j].primary \notin {NoDevice, dev}
      PROVE  \E k \in 1 .. j - 1 : Renders(r[k], r[j])
  <2>1. PICK a \in 1 .. Len(q) :
          /\ q[a] = r[j] /\ q[a] \in S
          /\ \A k \in 1 .. a - 1 : q[k] \in S => \E m \in 1 .. j - 1 : r[m] = q[k]
    <3>1. q \in Seq(Range(q)) /\ j \in 1 .. Len(Keep(q, S))
      BY <1>1 DEF IsList
    <3>2. \E a \in 1 .. Len(q) :
            /\ q[a] = Keep(q, S)[j] /\ q[a] \in S
            /\ \A k \in 1 .. a - 1 : q[k] \in S => \E m \in 1 .. j - 1 : Keep(q, S)[m] = q[k]
      BY <3>1, KeepOrder
    <3> QED BY <1>1, <3>2
  <2>2. PICK k \in 1 .. a - 1 : Renders(q[k], q[a])
    BY <1>2, <2>1 DEF PrimariesFirst
  <2>3. Len(q) \in Nat /\ \A i \in 1 .. Len(q) : q[i] \in Range(q)
    BY ListRange
  <2>4. k \in 1 .. Len(q)
    BY <2>3
  <2>5. q[k] \in S
    BY <1>2, <2>1, <2>2, <2>3, <2>4 DEF Renders
  <2>6. PICK m \in 1 .. j - 1 : r[m] = q[k]
    BY <2>1, <2>5
  <2> QED BY <2>1, <2>2, <2>6
<1> QED BY <1>1, <1>2

\* The first GPU has no primary.
LEMMA FirstHasNoPrimary ==
    ASSUME NEW q, IsList(q), PrimariesFirst(q), NEW S,
           S = {i \in Range(q) : i.type = "drm"}, S # {}
    PROVE  \E k \in 1 .. Len(q) : /\ q[k] = First(q, S) /\ q[k].type = "drm"
                                  /\ q[k].primary = NoDevice
<1>1. PICK d : d \in S
  OBVIOUS
<1>2. Contains(q, d)
  BY <1>1, ListRange
<1>3. PICK i \in 1 .. Len(q) : q[i] = First(q, S) /\ \A j \in 1 .. i - 1 : q[j] \notin S
  BY <1>1, <1>2, FirstProperties DEF IsList
<1>4. First(q, S) \in S
  BY <1>1, <1>2, FirstProperties DEF IsList
<1>5. ASSUME q[i].primary # NoDevice PROVE FALSE
  <2>1. PICK k \in 1 .. i - 1 : Renders(q[k], q[i])
    BY <1>3, <1>4, <1>5 DEF PrimariesFirst
  <2>2. Len(q) \in Nat
    BY ListRange
  <2>3. k \in 1 .. Len(q)
    BY <2>2
  <2>4. q[k] \in S
    BY <2>1, <2>3, ListRange DEF Renders
  <2> QED BY <1>3, <2>4
<1> QED BY <1>3, <1>4, <1>5

-----------------------------------------------------------------------------
(* The steps of a backend.                                                 *)

Alive == {"create", "start", "starting", "ready"}

DrmDevices(q) == {i.dev : i \in {i \in Range(q) : i.type = "drm"}}

BackendInv ==
    /\ IsList(impls) /\ IsList(gpus)
    /\ \A i \in Range(impls) : i = [type |-> i.type, dev |-> i.dev, primary |-> i.primary]
    /\ PrimariesFirst(impls)
    /\ GpusTracked

LEMMA Tracked ==
    GpusTracked <=> (stage \in Alive => /\ DrmDevices(impls) = Range(gpus)
                                        /\ stage = "ready" => polled = ImplFDs(impls))
  BY DEF GpusTracked, Alive, DrmDevices, DrmImpls

\* scanGPUs returns a list, whatever it opens.
LEMMA ScanIsList ==
    ASSUME NEW opens, NEW explicit \in DeviceLists
    PROVE  IsList(ScanGPUs(opens, explicit))
<1> DEFINE cards   == Keep(CardList, opens)
           devices == Reverse(Keep(cards, BootVga)) \o Keep(cards, Cards \ BootVga)
           builtin == {c \in opens : Panels[c] > 0 /\ \A d \in opens : Panels[d] <= Panels[c]}
           first   == First(cards, builtin)
<1>1. IsList(CardList) /\ IsList(explicit)
  BY BackendAssumption, ListOf
<1>2. IsList(cards)
  BY <1>1, ListKeep
<1>3. IsList(devices)
  <2> HIDE DEF cards
  <2>1. IsList(Keep(cards, BootVga)) /\ IsList(Keep(cards, Cards \ BootVga))
    BY <1>2, ListKeep
  <2>2. PICK b : b = Keep(cards, BootVga)
    OBVIOUS
  <2>3. IsList(Reverse(b))
    <3>1. Len(b) \in Nat
      BY <2>1, <2>2, ListRange
    <3>2. DOMAIN Reverse(b) = 1 .. Len(b) /\ Reverse(b) = [i \in 1 .. Len(b) |-> Reverse(b)[i]]
      BY DEF Reverse
    <3> QED BY <3>1, <3>2, ListShape
  <2> QED BY <2>1, <2>2, <2>3, ListConcat
<1>4. IsList(<<first>>)
  <2> HIDE DEF first
  <2>1. <<first>> \in Seq({first})
    OBVIOUS
  <2> QED BY <2>1, ListOf
<1>5. IsList(Keep(explicit, opens)) /\ IsList(Keep(devices, Cards \ {first}))
  BY <1>1, <1>3, ListKeep
<1>6. IsList(<<first>> \o Keep(devices, Cards \ {first}))
  BY <1>4, <1>5, ListConcat
<1>7. ScanGPUs(opens, explicit) = IF explicit # <<>> THEN Keep(explicit, opens)
                                  ELSE IF builtin = {} THEN devices
                                  ELSE <<first>> \o Keep(devices, Cards \ {first})
  BY DEF ScanGPUs
<1> HIDE DEF cards, devices, builtin, first
<1> QED BY <1>3, <1>5, <1>6, <1>7

LEMMA RegisteredGPU ==
    ASSUME NEW dev, NEW primary
    PROVE  LET i == RegisterGPU(dev, primary)
           IN  /\ i.type = "drm" /\ i.dev = dev
               /\ i.primary = NoDevice \/ i.primary = primary
               /\ i = [type |-> i.type, dev |-> i.dev, primary |-> i.primary]
  BY DEF RegisterGPU, DrmImpl

LEMMA AttemptKeepsInv ==
    ASSUME BackendInv, Attempt
    PROVE  BackendInv'
<1>1. PICK explicit \in DeviceLists, opens \in SUBSET present :
       \E works \in SUBSET opens :
         LET found   == Keep(ScanGPUs(opens, explicit), works)
             devs    == [k \in DOMAIN found |-> Opened(found[k])]
             primary == [k \in DOMAIN found |-> IF k = 1 THEN NoDevice ELSE devs[1]]
         IN  /\ impls' = impls \o [k \in DOMAIN found |-> RegisterGPU(devs[k], primary[k])]
             /\ gpus' = gpus \o devs
  BY DEF Attempt
<1>2. PICK found :
         LET devs    == [k \in DOMAIN found |-> Opened(found[k])]
             primary == [k \in DOMAIN found |-> IF k = 1 THEN NoDevice ELSE devs[1]]
         IN  /\ \E works \in SUBSET opens : found = Keep(ScanGPUs(opens, explicit), works)
             /\ impls' = impls \o [k \in DOMAIN found |-> RegisterGPU(devs[k], primary[k])]
             /\ gpus' = gpus \o devs
  BY <1>1
<1>3. PICK n : n = Len(found)
  OBVIOUS
<1>4. n \in Nat /\ DOMAIN found = 1 .. n
  <2>1. IsList(found)
    BY <1>2, ScanIsList, ListKeep
  <2> QED BY <1>3, <2>1, ListRange
<1>5. PICK devs : devs = [k \in 1 .. n |-> Opened(found[k])]
  OBVIOUS
<1>6. PICK primary : primary = [k \in 1 .. n |-> IF k = 1 THEN NoDevice ELSE devs[1]]
  OBVIOUS
<1>7. PICK new : new = [k \in 1 .. n |-> RegisterGPU(devs[k], primary[k])]
  OBVIOUS
<1>8. impls' = impls \o new /\ gpus' = gpus \o devs
  BY <1>2, <1>4, <1>5, <1>6, <1>7
<1>9. IsList(new) /\ Len(new) = n /\ IsList(devs) /\ Len(devs) = n
  <2>1. DOMAIN new = 1 .. n /\ new = [i \in 1 .. n |-> new[i]]
    BY <1>7
  <2>2. DOMAIN devs = 1 .. n /\ devs = [i \in 1 .. n |-> devs[i]]
    BY <1>5
  <2> QED BY <1>4, <2>1, <2>2, ListShape
<1>10. ASSUME NEW k \in 1 .. n
       PROVE  /\ new[k].type = "drm" /\ new[k].dev = devs[k]
              /\ new[k].primary = NoDevice \/ (k # 1 /\ new[k].primary = devs[1])
              /\ new[k] = [type |-> new[k].type, dev |-> new[k].dev, primary |-> new[k].primary]
  <2>1. new[k] = RegisterGPU(devs[k], primary[k])
    BY <1>7
  <2>2. primary[k] = IF k = 1 THEN NoDevice ELSE devs[1]
    BY <1>6
  <2> QED BY <2>1, <2>2, RegisteredGPU
<1>11. PrimariesFirst(new)
  <2>1. ASSUME NEW j \in 1 .. n, new[j].primary # NoDevice
        PROVE  \E k \in 1 .. j - 1 : Renders(new[k], new[j])
    <3>1. j # 1 /\ new[j].primary = devs[1]
      BY <1>10, <2>1
    <3>2. 1 \in 1 .. j - 1 /\ 1 \in 1 .. n
      BY <1>4, <3>1
    <3>3. Renders(new[1], new[j])
      BY <1>10, <3>1, <3>2 DEF Renders
    <3> QED BY <3>2, <3>3
  <2> QED BY <1>9, <2>1 DEF PrimariesFirst
<1>12. DrmDevices(new) = Range(devs)
  <2>1. \A i : i \in Range(new) <=> \E k \in 1 .. n : new[k] = i
    BY <1>9, ListRange
  <2>2. \A d : d \in Range(devs) <=> \E k \in 1 .. n : devs[k] = d
    BY <1>9, ListRange
  <2>3. ASSUME NEW d \in DrmDevices(new) PROVE d \in Range(devs)
    <3>1. PICK i \in Range(new) : d = i.dev
      BY DEF DrmDevices
    <3>2. PICK k \in 1 .. n : new[k] = i
      BY <2>1
    <3> QED BY <1>10, <2>2, <3>1, <3>2
  <2>4. ASSUME NEW k \in 1 .. n PROVE devs[k] \in DrmDevices(new)
    <3>1. new[k] \in Range(new) /\ new[k].type = "drm" /\ new[k].dev = devs[k]
      BY <1>10, <2>1
    <3> QED BY <3>1 DEF DrmDevices
  <2> QED BY <2>2, <2>3, <2>4
<1>13. /\ IsList(impls') /\ Range(impls') = Range(impls) \cup Range(new)
       /\ IsList(gpus') /\ Range(gpus') = Range(gpus) \cup Range(devs)
  BY <1>8, <1>9, ListConcat DEF BackendInv
<1>14. PrimariesFirst(impls')
  BY <1>8, <1>9, <1>11, PrimariesConcat DEF BackendInv
<1>15. \A i \in Range(impls') : i = [type |-> i.type, dev |-> i.dev, primary |-> i.primary]
  <2>1. \A i \in Range(new) : \E k \in 1 .. n : new[k] = i
    BY <1>9, ListRange
  <2> QED BY <1>10, <1>13, <2>1 DEF BackendInv
<1>16. GpusTracked'
  <2>1. stage = "create" /\ stage' = stage
    BY DEF Attempt, Creating
  <2>2. DrmDevices(impls) = Range(gpus)
    BY <2>1, Tracked DEF BackendInv, Alive
  <2>3. DrmDevices(impls') = Range(gpus')
    BY <1>12, <1>13, <2>2 DEF DrmDevices
  <2> QED BY <2>1, <2>3 DEF GpusTracked, DrmImpls, DrmDevices
<1> QED BY <1>13, <1>14, <1>15, <1>16 DEF BackendInv

LEMMA AppendKeepsInv ==
    ASSUME BackendInv, NEW x, x = [type |-> x.type, dev |-> x.dev, primary |-> x.primary],
           x.type = "drm" /\ x.primary # NoDevice => \E k \in 1 .. Len(impls) : Renders(impls[k], x),
           impls' = Append(impls, x),
           gpus' = IF x.type = "drm" THEN Append(gpus, x.dev) ELSE gpus,
           stage' \in Alive => stage' = stage /\ (stage = "ready" => polled' = ImplFDs(impls'))
    PROVE  BackendInv'
<1>1. /\ IsList(impls') /\ Range(impls') = Range(impls) \cup {x}
      /\ IsList(gpus') /\ Range(gpus') = Range(gpus) \cup (IF x.type = "drm" THEN {x.dev} ELSE {})
  BY ListAppend DEF BackendInv
<1>2. PrimariesFirst(impls')
  BY PrimariesAppend DEF BackendInv
<1>3. \A i \in Range(impls') : i = [type |-> i.type, dev |-> i.dev, primary |-> i.primary]
  BY <1>1 DEF BackendInv
<1>4. ASSUME stage' \in Alive PROVE DrmDevices(impls') = Range(gpus')
  <2>1. DrmDevices(impls) = Range(gpus)
    BY <1>4, Tracked DEF BackendInv
  <2> QED BY <1>1, <2>1 DEF DrmDevices
<1>5. GpusTracked'
  BY <1>4 DEF GpusTracked, DrmImpls, DrmDevices, Alive
<1> QED BY <1>1, <1>2, <1>3, <1>5 DEF BackendInv

LEMMA NewGpuKeepsInv ==
    ASSUME BackendInv, NEW c, OnNewGpu(c)
    PROVE  BackendInv'
<1>1. PICK primary : primary = IF DrmImpls = {} THEN NoDevice ELSE First(impls, DrmImpls).dev
  OBVIOUS
<1>2. PICK x : x = RegisterGPU(Opened(c), primary)
  OBVIOUS
<1>3. /\ impls' = Append(impls, x) /\ gpus' = Append(gpus, Opened(c))
      /\ stage' = "crashed" \/ stage' = stage
      /\ polled' = IF stage = "ready" THEN ImplFDs(impls') ELSE polled
  BY <1>1, <1>2 DEF OnNewGpu, PollFDsChanged
<1>4. /\ x.type = "drm" /\ x.dev = Opened(c) /\ (x.primary = NoDevice \/ x.primary = primary)
      /\ x = [type |-> x.type, dev |-> x.dev, primary |-> x.primary]
  BY <1>2, RegisteredGPU
<1>5. ASSUME x.primary # NoDevice PROVE \E k \in 1 .. Len(impls) : Renders(impls[k], x)
  <2>1. DrmImpls # {} /\ x.primary = First(impls, DrmImpls).dev
    BY <1>1, <1>4, <1>5
  <2>2. PICK k \in 1 .. Len(impls) : /\ impls[k] = First(impls, DrmImpls)
                                     /\ impls[k].type = "drm" /\ impls[k].primary = NoDevice
    BY <2>1, FirstHasNoPrimary DEF BackendInv, DrmImpls
  <2> QED BY <2>1, <2>2 DEF Renders
<1>6. stage' \in Alive => stage' = stage /\ (stage = "ready" => polled' = ImplFDs(impls'))
  BY <1>3 DEF Alive
<1> QED BY <1>3, <1>4, <1>5, <1>6, AppendKeepsInv

LEMMA Expired ==
    ASSUME NEW q, IsList(q), NEW dev,
           \A i \in Range(q) : i = [type |-> i.type, dev |-> i.dev, primary |-> i.primary]
    PROVE  LET r == Expire(q, dev)
           IN  /\ IsList(r) /\ Len(r) = Len(q)
               /\ \A k \in 1 .. Len(q) :
                     /\ r[k].type = q[k].type /\ r[k].dev = q[k].dev
                     /\ r[k].primary = IF q[k].primary = dev THEN NoDevice ELSE q[k].primary
                     /\ r[k] = [type |-> r[k].type, dev |-> r[k].dev, primary |-> r[k].primary]
<1>1. PICK r : r = Expire(q, dev)
  OBVIOUS
<1>2. DOMAIN q = 1 .. Len(q) /\ Len(q) \in Nat /\ \A k \in 1 .. Len(q) : q[k] \in Range(q)
  BY ListRange
<1>3. r = [k \in 1 .. Len(q) |-> IF q[k].primary = dev THEN [q[k] EXCEPT !.primary = NoDevice] ELSE q[k]]
  BY <1>1, <1>2 DEF Expire
<1>4. IsList(r) /\ Len(r) = Len(q)
  <2>1. DOMAIN r = 1 .. Len(q) /\ r = [i \in 1 .. Len(q) |-> r[i]]
    BY <1>3
  <2> QED BY <1>2, <2>1, ListShape
<1>5. ASSUME NEW k \in 1 .. Len(q)
      PROVE  /\ r[k].type = q[k].type /\ r[k].dev = q[k].dev
             /\ r[k].primary = IF q[k].primary = dev THEN NoDevice ELSE q[k].primary
             /\ r[k] = [type |-> r[k].type, dev |-> r[k].dev, primary |-> r[k].primary]
  <2>1. q[k] = [type |-> q[k].type, dev |-> q[k].dev, primary |-> q[k].primary]
    BY <1>2
  <2>2. PICK e : e = [q[k] EXCEPT !.primary = NoDevice]
    OBVIOUS
  <2>3. PICK t, d, p : q[k] = [type |-> t, dev |-> d, primary |-> p]
    BY <2>1
  <2>4. e = [type |-> t, dev |-> d, primary |-> NoDevice]
    BY <2>2, <2>3
  <2>5. r[k] = IF q[k].primary = dev THEN e ELSE q[k]
    BY <1>3, <2>2
  <2> QED BY <2>3, <2>4, <2>5
<1> QED BY <1>1, <1>4, <1>5

LEMMA RemoveKeepsInv ==
    ASSUME BackendInv, UdevRemoves
    PROVE  BackendInv'
<1>1. PICK dev : dev = First(gpus, KnownAs(ReceivedCard))
  OBVIOUS
<1>2. PICK kept : kept = Keep(impls, {i \in Range(impls) : i.dev # dev})
  OBVIOUS
<1>3. PICK new : new = Expire(kept, dev)
  OBVIOUS
<1>4. /\ impls' = new /\ gpus' = Keep(gpus, Range(gpus) \ {dev})
      /\ stage' \in Alive => stage' = stage /\ (stage = "ready" => polled' = ImplFDs(new))
  BY <1>1, <1>2, <1>3 DEF UdevRemoves, PollFDsChanged, Alive
<1>5. IsList(kept) /\ Range(kept) = {i \in Range(impls) : i.dev # dev}
  BY <1>2, ListKeep DEF BackendInv
<1>6. /\ IsList(new) /\ Len(new) = Len(kept)
      /\ \A k \in 1 .. Len(kept) :
            /\ new[k].type = kept[k].type /\ new[k].dev = kept[k].dev
            /\ new[k].primary = IF kept[k].primary = dev THEN NoDevice ELSE kept[k].primary
            /\ new[k] = [type |-> new[k].type, dev |-> new[k].dev, primary |-> new[k].primary]
  BY <1>3, <1>5, Expired DEF BackendInv
<1>7. IsList(gpus') /\ Range(gpus') = Range(gpus) \ {dev}
  BY <1>4, ListKeep DEF BackendInv
<1>8. /\ \A i : i \in Range(new) <=> \E k \in 1 .. Len(kept) : new[k] = i
      /\ \A i : i \in Range(kept) <=> \E k \in 1 .. Len(kept) : kept[k] = i
  BY <1>5, <1>6, ListRange
<1>9. \A i \in Range(new) : i = [type |-> i.type, dev |-> i.dev, primary |-> i.primary]
  BY <1>6, <1>8
<1>10. PrimariesFirst(new)
  <2>1. \A i \in Range(impls) : i.type = "drm" /\ i.dev # dev => i \in {x \in Range(impls) : x.dev # dev}
    OBVIOUS
  <2>2. \A j \in 1 .. Len(kept) :
            kept[j].type = "drm" /\ kept[j].primary \notin {NoDevice, dev} =>
                \E k \in 1 .. j - 1 : Renders(kept[k], kept[j])
    BY <1>2, <2>1, PrimariesKeep DEF BackendInv
  <2>3. ASSUME NEW j \in 1 .. Len(new), new[j].type = "drm", new[j].primary # NoDevice
        PROVE  \E k \in 1 .. j - 1 : Renders(new[k], new[j])
    <3>1. /\ j \in 1 .. Len(kept) /\ kept[j].type = "drm"
          /\ kept[j].primary = new[j].primary /\ kept[j].primary \notin {NoDevice, dev}
      BY <1>6, <2>3
    <3>2. PICK k \in 1 .. j - 1 : Renders(kept[k], kept[j])
      BY <2>2, <3>1
    <3>3. Len(kept) \in Nat
      BY <1>5, ListRange
    <3>4. k \in 1 .. Len(kept)
      BY <3>1, <3>3
    <3>5. Renders(new[k], new[j])
      BY <1>6, <3>1, <3>2, <3>4 DEF Renders
    <3> QED BY <3>5
  <2> QED BY <2>3 DEF PrimariesFirst
<1>11. DrmDevices(new) = DrmDevices(impls) \ {dev}
  <2>1. ASSUME NEW d \in DrmDevices(new) PROVE d \in DrmDevices(impls) /\ d # dev
    <3>1. PICK i \in Range(new) : i.type = "drm" /\ i.dev = d
      BY DEF DrmDevices
    <3>2. PICK k \in 1 .. Len(kept) : new[k] = i
      BY <1>8
    <3>3. kept[k].type = "drm" /\ kept[k].dev = d /\ kept[k] \in Range(kept)
      BY <1>6, <1>8, <3>1, <3>2
    <3> QED BY <1>5, <3>3 DEF DrmDevices
  <2>2. ASSUME NEW d \in DrmDevices(impls), d # dev PROVE d \in DrmDevices(new)
    <3>1. PICK i \in Range(impls) : i.type = "drm" /\ i.dev = d
      BY DEF DrmDevices
    <3>2. PICK k \in 1 .. Len(kept) : kept[k] = i
      BY <1>5, <1>8, <2>2, <3>1
    <3>3. new[k] \in Range(new) /\ new[k].type = "drm" /\ new[k].dev = d
      BY <1>6, <1>8, <3>1, <3>2
    <3> QED BY <3>3 DEF DrmDevices
  <2> QED BY <2>1, <2>2
<1>12. GpusTracked'
  <2>1. ASSUME stage' \in Alive PROVE DrmDevices(impls') = Range(gpus')
    <3>1. DrmDevices(impls) = Range(gpus)
      BY <1>4, <2>1, Tracked DEF BackendInv
    <3> QED BY <1>4, <1>7, <1>11, <3>1
  <2> QED BY <1>4, <2>1 DEF GpusTracked, DrmImpls, DrmDevices, Alive
<1> QED BY <1>4, <1>6, <1>7, <1>9, <1>10, <1>12 DEF BackendInv

LEMMA StartKeepsInv ==
    ASSUME BackendInv, StartImpls
    PROVE  BackendInv'
<1>1. stage = "start" /\ gpus' = gpus
  BY DEF StartImpls
<1>2. PICK outcome \in WaylandStarts :
        \/ stage' = "failed" /\ (impls' = <<>> \/ impls' = impls)
        \/ /\ stage' = "starting"
           /\ impls' = Keep(impls, {i \in Range(impls) : ~(Wayland(i) /\ outcome = "noDisplay")})
  BY DEF StartImpls
<1>3. CASE impls' = <<>> /\ stage' = "failed"
  <2>1. IsList(impls') /\ Range(impls') = {} /\ Len(impls') = 0
    BY <1>3 DEF IsList, Range
  <2>2. PrimariesFirst(impls')
    BY <2>1 DEF PrimariesFirst
  <2>3. GpusTracked'
    BY <1>3 DEF GpusTracked
  <2> QED BY <1>1, <2>1, <2>2, <2>3 DEF BackendInv
<1>4. CASE impls' = impls /\ stage' = "failed"
  <2>1. GpusTracked'
    BY <1>4 DEF GpusTracked
  <2> QED BY <1>1, <1>4, <2>1 DEF BackendInv
<1>5. CASE /\ stage' = "starting"
           /\ impls' = Keep(impls, {i \in Range(impls) : ~(Wayland(i) /\ outcome = "noDisplay")})
  <2>1. PICK S : S = {i \in Range(impls) : ~(Wayland(i) /\ outcome = "noDisplay")}
    OBVIOUS
  <2>2. \A i \in Range(impls) : i.type = "drm" => i \in S
    BY <2>1 DEF Wayland
  <2>3. IsList(impls') /\ Range(impls') = Range(impls) \cap S
    BY <1>5, <2>1, ListKeep DEF BackendInv
  <2>4. PrimariesFirst(impls')
    <3>1. \A j \in 1 .. Len(Keep(impls, S)) :
             Keep(impls, S)[j].type = "drm" /\ Keep(impls, S)[j].primary \notin {NoDevice, NoDevice} =>
                 \E k \in 1 .. j - 1 : Renders(Keep(impls, S)[k], Keep(impls, S)[j])
      BY <2>2, PrimariesKeep DEF BackendInv
    <3> QED BY <1>5, <2>1, <3>1 DEF PrimariesFirst
  <2>5. DrmDevices(impls') = DrmDevices(impls)
    BY <2>2, <2>3 DEF DrmDevices
  <2>6. DrmDevices(impls) = Range(gpus)
    BY <1>1, Tracked DEF BackendInv, Alive
  <2>7. GpusTracked'
    BY <1>1, <1>5, <2>5, <2>6 DEF GpusTracked, DrmImpls, DrmDevices
  <2>8. \A i \in Range(impls') : i = [type |-> i.type, dev |-> i.dev, primary |-> i.primary]
    BY <2>3 DEF BackendInv
  <2> QED BY <1>1, <2>3, <2>4, <2>7, <2>8 DEF BackendInv
<1> QED BY <1>2, <1>3, <1>4, <1>5

LEMMA BackendInvAlways == BackendSpec => []BackendInv
<1>1. ASSUME BackendInit PROVE BackendInv
  <2>1. impls = <<>> /\ gpus = <<>> /\ stage = "create"
    BY <1>1 DEF BackendInit
  <2>2. IsList(impls) /\ IsList(gpus) /\ Range(impls) = {} /\ Range(gpus) = {} /\ Len(impls) = 0
    BY <2>1 DEF IsList, Range
  <2> QED BY <2>1, <2>2 DEF BackendInv, PrimariesFirst, GpusTracked, DrmImpls
<1>2. ASSUME BackendInv, [BackendNext]_gpuVars PROVE BackendInv'
  <2>1. CASE UNCHANGED <<stage, impls, gpus, polled>>
    BY <1>2, <2>1 DEF BackendInv, GpusTracked, DrmImpls
  <2>2. ASSUME NEW t \in Types \ {"drm"}, CreateImpl(t) PROVE BackendInv'
    <3>1. stage' = "create" /\ stage = "create" /\ gpus' = gpus /\ polled' = polled
      BY <2>2 DEF CreateImpl, Creating
    <3>2. PICK x : x = Impl(t)
      OBVIOUS
    <3>3. /\ x.type # "drm" /\ x = [type |-> x.type, dev |-> x.dev, primary |-> x.primary]
      BY <3>2 DEF Impl
    <3>4. CASE impls' = Append(impls, x)
      BY <1>2, <3>1, <3>3, <3>4, AppendKeepsInv
    <3>5. CASE impls' = impls
      BY <2>1, <3>1, <3>5
    <3> QED BY <2>2, <3>2, <3>4, <3>5 DEF CreateImpl
  <2>3. CASE Attempt
    BY <1>2, <2>3, AttemptKeepsInv
  <2>4. CASE CreateEnds
    <3>1. /\ stage = "create" /\ stage' = "start" /\ gpus' = gpus
          /\ impls' = IF impls = <<>> THEN <<Impl("headless")>> ELSE impls
      BY <2>4 DEF CreateEnds
    <3>2. DrmDevices(impls) = Range(gpus)
      BY <1>2, <3>1, Tracked DEF BackendInv, Alive
    <3>3. CASE impls # <<>>
      <4>1. GpusTracked'
        BY <3>1, <3>2, <3>3 DEF GpusTracked, DrmImpls, DrmDevices
      <4> QED BY <1>2, <3>1, <3>3, <4>1 DEF BackendInv
    <3>4. CASE impls = <<>>
      <4>1. PICK x : x = Impl("headless")
        OBVIOUS
      <4>2. /\ x.type # "drm" /\ x = [type |-> x.type, dev |-> x.dev, primary |-> x.primary]
        BY <4>1 DEF Impl
      <4>3. /\ impls' = <<x>> /\ Len(impls') = 1 /\ impls'[1] = x /\ impls' \in Seq({x})
        BY <3>1, <3>4, <4>1
      <4>4. IsList(impls') /\ Range(impls') = {x}
        <5>1. IsList(impls') /\ Range(impls') \subseteq {x}
          BY <4>3, ListOf
        <5> QED BY <4>3, <5>1, ListRange
      <4>5. PrimariesFirst(impls')
        BY <4>2, <4>3 DEF PrimariesFirst
      <4>6. Range(gpus) = {}
        BY <3>2, <3>4 DEF DrmDevices, Range
      <4>7. GpusTracked'
        BY <3>1, <4>2, <4>4, <4>6 DEF GpusTracked, DrmImpls
      <4> QED BY <1>2, <3>1, <4>2, <4>4, <4>5, <4>7 DEF BackendInv
    <3> QED BY <3>3, <3>4
  <2>5. CASE StartImpls
    BY <1>2, <2>5, StartKeepsInv
  <2>6. CASE GetReady
    <3>1. /\ UNCHANGED <<impls, gpus>> /\ stage = "starting"
          /\ stage' = "crashed" \/ (stage' = "ready" /\ polled' = ImplFDs(impls))
      BY <2>6 DEF GetReady
    <3>2. GpusTracked'
      BY <1>2, <3>1 DEF BackendInv, GpusTracked, DrmImpls
    <3> QED BY <1>2, <3>1, <3>2 DEF BackendInv
  <2>7. CASE UdevAdds
    <3>1. CASE OnNewGpu(ReceivedCard)
      BY <1>2, <3>1, NewGpuKeepsInv
    <3> QED BY <2>1, <2>7, <3>1 DEF UdevAdds
  <2>8. CASE UdevRemoves
    BY <1>2, <2>8, RemoveKeepsInv
  <2>9. CASE \/ SessionOpens \/ AttemptFails \/ SeatActivates \/ UdevOther \/ BackendOver
             \/ UNCHANGED gpuVars
    BY <2>1, <2>9 DEF SessionOpens, AttemptFails, SeatActivates, UdevOther, BackendOver, gpuVars, startVars
  <2>10. CASE \E c \in Cards : PlugCard(c) \/ UnplugCard(c) \/ CardChanges(c)
    BY <2>1, <2>10 DEF PlugCard, UnplugCard, CardChanges, KernelEvent, startVars
  <2> QED BY <1>2, <2>2, <2>3, <2>4, <2>5, <2>6, <2>7, <2>8, <2>9, <2>10 DEF BackendNext
<1> QED BY <1>1, <1>2, PTL DEF BackendSpec

\* The session and the caller lose track of no GPU: while the backend lives the
\* session's devices are those the implementations drive, and the caller polls
\* the implementations there are, whatever is plugged, unplugged or awaited.
THEOREM GpusStayTracked == BackendSpec => []GpusTracked
<1>1. BackendInv => GpusTracked
  BY DEF BackendInv
<1> QED BY <1>1, BackendInvAlways, PTL

\* Every secondary GPU has a primary that is there and has none itself, after
\* any sequence of additions and removals, of the primary too.
THEOREM PrimariesStay == BackendSpec => []PrimaryRendersItself
<1>1. BackendInv => PrimaryRendersItself
  <2> SUFFICES ASSUME BackendInv, NEW i \in DrmImpls, i.primary # NoDevice
               PROVE  \E p \in DrmImpls : p.dev = i.primary /\ p.primary = NoDevice
    BY DEF PrimaryRendersItself
  <2>1. PICK j \in 1 .. Len(impls) : impls[j] = i
    BY ListRange DEF BackendInv, DrmImpls
  <2>2. PICK k \in 1 .. j - 1 : Renders(impls[k], impls[j])
    BY <2>1 DEF BackendInv, PrimariesFirst, DrmImpls
  <2>3. Len(impls) \in Nat
    BY ListRange DEF BackendInv
  <2>4. k \in 1 .. Len(impls)
    BY <2>3
  <2>5. impls[k] \in Range(impls)
    BY <2>4, ListRange DEF BackendInv
  <2>6. impls[k] \in DrmImpls
    BY <2>2, <2>5 DEF Renders, DrmImpls
  <2> QED BY <2>1, <2>2, <2>6 DEF Renders
<1> QED BY <1>1, BackendInvAlways, PTL

-----------------------------------------------------------------------------
(* The swapchain.                                                          *)

\* After a next() that nothing followed the ring stands at the buffer it gave;
\* after the rollback() of it the next buffer is that one again.
HandedOut ==
    /\ given # NoIndex => given \in 0 .. options.length - 1
    /\ given # NoIndex /\ ~undone => lastAcquired = given
    /\ undone => given # NoIndex /\ (lastAcquired + 1) % options.length = given

SwapchainInv == SwapchainTypeOK /\ RingAsConfigured /\ HandedOut

\* What the calls that rebuild the ring make of it keeps the invariant.
LEMMA ReconfigureKeepsRing ==
    ASSUME SwapchainInv, NEW o \in Options, Reconfigure(o)
    PROVE  /\ options' \in Options /\ buffers' \in Seq(RingBuffer)
           /\ RingAsConfigured'
           /\ Forget
<1> USE SwapchainAssumption DEF SwapchainInv, SwapchainTypeOK, RingAsConfigured
<1>1. CASE Clear(o)
  BY <1>1 DEF Clear, Clears, Options
<1>2. CASE Shrink(o)
  <2>1. o.length \in 0 .. Len(buffers)
    BY <1>2 DEF Shrink, Options
  <2>2. /\ buffers' \in Seq(RingBuffer) /\ Len(buffers') = o.length
        /\ \A i \in 1 .. o.length : buffers'[i] = buffers[i]
    BY <1>2, <2>1 DEF Shrink
  <2> QED BY <1>2, <2>1, <2>2 DEF Shrink, SameKind
<1>3. CASE Grow(o)
  <2>1. options.size \in Sizes
    BY <1>3 DEF Grow, Clears, SameKind, Options
  <2>2. ASSUME NEW n \in Nat, GrowTo(n)
        PROVE  /\ buffers' \in Seq(RingBuffer) /\ Len(buffers') = n
               /\ \A i \in 1 .. n : buffers'[i].size = options.size
    <3>1. PICK f \in Formats :
            buffers' = [i \in 1 .. n |-> IF i <= Len(buffers) THEN buffers[i]
                                         ELSE [size |-> options.size, format |-> f]]
      BY <2>2 DEF GrowTo
    <3>2. [size |-> options.size, format |-> f] \in RingBuffer
      BY <2>1 DEF RingBuffer
    <3>3. buffers' \in [1 .. n -> RingBuffer]
      BY <3>1, <3>2
    <3>4. buffers' \in Seq(RingBuffer) /\ Len(buffers') = n
      BY <3>3
    <3>5. \A i \in 1 .. n : buffers'[i].size = options.size
      BY <3>1
    <3> QED BY <3>4, <3>5
  <2>3. CASE GrowTo(o.length) /\ options' = o
    BY <1>3, <2>2, <2>3 DEF Grow, SameKind, Options
  <2>4. CASE (\E n \in Len(buffers) .. (o.length - 1) : GrowTo(n)) /\ UNCHANGED options
    <3>1. PICK n \in Len(buffers) .. (o.length - 1) : GrowTo(n)
      BY <2>4
    <3>2. n \in Nat /\ n >= Len(buffers)
      OBVIOUS
    <3>3. /\ buffers' \in Seq(RingBuffer) /\ Len(buffers') = n
          /\ \A i \in 1 .. n : buffers'[i].size = options.size
      BY <2>2, <3>1, <3>2
    <3>4. options' = options /\ Forget
      BY <1>3, <2>4 DEF Grow
    <3>5. options \in Options /\ options.length \in Nat /\ Len(buffers) \in Nat
      BY DEF Options
    <3> QED BY <3>2, <3>3, <3>4, <3>5
  <2> QED BY <1>3, <2>3, <2>4 DEF Grow
<1>4. CASE FullReconfigure(o)
  <2>1. PICK f \in Formats :
          /\ buffers' = [i \in 1 .. o.length |-> [size |-> o.size, format |-> f]]
          /\ options' = [o EXCEPT !.format = f]
    BY <1>4 DEF FullReconfigure
  <2>2. o.size \in Sizes /\ o.length \in 0 .. MaxLength
    BY <1>4 DEF FullReconfigure, Clears, Options
  <2>3. buffers' \in [1 .. o.length -> RingBuffer]
    BY <2>1, <2>2 DEF RingBuffer
  <2>4. options' \in Options /\ options'.size = o.size /\ options'.length = o.length
    BY <2>1 DEF Options
  <2>5. buffers' \in Seq(RingBuffer) /\ Len(buffers') = o.length
    BY <2>2, <2>3
  <2>6. \A i \in 1 .. o.length : buffers'[i].size = o.size
    BY <2>1
  <2>7. RingAsConfigured'
    BY <2>2, <2>4, <2>5, <2>6
  <2> QED BY <1>4, <2>4, <2>5, <2>7 DEF FullReconfigure
<1> QED BY <1>1, <1>2, <1>3, <1>4 DEF Reconfigure

\* Every call keeps the invariant.
LEMMA NextSwapchainInv == SwapchainInv /\ [SwapchainNext]_swVars => SwapchainInv'
<1> SUFFICES ASSUME SwapchainInv, [SwapchainNext]_swVars PROVE SwapchainInv'
  OBVIOUS
<1> USE SwapchainAssumption DEF SwapchainInv, SwapchainTypeOK
<1>1. ASSUME NEW o \in Options, Reconfigure(o) PROVE SwapchainInv'
  <2>1. /\ options' \in Options /\ buffers' \in Seq(RingBuffer) /\ RingAsConfigured' /\ Forget
    BY <1>1, ReconfigureKeepsRing
  <2>2. given' = -1 /\ ~undone' /\ lastAcquired' = lastAcquired /\ undone' \in BOOLEAN
    BY <2>1 DEF Forget, NoIndex
  <2>3. HandedOut'
    BY <2>2 DEF HandedOut, NoIndex
  <2>4. SwapchainTypeOK'
    BY <2>1, <2>2
  <2> QED BY <2>1, <2>3, <2>4
<1>2. CASE AcquireNext
  <2>1. options.length \in 1 .. MaxLength
    BY <1>2 DEF AcquireNext, Options
  <2>2. (lastAcquired + 1) % options.length \in 0 .. options.length - 1
    BY <2>1
  <2>3. /\ lastAcquired' \in 0 .. options.length - 1 /\ given' = lastAcquired'
        /\ undone' = FALSE /\ options' = options /\ buffers' = buffers
    BY <1>2, <2>2 DEF AcquireNext
  <2>4. HandedOut'
    BY <2>1, <2>3 DEF HandedOut, NoIndex
  <2>t. undone' \in BOOLEAN
    BY <2>3
  <2>5. SwapchainTypeOK'
    BY <2>1, <2>3, <2>t
  <2>6. RingAsConfigured'
    BY <2>3 DEF RingAsConfigured
  <2> QED BY <2>4, <2>5, <2>6
<1>3. CASE Rollback
  <2>1. options.length \in 0 .. MaxLength /\ options' = options /\ buffers' = buffers
    BY <1>3 DEF Rollback, Options
  <2>2. lastAcquired' \in -1 .. MaxLength /\ given' \in -1 .. MaxLength /\ undone' \in BOOLEAN
    BY <1>3, <2>1 DEF Rollback, NoIndex
  <2>3. HandedOut'
    <3>1. CASE given # NoIndex /\ ~undone
      <4>1. given \in 0 .. options.length - 1 /\ lastAcquired = given
        BY <3>1 DEF HandedOut
      <4>2. undone' /\ given' = given
        BY <1>3, <3>1 DEF Rollback
      <4>3. CASE given = 0
        <5>1. lastAcquired' = options.length - 1 /\ options.length > 0
          BY <1>3, <2>1, <4>1, <4>3 DEF Rollback
        <5>2. (lastAcquired' + 1) % options.length = 0
          BY <2>1, <5>1
        <5> QED BY <2>1, <3>1, <4>1, <4>2, <4>3, <5>2 DEF HandedOut
      <4>4. CASE given > 0
        <5>1. lastAcquired' = given - 1
          BY <1>3, <4>1, <4>4 DEF Rollback
        <5>2. (lastAcquired' + 1) % options.length = given
          BY <2>1, <4>1, <5>1
        <5> QED BY <2>1, <3>1, <4>1, <4>2, <5>2 DEF HandedOut
      <4> QED BY <2>1, <4>1, <4>3, <4>4
    <3>2. CASE given = NoIndex \/ undone
      <4>1. ~undone' /\ given' = NoIndex
        BY <1>3, <3>2 DEF Rollback, HandedOut
      <4> QED BY <4>1 DEF HandedOut
    <3> QED BY <3>1, <3>2
  <2> QED BY <2>1, <2>2, <2>3 DEF RingAsConfigured
<1>4. CASE UNCHANGED swVars
  BY <1>4 DEF swVars, RingAsConfigured, HandedOut
<1> QED BY <1>1, <1>2, <1>3, <1>4 DEF SwapchainNext

\* The initial state satisfies the invariant.
LEMMA InitSwapchainInv == SwapchainInit => SwapchainInv
<1> SUFFICES ASSUME SwapchainInit PROVE SwapchainInv
  OBVIOUS
<1>1. options \in Options
  BY SwapchainAssumption DEF SwapchainInit, Options
<1>t. undone \in BOOLEAN
  BY DEF SwapchainInit
<1>b. buffers \in Seq(RingBuffer) /\ lastAcquired \in -1 .. MaxLength /\ given \in -1 .. MaxLength
  BY SwapchainAssumption DEF SwapchainInit, NoIndex
<1>2. SwapchainTypeOK
  BY <1>1, <1>t, <1>b DEF SwapchainTypeOK
<1>3. RingAsConfigured /\ HandedOut
  BY DEF SwapchainInit, RingAsConfigured, HandedOut
<1> QED BY <1>2, <1>3 DEF SwapchainInv

LEMMA SwapchainInvariant == SwapchainSpec => []SwapchainInv
BY InitSwapchainInv, NextSwapchainInv, PTL DEF SwapchainSpec

\* A configured swapchain has all the buffers of its length, all of its size,
\* whatever reconfigure() was asked for and wherever the allocator failed.
THEOREM RingStaysConfigured == SwapchainSpec => []RingAsConfigured
<1>1. SwapchainInv => RingAsConfigured
  BY DEF SwapchainInv
<1> QED BY <1>1, SwapchainInvariant, PTL

\* rollback() undoes next(), at every place of a ring of any length.
THEOREM RollbackRestores == SwapchainSpec => []RollbackUndoesNext
<1>1. SwapchainInv => RollbackUndoesNext
  BY DEF SwapchainInv, HandedOut, RollbackUndoesNext
<1> QED BY <1>1, SwapchainInvariant, PTL

-----------------------------------------------------------------------------
(* The allocator.                                                          *)

\* A finite set of numbers has n lowest ones, for every n it has room for.
LEMMA LowestExist ==
    ASSUME NEW S, S \subseteq Nat, IsFiniteSet(S), NEW n \in 0 .. Cardinality(S)
    PROVE  \E s \in SUBSET S : Cardinality(s) = n /\ \A d \in s, e \in S \ s : d < e
<1> DEFINE Has(k) == \E s \in SUBSET S : Cardinality(s) = k /\ \A d \in s, e \in S \ s : d < e
           Bad == {k \in 0 .. Cardinality(S) : ~Has(k)}
<1>1. Cardinality(S) \in Nat
  BY FS_CardinalityType
<1>2. Has(0)
  BY FS_EmptySet
<1>3. ASSUME NEW k \in 1 .. Cardinality(S), Has(k - 1) PROVE Has(k)
  <2>1. PICK s \in SUBSET S : Cardinality(s) = k - 1 /\ \A d \in s, e \in S \ s : d < e
    BY <1>3
  <2>2. IsFiniteSet(s) /\ s # S
    <3>1. IsFiniteSet(s)
      BY FS_Subset
    <3>2. Cardinality(s) # Cardinality(S)
      BY <1>1, <2>1
    <3> QED BY <3>1, <3>2
  <2>3. PICK x \in S \ s : \A y \in S \ s : x <= y
    BY <2>2, LeastNumber
  <2>4. Cardinality(s \cup {x}) = k
    <3>1. Cardinality(s \cup {x}) = Cardinality(s) + 1
      BY <2>2, <2>3, FS_AddElement
    <3> QED BY <1>1, <2>1, <3>1
  <2>5. ASSUME NEW d \in s \cup {x}, NEW e \in S \ (s \cup {x}) PROVE d < e
    BY <2>1, <2>3
  <2> QED BY <2>4, <2>5
<1>4. CASE n \in Bad
  <2>0. Bad \subseteq Nat /\ Bad # {}
    BY <1>1, <1>4
  <2>1. PICK k \in Bad : \A j \in Bad : k <= j
    <3> HIDE DEF Bad
    <3> QED BY <2>0, LeastNumber
  <2>2. k # 0
    BY <1>2, <2>1
  <2>3. k - 1 \in 0 .. Cardinality(S) /\ k - 1 \notin Bad /\ k \in 1 .. Cardinality(S)
    BY <1>1, <2>1, <2>2
  <2> QED BY <1>3, <2>1, <2>3
<1> QED BY <1>4

\* What the kernel hands out was free.
LEMMA LowestAreFree ==
    ASSUME NEW n \in 0 .. Cardinality(FreeFds)
    PROVE  LowestFds(n) \subseteq FreeFds
<1>1. IsFiniteSet(Fd) /\ FreeFds \subseteq Fd /\ Fd \subseteq Nat
  BY FS_Interval, GbmAssumption DEF Fd, FreeFds
<1>2. IsFiniteSet(FreeFds)
  BY <1>1, FS_Subset
<1>3. \E s \in SUBSET FreeFds : Cardinality(s) = n /\ \A d \in s, e \in FreeFds \ s : d < e
  BY <1>1, <1>2, LowestExist
<1> QED BY <1>3 DEF LowestFds

\* The tables' types, as far as the ownership of descriptors needs them.
GbmTypes ==
    /\ DOMAIN bufs = BufferNames /\ bufs = [b \in BufferNames |-> bufs[b]]
    /\ owner \in [Fd -> BufferNames \cup {"free", "dumb", "other"}]

GbmInv == GbmTypes /\ GbmFdsOwned /\ ScanoutIsRenderable

\* Descriptors that were free go to a buffer that had none, or to the others.
LEMMA GivenAreOwned ==
    ASSUME GbmInv, NEW fds, fds \subseteq FreeFds, NEW to
    PROVE  /\ Give(fds, to) \in [Fd -> BufferNames \cup {"free", "dumb", "other"} \cup {to}]
           /\ \A d \in Fd : Give(fds, to)[d] = IF d \in fds THEN to ELSE owner[d]
           /\ \A d \in fds : owner[d] = "free" /\ d \in Fd
BY DEF Give, GbmInv, GbmTypes, FreeFds

\* A buffer is made: of planes that own their descriptors, or of none.
LEMMA MadeKeepsInv ==
    ASSUME GbmInv, NEW b \in BufferNames, ~bufs[b].live,
           NEW p \in Params, NEW f \in Listed(FORMATS(p)), NEW m \in BoModifiers(p, f),
           NEW fds, fds \subseteq FreeFds, UNCHANGED tables,
           bufs' = [bufs EXCEPT ![b] = Made(p, f, m, fds)],
           owner' = Give(fds, b)
    PROVE  GbmInv'
<1>1. GbmTypes'
  BY GivenAreOwned DEF GbmInv, GbmTypes
<1>2. \A c \in BufferNames : bufs'[c] = IF c = b THEN Made(p, f, m, fds) ELSE bufs[c]
  BY DEF GbmInv, GbmTypes
<1>3. /\ Made(p, f, m, fds).live /\ Made(p, f, m, fds).fds = fds
      /\ Made(p, f, m, fds).source = Source(p) /\ Made(p, f, m, fds).regular = Regular(p)
      /\ Made(p, f, m, fds).format = f /\ Made(p, f, m, fds).modifier = m
  BY DEF Made
<1>4. GbmFdsOwned'
  <2> SUFFICES ASSUME NEW d \in Fd, NEW c \in BufferNames
               PROVE  bufs'[c].live /\ d \in bufs'[c].fds <=> owner'[d] = c
    BY DEF GbmFdsOwned
  <2>1. /\ owner'[d] = IF d \in fds THEN b ELSE owner[d]
        /\ d \in fds => owner[d] = "free"
    BY GivenAreOwned, SMTT(30)
  <2>2. bufs[c].live /\ d \in bufs[c].fds <=> owner[d] = c
    BY DEF GbmInv, GbmFdsOwned
  <2>3. c # "free"
    BY GbmAssumption
  <2>4. CASE c = b
    BY <1>2, <1>3, <2>1, <2>2, <2>4
  <2>5. CASE c # b
    BY <1>2, <2>1, <2>2, <2>3, <2>5
  <2> QED BY <2>4, <2>5
<1>5. ScanoutIsRenderable'
  <2>1. Regular(p) /\ m # Implicit =>
          /\ m \in tables[Source(p)][f]
          /\ Listed(tables.renderable) # {} => m \in tables.renderable[f]
    <3> SUFFICES ASSUME Regular(p), m # Implicit
                 PROVE  m \in ExplicitModifiers(p, f)
      BY DEF ExplicitModifiers, FORMATS
    <3>1. ~MULTIGPU(p)
      BY DEF Regular
    <3> QED BY <3>1 DEF BoModifiers
  <2> SUFFICES ASSUME NEW c \in BufferNames, bufs'[c].live,
                      bufs'[c].regular, bufs'[c].modifier # Implicit
               PROVE  /\ bufs'[c].modifier \in tables[bufs'[c].source][bufs'[c].format]
                      /\ Listed(tables.renderable) # {} =>
                            bufs'[c].modifier \in tables.renderable[bufs'[c].format]
    BY DEF ScanoutIsRenderable, Listed
  <2>2. CASE c = b
    BY <1>2, <1>3, <2>1, <2>2
  <2>3. CASE c # b
    <3>1. bufs'[c] = bufs[c]
      BY <1>2, <2>3
    <3> QED BY <3>1 DEF GbmInv, ScanoutIsRenderable
  <2> QED BY <2>2, <2>3
<1> QED BY <1>1, <1>4, <1>5 DEF GbmInv

\* A descriptor that belongs to no buffer passes from one to another.
LEMMA OthersKeepInv ==
    ASSUME GbmInv, UNCHANGED <<tables, bufs>>,
           owner' \in [Fd -> BufferNames \cup {"free", "dumb", "other"}],
           \A d \in Fd : owner'[d] = owner[d]
                          \/ (owner[d] \notin BufferNames /\ owner'[d] \notin BufferNames)
    PROVE  GbmInv'
<1>1. GbmTypes' /\ ScanoutIsRenderable'
  BY DEF GbmInv, GbmTypes, ScanoutIsRenderable, Listed
<1>2. GbmFdsOwned'
  BY DEF GbmInv, GbmFdsOwned
<1> QED BY <1>1, <1>2 DEF GbmInv

\* Every step keeps the invariant.
LEMMA NextGbmInv == GbmInv /\ [GbmNext]_gbmVars => GbmInv'
<1> SUFFICES ASSUME GbmInv, [GbmNext]_gbmVars PROVE GbmInv'
  OBVIOUS
<1>0. Cardinality(FreeFds) \in Nat /\ (FreeFds # {} => 1 \in 0 .. Cardinality(FreeFds))
  <2>1. IsFiniteSet(Fd) /\ FreeFds \in SUBSET Fd
    BY FS_Interval, GbmAssumption DEF Fd, FreeFds
  <2>2. IsFiniteSet(FreeFds)
    BY <2>1, FS_Subset
  <2> QED BY <2>2, FS_CardinalityType, FS_EmptySet
<1>1. ASSUME NEW b \in BufferNames, NEW p \in Params, AcquireGbm(b, p) PROVE GbmInv'
  <2>0. PICK f \in Listed(FORMATS(p)) :
          \E m \in BoModifiers(p, f), n \in 1 .. 2 :
            \/ n <= Cardinality(FreeFds) /\ AllPlanes(b, p, f, m, n)
            \/ n - 1 <= Cardinality(FreeFds) /\ PlaneFails(b, p, f, m, n - 1)
    BY <1>1 DEF AcquireGbm
  <2>1. PICK m \in BoModifiers(p, f), n \in 1 .. 2 :
          \/ n <= Cardinality(FreeFds) /\ AllPlanes(b, p, f, m, n)
          \/ n - 1 <= Cardinality(FreeFds) /\ PlaneFails(b, p, f, m, n - 1)
    BY <2>0
  <2>2. ~bufs[b].live /\ UNCHANGED tables
    BY <1>1 DEF AcquireGbm
  <2>3. CASE n <= Cardinality(FreeFds) /\ AllPlanes(b, p, f, m, n)
    <3>1. LowestFds(n) \subseteq FreeFds
      BY <1>0, <2>3, LowestAreFree
    <3> QED BY <2>2, <2>3, <3>1, MadeKeepsInv DEF AllPlanes
  <2>4. CASE PlaneFails(b, p, f, m, n - 1)
    <3>1. PICK none : none = {}
      OBVIOUS
    <3>2. owner = Give(none, b)
      BY <3>1 DEF Give, GbmInv, GbmTypes
    <3>3. none \subseteq FreeFds
      BY <3>1
    <3>4. bufs' = [bufs EXCEPT ![b] = Made(p, f, m, none)] /\ owner' = Give(none, b)
      BY <2>4, <3>1, <3>2 DEF PlaneFails
    <3> QED BY <2>2, <3>3, <3>4, MadeKeepsInv
  <2> QED BY <2>1, <2>3, <2>4
<1>2. ASSUME NEW b \in BufferNames, DestroyGbm(b) PROVE GbmInv'
  <2>1. \A c \in BufferNames : bufs'[c] = IF c = b THEN NoBuffer ELSE bufs[c]
    BY <1>2 DEF DestroyGbm, GbmInv, GbmTypes
  <2>2. \A d \in Fd : owner'[d] = IF d \in bufs[b].fds THEN "free" ELSE owner[d]
    BY <1>2 DEF DestroyGbm, Give
  <2>3. GbmTypes'
    BY <1>2 DEF DestroyGbm, Give, GbmInv, GbmTypes
  <2>4. ~NoBuffer.live
    BY DEF NoBuffer
  <2>5. GbmFdsOwned'
    <3> SUFFICES ASSUME NEW d \in Fd, NEW c \in BufferNames
                 PROVE  bufs'[c].live /\ d \in bufs'[c].fds <=> owner'[d] = c
      BY DEF GbmFdsOwned
    <3>1. /\ bufs[c].live /\ d \in bufs[c].fds <=> owner[d] = c
          /\ d \in bufs[b].fds <=> owner[d] = b
      BY <1>2 DEF GbmInv, GbmFdsOwned, DestroyGbm
    <3>2. c # "free"
      BY GbmAssumption
    <3> QED BY <2>1, <2>2, <2>4, <3>1, <3>2
  <2>6. ScanoutIsRenderable'
    BY <1>2, <2>1, <2>4 DEF GbmInv, ScanoutIsRenderable, Listed, DestroyGbm
  <2> QED BY <2>3, <2>5, <2>6 DEF GbmInv
<1>3. ASSUME NEW to \in {"dumb", "other"}, FreeFds # {}, owner' = Give(LowestFds(1), to),
             UNCHANGED <<tables, bufs>>
      PROVE  GbmInv'
  <2>1. LowestFds(1) \subseteq FreeFds
    BY <1>0, <1>3, LowestAreFree
  <2>2. /\ Give(LowestFds(1), to) \in [Fd -> BufferNames \cup {"free", "dumb", "other"} \cup {to}]
        /\ \A d \in Fd : Give(LowestFds(1), to)[d] = IF d \in LowestFds(1) THEN to ELSE owner[d]
        /\ \A d \in LowestFds(1) : owner[d] = "free" /\ d \in Fd
    BY <2>1, GivenAreOwned
  <2>3. to \notin BufferNames /\ "free" \notin BufferNames
    BY GbmAssumption
  <2> QED BY <1>3, <2>2, <2>3, OthersKeepInv
<1>4. CASE AcquireDumb
  BY <1>3, <1>4 DEF AcquireDumb
<1>5. CASE OtherOpens
  BY <1>3, <1>5 DEF OtherOpens
<1>6. ASSUME NEW d \in Fd, OtherCloses(d) PROVE GbmInv'
  <2>1. {"free", "other"} \cap BufferNames = {}
    BY GbmAssumption
  <2>2. /\ owner' \in [Fd -> BufferNames \cup {"free", "dumb", "other"}]
        /\ \A e \in Fd : owner'[e] = IF e = d THEN "free" ELSE owner[e]
    BY <1>6 DEF OtherCloses, GbmInv, GbmTypes
  <2> QED BY <1>6, <2>1, <2>2, OthersKeepInv DEF OtherCloses
<1>7. CASE UNCHANGED gbmVars
  BY <1>7, OthersKeepInv DEF gbmVars, GbmInv, GbmTypes
<1> QED BY <1>1, <1>2, <1>4, <1>5, <1>6, <1>7 DEF GbmNext, AcquireFails

\* The initial state satisfies the invariant.
LEMMA InitGbmInv == GbmInit => GbmInv
<1> SUFFICES ASSUME GbmInit PROVE GbmInv
  OBVIOUS
<1>1. \A b \in BufferNames : ~bufs[b].live
  BY DEF GbmInit, NoBuffer
<1>2. "free" \notin BufferNames
  BY GbmAssumption
<1>3. GbmTypes
  BY DEF GbmInit, GbmTypes
<1> QED BY <1>1, <1>2, <1>3 DEF GbmInit, GbmInv, GbmFdsOwned, ScanoutIsRenderable

LEMMA GbmInvariant == GbmSpec => []GbmInv
BY InitGbmInv, NextGbmInv, PTL DEF GbmSpec

\* Every GBM buffer owns exactly the descriptors it will close, for any number
\* of buffers and descriptors and wherever an export failed.
THEOREM FdsStayOwned == GbmSpec => []GbmFdsOwned
<1>1. GbmInv => GbmFdsOwned
  BY DEF GbmInv
<1> QED BY <1>1, GbmInvariant, PTL

\* A regular scanout buffer has a modifier that plane and renderer share, or an
\* implicit one, for any tables of formats.
THEOREM ScanoutStaysRenderable == GbmSpec => []ScanoutIsRenderable
<1>1. GbmInv => ScanoutIsRenderable
  BY DEF GbmInv
<1> QED BY <1>1, GbmInvariant, PTL
=============================================================================
