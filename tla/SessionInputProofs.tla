------------------------- MODULE SessionInputProofs -------------------------
(***************************************************************************)
(* Proofs about the input side of a session, for any devices, tools and    *)
(* users, and a queue of any length.                                       *)
(*                                                                         *)
(* The session learns of libinput's devices and buttons from a queue of    *)
(* events, and libinput is ahead of it by what is in the queue.  So the    *)
(* invariant speaks of the events: read in order, they lead from what the  *)
(* session knows to what libinput knows (Path).  It holds if every action  *)
(* adds a path at the end of the queue or takes a step off its front; what *)
(* libinput says when it is suspended is a path of many devices, by        *)
(* induction over them (AllGonePath).                                      *)
(***************************************************************************)
EXTENDS SessionInput, Basics, FiniteSetTheorems, TLAPS

\* What a reader of libinput's queue knows: the devices and, of the pointers,
\* those on which the button is down.
Views == [known : SUBSET InputDevices, held : SUBSET InputDevices]
View(k, h) == [known |-> k, held |-> h]

\* Event e makes w of the view v: it comes from a known device, if it does not
\* make it known, and the number that a button event carries is right.
Reads(e, v, w) ==
    /\ e.kind # "added" => e.dev \in v.known
    /\ w.known = IF e.kind = "added" THEN v.known \cup {e.dev}
                 ELSE IF e.kind = "removed" THEN v.known \ {e.dev} ELSE v.known
    /\ e.kind # "button" => w.held = v.held
    /\ e.kind = "button" =>
        /\ w.held = IF e.pressed THEN v.held \cup {e.dev} ELSE v.held \ {e.dev}
        /\ e.pressed <=> e.dev \notin v.held
        /\ e.count = Cardinality(w.held)

\* The events q, read in order, lead from the view v to w.
Path(q, v, w) ==
    \E at \in [0 .. Len(q) -> Views] :
        /\ at[0] = v /\ at[Len(q)] = w
        /\ \A k \in 1 .. Len(q) : Reads(q[k], at[k - 1], at[k])

\* libinput's queue leads from what the session knows, and has told of the
\* button, to what libinput knows.
QueueInv ==
    \E v \in Views :
        /\ v.known = known /\ (button <=> v.held # {})
        /\ Path(queue, v, View(open, held))

\* Nothing is kept that was not announced.
TellInv == ~early => kept \subseteq told /\ \A d \in known : {d} \X Caps[d] \subseteq told

InputInv == InputTypeOK /\ QueueInv /\ TellInv

-----------------------------------------------------------------------------
(* Paths.                                                                  *)

LEMMA EmptyPath == ASSUME NEW v \in Views PROVE Path(<<>>, v, v)
<1>1. PICK at : at = [k \in 0 .. 0 |-> v]
  OBVIOUS
<1>2. at \in [0 .. 0 -> Views] /\ at[0] = v
  BY <1>1
<1>3. Len(<<>>) = 0 /\ 1 .. 0 = {}
  OBVIOUS
<1>4. \A k \in 1 .. Len(<<>>) : Reads(<<>>[k], at[k - 1], at[k])
  BY <1>3
<1> QED BY <1>2, <1>3, <1>4 DEF Path

LEMMA StepPath ==
    ASSUME NEW e, NEW v \in Views, NEW w \in Views, Reads(e, v, w)
    PROVE  Path(<<e>>, v, w)
<1>1. PICK at : at = [k \in 0 .. 1 |-> IF k = 0 THEN v ELSE w]
  OBVIOUS
<1>2. at \in [0 .. 1 -> Views] /\ at[0] = v /\ at[1] = w
  BY <1>1
<1>3. Len(<<e>>) = 1 /\ <<e>>[1] = e
  OBVIOUS
<1>4. \A k \in 1 .. 1 : k = 1 /\ k - 1 = 0
  OBVIOUS
<1>5. \A k \in 1 .. 1 : Reads(<<e>>[k], at[k - 1], at[k])
  BY <1>2, <1>3, <1>4
<1> QED BY <1>2, <1>3, <1>5 DEF Path

LEMMA JoinPaths ==
    ASSUME NEW T, NEW p \in Seq(T), NEW q \in Seq(T), NEW v, NEW w, NEW u,
           Path(p, v, w), Path(q, w, u)
    PROVE  Path(p \o q, v, u)
<1>1. PICK a \in [0 .. Len(p) -> Views] :
        a[0] = v /\ a[Len(p)] = w /\ \A k \in 1 .. Len(p) : Reads(p[k], a[k - 1], a[k])
  BY DEF Path
<1>2. PICK b \in [0 .. Len(q) -> Views] :
        b[0] = w /\ b[Len(q)] = u /\ \A k \in 1 .. Len(q) : Reads(q[k], b[k - 1], b[k])
  BY DEF Path
<1>3. PICK m \in Nat : m = Len(p)
  OBVIOUS
<1>4. PICK n \in Nat : n = Len(q)
  OBVIOUS
<1>5. /\ Len(p \o q) = m + n
      /\ \A k \in 1 .. m : (p \o q)[k] = p[k]
      /\ \A k \in m + 1 .. m + n : (p \o q)[k] = q[k - m]
  BY <1>3, <1>4
<1>6. PICK at : at = [k \in 0 .. m + n |-> IF k <= m THEN a[k] ELSE b[k - m]]
  OBVIOUS
<1>7. at \in [0 .. m + n -> Views]
  <2>1. \A k \in 0 .. m + n : (k <= m => k \in 0 .. m) /\ (~(k <= m) => k - m \in 0 .. n)
    OBVIOUS
  <2> QED BY <1>1, <1>2, <1>3, <1>4, <1>6, <2>1
<1>8. at[0] = v /\ at[m + n] = u
  <2>1. 0 \in 0 .. m + n /\ m + n \in 0 .. m + n /\ (m + n <= m => n = 0) /\ m + n - m = n
    OBVIOUS
  <2>2. at[0] = a[0]
    BY <1>6, <2>1
  <2>3. CASE n = 0
    BY <1>1, <1>2, <1>3, <1>4, <1>6, <2>1, <2>2, <2>3
  <2>4. CASE n # 0
    BY <1>1, <1>2, <1>3, <1>4, <1>6, <2>1, <2>2, <2>4
  <2> QED BY <2>3, <2>4
<1>9. ASSUME NEW k \in 1 .. m + n PROVE Reads((p \o q)[k], at[k - 1], at[k])
  <2>1. CASE k \in 1 .. m
    <3>1. at[k] = a[k] /\ at[k - 1] = a[k - 1]
      BY <1>6, <2>1
    <3> QED BY <1>1, <1>3, <1>5, <2>1, <3>1
  <2>2. CASE k \in m + 1 .. m + n
    <3>1. PICK j \in 1 .. n : j = k - m /\ k = m + j
      BY <2>2
    <3>2. at[k] = b[j]
      BY <1>6, <2>2, <3>1
    <3>3. at[k - 1] = b[j - 1]
      <4>1. CASE j = 1
        <5>1. k - 1 = m /\ m \in 0 .. m + n /\ j - 1 = 0
          BY <3>1, <4>1
        <5> QED BY <1>1, <1>2, <1>3, <1>6, <5>1
      <4>2. CASE j # 1
        <5>1. k - 1 \in 0 .. m + n /\ ~(k - 1 <= m) /\ k - 1 - m = j - 1
          BY <3>1, <4>2
        <5> QED BY <1>6, <5>1
      <4> QED BY <4>1, <4>2
    <3>4. Reads(q[j], b[j - 1], b[j])
      BY <1>2, <1>4
    <3>5. (p \o q)[k] = q[j]
      BY <1>5, <2>2, <3>1
    <3> QED BY <3>2, <3>3, <3>4, <3>5
  <2>3. k \in 1 .. m \/ k \in m + 1 .. m + n
    OBVIOUS
  <2> QED BY <2>1, <2>2, <2>3
<1> QED BY <1>5, <1>7, <1>8, <1>9 DEF Path

LEMMA TailPath ==
    ASSUME NEW T, NEW q \in Seq(T), q # <<>>, NEW v, NEW w, Path(q, v, w)
    PROVE  \E u \in Views : Reads(Head(q), v, u) /\ Path(Tail(q), u, w)
<1>1. PICK a \in [0 .. Len(q) -> Views] :
        a[0] = v /\ a[Len(q)] = w /\ \A k \in 1 .. Len(q) : Reads(q[k], a[k - 1], a[k])
  BY DEF Path
<1>2. PICK n \in Nat : n + 1 = Len(q)
  <2>1. Len(q) \in Nat \ {0}
    OBVIOUS
  <2> QED BY <2>1
<1>3. /\ Len(Tail(q)) = n /\ Head(q) = q[1]
      /\ \A k \in 1 .. n : Tail(q)[k] = q[k + 1]
  BY <1>2
<1>4. PICK b : b = [k \in 0 .. n |-> a[k + 1]]
  OBVIOUS
<1>5. b \in [0 .. n -> Views] /\ b[0] = a[1] /\ b[n] = w
  <2>1. \A k \in 0 .. n : k + 1 \in 0 .. n + 1
    OBVIOUS
  <2>2. 0 \in 0 .. n /\ n \in 0 .. n /\ 0 + 1 = 1
    OBVIOUS
  <2> QED BY <1>1, <1>2, <1>4, <2>1, <2>2
<1>6. ASSUME NEW k \in 1 .. n PROVE Reads(Tail(q)[k], b[k - 1], b[k])
  <2>1. k \in 0 .. n /\ k - 1 \in 0 .. n /\ k - 1 + 1 = k /\ k + 1 - 1 = k /\ k + 1 \in 1 .. Len(q)
    BY <1>2
  <2>2. Reads(q[k + 1], a[k + 1 - 1], a[k + 1])
    BY <1>1, <2>1
  <2>3. b[k] = a[k + 1] /\ b[k - 1] = a[k]
    BY <1>4, <2>1
  <2> QED BY <1>3, <2>1, <2>2, <2>3
<1>7. Path(Tail(q), b[0], w)
  BY <1>3, <1>5, <1>6 DEF Path
<1>8. Reads(Head(q), v, b[0])
  <2>1. 1 \in 1 .. Len(q) /\ 1 - 1 = 0
    BY <1>2
  <2> QED BY <1>1, <1>3, <1>5, <2>1
<1>9. b[0] \in Views
  BY <1>5
<1> QED BY <1>7, <1>8, <1>9

\* Without events of buttons the button stays.
LEMMA QuietPath ==
    ASSUME NEW T, NEW q \in Seq(T), NEW v, NEW w, Path(q, v, w),
           \A k \in DOMAIN q : q[k].kind # "button"
    PROVE  v.held = w.held
<1>1. PICK a \in [0 .. Len(q) -> Views] :
        a[0] = v /\ a[Len(q)] = w /\ \A k \in 1 .. Len(q) : Reads(q[k], a[k - 1], a[k])
  BY DEF Path
<1> DEFINE G == {k \in 0 .. Len(q) : a[k].held = v.held}
<1>2. Len(q) \in Nat /\ DOMAIN q = 1 .. Len(q)
  OBVIOUS
<1>3. 0 \in G
  BY <1>1, <1>2
<1>4. ASSUME NEW k \in 1 .. Len(q), k - 1 \in G PROVE k \in G
  <2>1. Reads(q[k], a[k - 1], a[k]) /\ q[k].kind # "button"
    BY <1>1, <1>2
  <2>2. a[k].held = a[k - 1].held
    BY <2>1 DEF Reads
  <2>3. k \in 0 .. Len(q)
    BY <1>2
  <2> QED BY <1>4, <2>2, <2>3
<1>5. Len(q) \in G
  <2> HIDE DEF G
  <2>1. \A k \in 0 .. Len(q) : k \in G
    BY <1>2, <1>3, <1>4, UpTo
  <2>2. Len(q) \in 0 .. Len(q)
    BY <1>2
  <2> QED BY <2>1, <2>2
<1> QED BY <1>1, <1>5

-----------------------------------------------------------------------------
(* What libinput puts in its queue.                                        *)

\* A finite set as a sequence: every element once.
LEMMA SetToSeqOnce ==
    ASSUME NEW S, IsFiniteSet(S)
    PROVE  /\ Cardinality(S) \in Nat
           /\ SetToSeq(S) \in [1 .. Cardinality(S) -> S]
           /\ \A i, j \in 1 .. Cardinality(S) : SetToSeq(S)[i] = SetToSeq(S)[j] => i = j
           /\ \A d \in S : \E i \in 1 .. Cardinality(S) : SetToSeq(S)[i] = d
<1>1. PICK n \in Nat : n = Cardinality(S)
  BY FS_CardinalityType
<1>2. ExistsBijection(1 .. n, S)
  BY <1>1, FS_CardinalityType
<1>3. \E f \in [1 .. n -> S] : IsInjective(f)
  BY <1>2 DEF ExistsBijection, Bijection, Injection
<1>4. PICK q : q = SetToSeq(S)
  OBVIOUS
<1>5. q \in [1 .. n -> S] /\ IsInjective(q)
  BY <1>1, <1>3, <1>4 DEF SetToSeq
<1>6. q \in Injection(1 .. n, S)
  BY <1>5 DEF Injection
<1>7. Cardinality(1 .. n) = n
  BY FS_Interval
<1>8. q \in Surjection(1 .. n, S)
  BY <1>1, <1>6, <1>7, FS_Injection
<1>9. \A i, j \in 1 .. n : q[i] = q[j] => i = j
  BY <1>5 DEF IsInjective
<1>10. \A d \in S : \E i \in 1 .. n : q[i] = d
  BY <1>8 DEF Surjection
<1> QED BY <1>1, <1>4, <1>5, <1>9, <1>10

\* Devices that are reported become known.
LEMMA AddedPath ==
    ASSUME NEW devs \in SUBSET InputDevices, NEW k \in SUBSET InputDevices, NEW h \in SUBSET InputDevices
    PROVE  /\ AddedEvents(devs) \in Seq(InputEvents)
           /\ Path(AddedEvents(devs), View(k, h), View(k \cup devs, h))
<1>1. IsFiniteSet(devs)
  BY InputAssumption, FS_Subset
<1>2. PICK n \in Nat : n = Cardinality(devs)
  BY <1>1, FS_CardinalityType
<1>3. PICK s \in [1 .. n -> devs] :
        /\ s = SetToSeq(devs)
        /\ \A d \in devs : \E i \in 1 .. n : s[i] = d
  BY <1>1, <1>2, SetToSeqOnce
<1>4. PICK q : q = AddedEvents(devs)
  OBVIOUS
<1>5. q = [i \in 1 .. n |-> Event("added", s[i])]
  BY <1>2, <1>3, <1>4 DEF AddedEvents
<1>6. \A i \in 1 .. n : Event("added", s[i]) \in InputEvents
  <2> SUFFICES ASSUME NEW i \in 1 .. n PROVE Event("added", s[i]) \in [kind : Passive, dev : InputDevices]
    BY DEF InputEvents
  <2>1. s[i] \in InputDevices
    BY <1>3
  <2> QED BY <2>1 DEF Event, Passive
<1>7. q \in Seq(InputEvents) /\ Len(q) = n
  BY <1>5, <1>6
<1> DEFINE K(m) == k \cup {s[j] : j \in 1 .. m}
<1>8. PICK at : at = [m \in 0 .. n |-> View(K(m), h)]
  OBVIOUS
<1>9. at \in [0 .. n -> Views]
  <2>1. \A m \in 0 .. n : \A j \in 1 .. m : j \in 1 .. n
    OBVIOUS
  <2>2. \A m \in 0 .. n : K(m) \in SUBSET InputDevices
    BY <1>3, <2>1
  <2> HIDE DEF K
  <2> QED BY <1>8, <2>2 DEF View, Views
<1>10. at[0] = View(k, h) /\ at[n] = View(k \cup devs, h)
  <2>1. K(0) = k /\ K(n) = k \cup devs
    BY <1>3
  <2>2. 0 \in 0 .. n /\ n \in 0 .. n
    OBVIOUS
  <2> HIDE DEF K
  <2> QED BY <1>8, <2>1, <2>2
<1>11. ASSUME NEW m \in 1 .. n PROVE Reads(q[m], at[m - 1], at[m])
  <2>1. m \in 0 .. n /\ m - 1 \in 0 .. n /\ \A j \in Int : j \in 1 .. m <=> j \in 1 .. m - 1 \/ j = m
    OBVIOUS
  <2>2. K(m) = K(m - 1) \cup {s[m]}
    BY <2>1
  <2> HIDE DEF K
  <2>3. at[m] = View(K(m), h) /\ at[m - 1] = View(K(m - 1), h)
    BY <1>8, <2>1
  <2>4. q[m].kind = "added" /\ q[m].dev = s[m]
    BY <1>5 DEF Event
  <2> QED BY <2>2, <2>3, <2>4 DEF Reads, View
<1>12. Path(q, View(k, h), View(k \cup devs, h))
  BY <1>7, <1>9, <1>10, <1>11 DEF Path
<1> QED BY <1>4, <1>7, <1>12

\* A device that goes is released, left by its tool and forgotten.
LEMMA GonePath ==
    ASSUME InputTypeOK, NEW k \in SUBSET InputDevices, NEW h \in SUBSET InputDevices, NEW d \in k
    PROVE  /\ GoneEvents(d, h) \in Seq(InputEvents)
           /\ Path(GoneEvents(d, h), View(k, h), View(k \ {d}, h \ {d}))
<1> DEFINE H == h \ {d}
           up == IF d \in h THEN <<ButtonEvent(d, FALSE, Cardinality(H))>> ELSE <<>>
           out == IF d \in With("tablet") /\ near[d] # NoTool THEN <<ToolEvent(d, "out", near[d])>> ELSE <<>>
           end == <<Event("removed", d)>>
<1>1. View(k, h) \in Views /\ View(k, H) \in Views /\ View(k \ {d}, H) \in Views
  BY DEF View, Views
<1>2. up \in Seq(InputEvents) /\ Path(up, View(k, h), View(k, H))
  <2>1. CASE d \in h
    <3>1. IsFiniteSet(H)
      BY InputAssumption, FS_Subset
    <3>2. Cardinality(H) \in Nat
      BY <3>1, FS_CardinalityType
    <3>3. PICK e : e = ButtonEvent(d, FALSE, Cardinality(H))
      OBVIOUS
    <3>4. e \in InputEvents
      BY <3>2, <3>3 DEF ButtonEvent, InputEvents
    <3>5. Reads(e, View(k, h), View(k, H))
      BY <2>1, <3>3 DEF Reads, View, ButtonEvent
    <3>6. up = <<e>>
      BY <2>1, <3>3
    <3> HIDE DEF up, H
    <3> QED BY <1>1, <3>4, <3>5, <3>6, StepPath
  <2>2. CASE d \notin h
    <3>1. up = <<>> /\ H = h
      BY <2>2
    <3> HIDE DEF up, H
    <3> QED BY <1>1, <3>1, EmptyPath
  <2> QED BY <2>1, <2>2
<1>3. out \in Seq(InputEvents) /\ Path(out, View(k, H), View(k, H))
  <2>1. CASE d \in With("tablet") /\ near[d] # NoTool
    <3>1. near[d] \in Tools
      BY <2>1 DEF InputTypeOK
    <3>2. PICK e : e = ToolEvent(d, "out", near[d])
      OBVIOUS
    <3>3. e \in InputEvents
      BY <2>1, <3>1, <3>2 DEF ToolEvent, InputEvents
    <3>4. Reads(e, View(k, H), View(k, H))
      BY <3>2 DEF Reads, View, ToolEvent
    <3>5. out = <<e>>
      BY <2>1, <3>2
    <3> HIDE DEF out, H
    <3> QED BY <1>1, <3>3, <3>4, <3>5, StepPath
  <2>2. CASE ~(d \in With("tablet") /\ near[d] # NoTool)
    <3>1. out = <<>>
      BY <2>2
    <3> HIDE DEF out, H
    <3> QED BY <1>1, <3>1, EmptyPath
  <2> QED BY <2>1, <2>2
<1>4. end \in Seq(InputEvents) /\ Path(end, View(k, H), View(k \ {d}, H))
  <2>1. PICK e : e = Event("removed", d)
    OBVIOUS
  <2>2. e \in InputEvents
    BY <2>1 DEF Event, InputEvents, Passive
  <2>3. Reads(e, View(k, H), View(k \ {d}, H))
    BY <2>1 DEF Reads, View, Event
  <2> HIDE DEF H
  <2> QED BY <1>1, <2>1, <2>2, <2>3, StepPath
<1>5. GoneEvents(d, h) = up \o out \o end
  BY DEF GoneEvents
<1> HIDE DEF H, up, out, end
<1>6. up \o out \in Seq(InputEvents) /\ up \o out \o end \in Seq(InputEvents)
  BY <1>2, <1>3, <1>4
<1>7. Path(up \o out, View(k, h), View(k, H))
  BY <1>2, <1>3, JoinPaths
<1>8. Path(up \o out \o end, View(k, h), View(k \ {d}, H))
  BY <1>4, <1>6, <1>7, JoinPaths
<1> QED BY <1>5, <1>6, <1>8 DEF H

\* The recursion that AllGone stands for has a solution.
LEMMA AllGoneStep ==
    ASSUME Cardinality(open) \in Nat,
           \A n \in 1 .. Cardinality(open) :
              GoneEvents(SetToSeq(open)[n], held \ {SetToSeq(open)[k] : k \in 1 .. n - 1}) \in Seq(InputEvents)
    PROVE  \E events :
              /\ AllGone = events[Cardinality(open)]
              /\ events[0] = <<>>
              /\ \A n \in 1 .. Cardinality(open) :
                    events[n] = events[n - 1]
                        \o GoneEvents(SetToSeq(open)[n], held \ {SetToSeq(open)[k] : k \in 1 .. n - 1})
<1> DEFINE N == Cardinality(open)
           X(n) == GoneEvents(SetToSeq(open)[n], held \ {SetToSeq(open)[k] : k \in 1 .. n - 1})
           F == [n \in 1 .. N |-> [q \in Seq(InputEvents) |-> q \o X(n)]]
           Body(f, n) == IF n = 0 THEN <<>> ELSE f[n - 1] \o X(n)
           R == CHOOSE f : f = [n \in 0 .. N |-> Body(f, n)]
<1>1. AllGone = R[N]
  BY DEF AllGone
<1>2. N \in Nat /\ \A n \in 1 .. N : X(n) \in Seq(InputEvents)
  OBVIOUS
<1> HIDE DEF X, N
<1>3. PICK f \in [0 .. N -> Seq(InputEvents)] : f[0] = <<>> /\ \A n \in 1 .. N : f[n] = F[n][f[n - 1]]
  <2>1. F \in [1 .. N -> [Seq(InputEvents) -> Seq(InputEvents)]] /\ <<>> \in Seq(InputEvents)
    BY <1>2
  <2> HIDE DEF F
  <2>2. Recurses(Seq(InputEvents), N, <<>>, F)
    BY <1>2, <2>1, Recursion
  <2> QED BY <2>2 DEF Recurses
<1>4. \A n \in 0 .. N : f[n] = Body(f, n)
  <2>1. \A n \in 0 .. N : n # 0 => n \in 1 .. N /\ n - 1 \in 0 .. N
    BY <1>2
  <2> QED BY <1>3, <2>1
<1>5. \E g : g = [n \in 0 .. N |-> Body(g, n)]
  <2> HIDE DEF Body
  <2>1. f = [n \in 0 .. N |-> Body(f, n)]
    BY <1>4, Zenon
  <2> QED BY <2>1
<1>6. R = [n \in 0 .. N |-> Body(R, n)]
  BY <1>5
<1> HIDE DEF R
<1>7. \A n \in 0 .. N : R[n] = Body(R, n)
  <2> HIDE DEF Body
  <2> QED BY <1>6
<1>8. R[0] = <<>>
  BY <1>2, <1>7
<1>9. \A n \in 1 .. N : R[n] = R[n - 1] \o X(n)
  <2>1. \A n \in 1 .. N : n \in 0 .. N /\ n # 0
    BY <1>2
  <2> QED BY <1>7, <2>1
<1> QED BY <1>1, <1>8, <1>9 DEF X, N

\* After the last of them nothing is known, and no button is down.
LEMMA AllGonePath ==
    ASSUME InputTypeOK
    PROVE  /\ AllGone \in Seq(InputEvents)
           /\ Path(AllGone, View(open, held), View({}, {}))
<1>0. open \subseteq InputDevices /\ held \subseteq open
  BY DEF InputTypeOK
<1>1. IsFiniteSet(open)
  BY <1>0, InputAssumption, FS_Subset
<1> DEFINE N == Cardinality(open)
           s == SetToSeq(open)
           F(n) == {s[k] : k \in 1 .. n}
<1>2. N \in Nat
  BY <1>1, FS_CardinalityType
<1>3. /\ s \in [1 .. N -> open]
      /\ \A i, j \in 1 .. N : s[i] = s[j] => i = j
      /\ \A d \in open : \E i \in 1 .. N : s[i] = d
  BY <1>1, SetToSeqOnce
<1>e. \A n \in 1 .. N : GoneEvents(s[n], held \ F(n - 1)) \in Seq(InputEvents)
  <2> SUFFICES ASSUME NEW n \in 1 .. N PROVE GoneEvents(s[n], held \ F(n - 1)) \in Seq(InputEvents)
    OBVIOUS
  <2>1. s[n] \in open
    BY <1>3
  <2> HIDE DEF F, s
  <2>2. PICK h \in SUBSET InputDevices : h = held \ F(n - 1)
    BY <1>0
  <2> QED BY <1>0, <2>1, <2>2, GonePath
<1>4. PICK ev :
        /\ AllGone = ev[N] /\ ev[0] = <<>>
        /\ \A n \in 1 .. N : ev[n] = ev[n - 1] \o GoneEvents(s[n], held \ F(n - 1))
  BY <1>2, <1>e, AllGoneStep
<1> HIDE DEF N, s
<1> DEFINE Good(n) == /\ ev[n] \in Seq(InputEvents)
                      /\ Path(ev[n], View(open, held), View(open \ F(n), held \ F(n)))
           G == {n \in 0 .. N : Good(n)}
<1>5. 0 \in G
  <2>1. F(0) = {}
    OBVIOUS
  <2>2. View(open, held) \in Views
    BY <1>0 DEF View, Views
  <2>3. open \ {} = open /\ held \ {} = held
    OBVIOUS
  <2> HIDE DEF F
  <2>4. Good(0)
    <3>1. Path(ev[0], View(open, held), View(open, held)) /\ ev[0] \in Seq(InputEvents)
      BY <1>4, <2>2, EmptyPath
    <3> QED BY <2>1, <2>3, <3>1
  <2> HIDE DEF Good
  <2> QED BY <1>2, <2>4
<1>6. ASSUME NEW n \in 1 .. N, n - 1 \in G PROVE n \in G
  <2>1. F(n) = F(n - 1) \cup {s[n]}
    <3>1. \A j \in Int : j \in 1 .. n <=> j \in 1 .. n - 1 \/ j = n
      BY <1>2
    <3> QED BY <3>1
  <2>2. s[n] \in open \ F(n - 1)
    <3>1. \A j \in 1 .. n - 1 : j \in 1 .. N /\ j # n
      BY <1>2
    <3> QED BY <1>3, <3>1
  <2> HIDE DEF F
  <2>3. PICK k \in SUBSET InputDevices : k = open \ F(n - 1)
    BY <1>0
  <2>4. PICK h \in SUBSET InputDevices : h = held \ F(n - 1)
    BY <1>0
  <2>5. GoneEvents(s[n], h) \in Seq(InputEvents) /\ Path(GoneEvents(s[n], h), View(k, h), View(k \ {s[n]}, h \ {s[n]}))
    BY <2>2, <2>3, GonePath
  <2>6. ev[n - 1] \in Seq(InputEvents) /\ Path(ev[n - 1], View(open, held), View(k, h))
    BY <1>6, <2>3, <2>4
  <2>7. ev[n] = ev[n - 1] \o GoneEvents(s[n], h)
    BY <1>4, <2>4
  <2>8. k \ {s[n]} = open \ F(n) /\ h \ {s[n]} = held \ F(n)
    BY <2>1, <2>3, <2>4
  <2>9. Good(n)
    <3>1. ev[n] \in Seq(InputEvents)
      BY <2>5, <2>6, <2>7
    <3>2. Path(ev[n], View(open, held), View(k \ {s[n]}, h \ {s[n]}))
      BY <2>5, <2>6, <2>7, JoinPaths
    <3> QED BY <2>8, <3>1, <3>2
  <2> HIDE DEF Good
  <2> QED BY <1>2, <2>9
<1>7. Good(N)
  <2>1. \A n \in 0 .. N : n \in G
    <3> HIDE DEF G
    <3> QED BY <1>2, <1>5, <1>6, UpTo
  <2>2. N \in 0 .. N
    BY <1>2
  <2> HIDE DEF Good
  <2> QED BY <2>1, <2>2, Zenon
<1>8. open \ F(N) = {} /\ held \ F(N) = {}
  BY <1>0, <1>2, <1>3
<1> HIDE DEF F
<1> QED BY <1>4, <1>7, <1>8

-----------------------------------------------------------------------------
(* The invariant.                                                          *)

\* What libinput adds to its queue must lead from what it knew to what it
\* knows now.
LEMMA QueuedKeepsInv ==
    ASSUME InputTypeOK, QueueInv, NEW new \in Seq(InputEvents),
           queue' = queue \o new, UNCHANGED <<known, button>>,
           Path(new, View(open, held), View(open, held)')
    PROVE  QueueInv'
<1>1. PICK v \in Views : v.known = known /\ (button <=> v.held # {}) /\ Path(queue, v, View(open, held))
  BY DEF QueueInv
<1>2. queue \in Seq(InputEvents)
  BY DEF InputTypeOK
<1>3. Path(queue', v, View(open, held)')
  BY <1>1, <1>2, JoinPaths
<1> QED BY <1>1, <1>3 DEF QueueInv

LEMMA QuietKeepsInv ==
    ASSUME QueueInv, UNCHANGED <<queue, open, held, known, button>>
    PROVE  QueueInv'
  BY DEF QueueInv, View

\* What the session makes of an event must be what the event says.
LEMMA TakenKeepsInv ==
    ASSUME InputTypeOK, QueueInv, queue # <<>>, queue' = Tail(queue), UNCHANGED <<open, held>>
    PROVE  \E v, w \in Views :
              /\ v.known = known /\ (button <=> v.held # {})
              /\ Reads(Head(queue), v, w)
              /\ w.known = known' /\ (button' <=> w.held # {}) => QueueInv'
<1>1. PICK v \in Views : v.known = known /\ (button <=> v.held # {}) /\ Path(queue, v, View(open, held))
  BY DEF QueueInv
<1>2. queue \in Seq(InputEvents)
  BY DEF InputTypeOK
<1>3. PICK w \in Views : Reads(Head(queue), v, w) /\ Path(Tail(queue), w, View(open, held))
  BY <1>1, <1>2, TailPath
<1>4. ASSUME w.known = known', button' <=> w.held # {} PROVE QueueInv'
  BY <1>3, <1>4 DEF QueueInv, View
<1> QED BY <1>1, <1>3, <1>4

\* Which events there are.
LEMMA EventTypes ==
    /\ \A k \in Passive, d \in InputDevices : Event(k, d) \in InputEvents
    /\ \A d \in InputDevices, p \in BOOLEAN, c \in Nat : ButtonEvent(d, p, c) \in InputEvents
    /\ \A d \in With("switch"), on \in BOOLEAN : [kind |-> "switch", dev |-> d, on |-> on] \in InputEvents
    /\ \A d \in With("tablet"), k \in {"in", "out", "tool"}, t \in Tools : ToolEvent(d, k, t) \in InputEvents
<1>1. \A k \in Passive, d \in InputDevices : Event(k, d) \in InputEvents
  BY DEF InputEvents, Event
<1>2. \A d \in InputDevices, p \in BOOLEAN, c \in Nat : ButtonEvent(d, p, c) \in InputEvents
  BY DEF InputEvents, ButtonEvent
<1>3. \A d \in With("switch"), on \in BOOLEAN : [kind |-> "switch", dev |-> d, on |-> on] \in InputEvents
  BY DEF InputEvents
<1>4. \A d \in With("tablet"), k \in {"in", "out", "tool"}, t \in Tools : ToolEvent(d, k, t) \in InputEvents
  BY DEF InputEvents, ToolEvent
<1> QED BY <1>1, <1>2, <1>3, <1>4

\* What is known of an event that is taken.
LEMMA TakeTypes ==
    ASSUME InputTypeOK, NEW kind, Take(kind)
    PROVE  /\ queue' \in Seq(InputEvents) /\ queue' = Tail(queue) /\ queue # <<>>
           /\ Head(queue).kind = kind /\ Dev \in InputDevices
           /\ kind = "switch" => Dev \in With("switch") /\ Head(queue).on \in BOOLEAN
           /\ kind = "button" => Head(queue).pressed \in BOOLEAN
           /\ kind \in {"in", "out", "tool"} => Dev \in With("tablet") /\ Head(queue).tool \in Tools
           /\ early' \in BOOLEAN /\ (~early' => ~early /\ when = "ready")
           /\ UNCHANGED <<when, enabled, attached, open, held, near>>
<1>1. queue \in Seq(InputEvents) /\ queue # <<>> /\ Head(queue).kind = kind /\ queue' = Tail(queue)
  BY DEF InputTypeOK, Take
<1>2. PICK e \in InputEvents : e = Head(queue)
  BY <1>1
<1>3. e.dev \in InputDevices
  BY <1>2 DEF InputEvents, With
<1>4. /\ e.kind = "switch" => e.dev \in With("switch") /\ e.on \in BOOLEAN
      /\ e.kind = "button" => e.pressed \in BOOLEAN
      /\ e.kind \in {"in", "out", "tool"} => e.dev \in With("tablet") /\ e.tool \in Tools
  BY <1>2 DEF InputEvents, Passive
<1>5. queue' \in Seq(InputEvents)
  BY <1>1
<1>6. early' \in BOOLEAN /\ (~early' => ~early /\ when = "ready")
  BY DEF Take, InputTypeOK
<1> QED BY <1>1, <1>2, <1>3, <1>4, <1>5, <1>6 DEF Take, Dev

\* libinput and the seat keep the invariant.
LEMMA SeatKeepsInv ==
    ASSUME InputInv, SessionAttempt \/ LibseatEnableSeat \/ LibseatDisableSeat \/ WaitEnds \/ BackendReady
    PROVE  InputInv'
<1>t. /\ open \subseteq attached /\ attached \subseteq InputDevices /\ held \subseteq open
      /\ queue \in Seq(InputEvents)
  BY DEF InputInv, InputTypeOK
<1>o. ASSUME OpenAll, UNCHANGED <<attached, held>>
      PROVE  /\ open' = attached /\ queue' \in Seq(InputEvents)
             /\ UNCHANGED <<known, button>> => QueueInv'
  <2>1. PICK new : new = AddedEvents(attached \ open)
    OBVIOUS
  <2>2. PICK devs \in SUBSET InputDevices : devs = attached \ open
    BY <1>t
  <2>3. open \in SUBSET InputDevices /\ held \in SUBSET InputDevices
    BY <1>t
  <2>4. new \in Seq(InputEvents) /\ Path(new, View(open, held), View(open \cup devs, held))
    BY <2>1, <2>2, <2>3, AddedPath
  <2>5. open \cup devs = attached
    BY <1>t, <2>2
  <2>6. open' = attached /\ queue' = queue \o new
    BY <1>o, <2>1 DEF OpenAll
  <2>7. View(open, held)' = View(attached, held)
    BY <1>o, <2>6 DEF View
  <2>8. Path(new, View(open, held), View(open, held)')
    BY <2>4, <2>5, <2>7
  <2>9. queue' \in Seq(InputEvents)
    BY <1>t, <2>4, <2>6
  <2> QED BY <2>4, <2>6, <2>8, <2>9, QueuedKeepsInv DEF InputInv
<1>1. CASE SessionAttempt
  <2>1. CASE OpenAll /\ enabled' = TRUE /\ when' = "created"
    <3>1. UNCHANGED <<attached, held>> /\ UNCHANGED <<known, button>>
      BY <1>1 DEF SessionAttempt, sessionVars
    <3>2. open' = attached /\ queue' \in Seq(InputEvents) /\ QueueInv'
      BY <1>o, <2>1, <3>1
    <3>3. InputTypeOK'
      BY <1>1, <1>t, <2>1, <3>2 DEF SessionAttempt, sessionVars, InputInv, InputTypeOK
    <3>4. TellInv'
      BY <1>1 DEF SessionAttempt, sessionVars, InputInv, TellInv
    <3> QED BY <3>2, <3>3, <3>4 DEF InputInv
  <2>2. CASE enabled' = FALSE /\ when' = "waiting" /\ UNCHANGED <<open, queue>>
    <3>1. InputTypeOK'
      BY <1>1, <2>2 DEF SessionAttempt, sessionVars, InputInv, InputTypeOK
    <3>2. QueueInv'
      BY <1>1, <2>2, QuietKeepsInv DEF SessionAttempt, sessionVars, InputInv
    <3>3. TellInv'
      BY <1>1 DEF SessionAttempt, sessionVars, InputInv, TellInv
    <3> QED BY <3>1, <3>2, <3>3 DEF InputInv
  <2> QED BY <1>1, <2>1, <2>2 DEF SessionAttempt
<1>2. CASE LibseatEnableSeat
  <2>1. OpenAll /\ UNCHANGED <<attached, held>> /\ UNCHANGED <<known, button>>
    BY <1>2 DEF LibseatEnableSeat, sessionVars
  <2>2. open' = attached /\ queue' \in Seq(InputEvents) /\ QueueInv'
    BY <1>o, <2>1
  <2>3. InputTypeOK'
    BY <1>2, <1>t, <2>2 DEF LibseatEnableSeat, sessionVars, InputInv, InputTypeOK
  <2>4. TellInv'
    BY <1>2 DEF LibseatEnableSeat, sessionVars, InputInv, TellInv
  <2> QED BY <2>2, <2>3, <2>4 DEF InputInv
<1>3. CASE LibseatDisableSeat
  <2>1. /\ AllGone \in Seq(InputEvents) /\ Path(AllGone, View(open, held), View({}, {}))
    BY AllGonePath DEF InputInv
  <2>2. PICK new : new = AllGone
    OBVIOUS
  <2>3. /\ open' = {} /\ held' = {} /\ queue' = queue \o new /\ UNCHANGED <<known, button>>
        /\ near' = [t \in DOMAIN near |-> NoTool]
    BY <1>3, <2>2 DEF LibseatDisableSeat, sessionVars
  <2>4. View(open, held)' = View({}, {})
    BY <2>3 DEF View
  <2>5. QueueInv'
    BY <2>1, <2>2, <2>3, <2>4, QueuedKeepsInv DEF InputInv
  <2>6. queue' \in Seq(InputEvents)
    BY <1>t, <2>1, <2>2, <2>3
  <2>7. near' \in [With("tablet") -> Tools \cup {NoTool}]
    BY <2>3 DEF InputInv, InputTypeOK
  <2>8. InputTypeOK'
    BY <1>3, <1>t, <2>3, <2>6, <2>7 DEF LibseatDisableSeat, sessionVars, InputInv, InputTypeOK
  <2>9. TellInv'
    BY <1>3 DEF LibseatDisableSeat, sessionVars, InputInv, TellInv
  <2> QED BY <2>5, <2>8, <2>9 DEF InputInv
<1>4. CASE WaitEnds \/ BackendReady
  <2>1. UNCHANGED <<enabled, early, libinputVars, sessionVars>> /\ when' \in {"created", "ready"}
    BY <1>4 DEF WaitEnds, BackendReady
  <2>2. QueueInv'
    BY <2>1, QuietKeepsInv DEF libinputVars, sessionVars, InputInv
  <2>3. InputTypeOK'
    BY <2>1 DEF libinputVars, sessionVars, InputInv, InputTypeOK
  <2>4. TellInv'
    BY <2>1 DEF sessionVars, InputInv, TellInv
  <2> QED BY <2>2, <2>3, <2>4 DEF InputInv
<1> QED BY <1>1, <1>2, <1>3, <1>4

\* A single event of a device that libinput has open.
LEMMA EventKeepsInv ==
    ASSUME InputInv, NEW e \in InputEvents, queue' = Append(queue, e),
           open' \in SUBSET InputDevices, held' \in SUBSET InputDevices,
           Reads(e, View(open, held), View(open', held')), UNCHANGED <<known, button>>
    PROVE  QueueInv' /\ queue' \in Seq(InputEvents)
<1>1. queue \in Seq(InputEvents) /\ InputTypeOK /\ QueueInv
  BY DEF InputInv, InputTypeOK
<1>2. View(open, held) \in Views /\ View(open', held') \in Views
  BY <1>1 DEF View, Views, InputTypeOK
<1>3. Path(<<e>>, View(open, held), View(open', held'))
  BY <1>2, StepPath
<1>4. View(open, held)' = View(open', held')
  BY DEF View
<1>5. queue' = queue \o <<e>> /\ <<e>> \in Seq(InputEvents) /\ queue' \in Seq(InputEvents)
  BY <1>1
<1> QED BY <1>1, <1>3, <1>4, <1>5, QueuedKeepsInv

\* Users and the kernel keep the invariant.
LEMMA AttachKeepsInv == ASSUME InputInv, NEW d \in InputDevices, Attach(d) PROVE InputInv'
<1>t. /\ open \subseteq attached /\ attached \subseteq InputDevices /\ held \subseteq open
      /\ queue \in Seq(InputEvents)
  BY DEF InputInv, InputTypeOK
<1>1. attached' = attached \cup {d} /\ UNCHANGED <<seatVars, held, near, sessionVars>>
  BY DEF Attach
<1>2. QueueInv' /\ queue' \in Seq(InputEvents) /\ open' \subseteq attached' /\ open \subseteq open'
  <2>1. CASE enabled
    <3>1. PICK e \in InputEvents : e = Event("added", d)
      BY EventTypes DEF Passive
    <3>2. open' = open \cup {d} /\ queue' = Append(queue, e) /\ held' = held
      BY <1>1, <2>1, <3>1 DEF Attach
    <3>3. Reads(e, View(open, held), View(open', held'))
      BY <3>1, <3>2 DEF Reads, View, Event
    <3> QED BY <1>1, <1>t, <3>2, <3>3, EventKeepsInv DEF sessionVars
  <2>2. CASE ~enabled
    <3>1. open' = open /\ queue' = queue
      BY <2>2 DEF Attach
    <3> QED BY <1>1, <1>t, <3>1, QuietKeepsInv DEF sessionVars, InputInv
  <2> QED BY <2>1, <2>2
<1>3. InputTypeOK'
  BY <1>1, <1>2, <1>t DEF InputInv, InputTypeOK, seatVars, sessionVars
<1>4. TellInv'
  BY <1>1 DEF InputInv, TellInv, seatVars, sessionVars
<1> QED BY <1>2, <1>3, <1>4 DEF InputInv

LEMMA DetachKeepsInv == ASSUME InputInv, NEW d \in InputDevices, Detach(d) PROVE InputInv'
<1>t. /\ open \subseteq attached /\ attached \subseteq InputDevices /\ held \subseteq open
      /\ queue \in Seq(InputEvents)
  BY DEF InputInv, InputTypeOK
<1>1. /\ attached' = attached \ {d} /\ open' = open \ {d} /\ held' = held \ {d}
      /\ near' = [t \in DOMAIN near |-> IF t = d THEN NoTool ELSE near[t]]
      /\ UNCHANGED <<seatVars, sessionVars>>
  BY DEF Detach
<1>2. QueueInv' /\ queue' \in Seq(InputEvents)
  <2>1. CASE d \in open
    <3>1. PICK new : new = GoneEvents(d, held)
      OBVIOUS
    <3>2. open \in SUBSET InputDevices /\ held \in SUBSET InputDevices
      BY <1>t
    <3>3. new \in Seq(InputEvents) /\ Path(new, View(open, held), View(open \ {d}, held \ {d}))
      BY <2>1, <3>1, <3>2, GonePath DEF InputInv
    <3>4. View(open, held)' = View(open \ {d}, held \ {d})
      BY <1>1 DEF View
    <3>5. queue' = queue \o new
      BY <2>1, <3>1 DEF Detach
    <3>6. queue' \in Seq(InputEvents)
      BY <1>t, <3>3, <3>5
    <3> QED BY <1>1, <3>3, <3>4, <3>5, <3>6, QueuedKeepsInv DEF InputInv, sessionVars
  <2>2. CASE d \notin open
    <3>1. open' = open /\ held' = held /\ queue' = queue
      BY <1>1, <1>t, <2>2 DEF Detach
    <3> QED BY <1>1, <1>t, <3>1, QuietKeepsInv DEF sessionVars, InputInv
  <2> QED BY <2>1, <2>2
<1>3. near' \in [With("tablet") -> Tools \cup {NoTool}]
  BY <1>1 DEF InputInv, InputTypeOK
<1>4. InputTypeOK'
  BY <1>1, <1>2, <1>3, <1>t DEF InputInv, InputTypeOK, seatVars, sessionVars
<1>5. TellInv'
  BY <1>1 DEF InputInv, TellInv, seatVars, sessionVars
<1> QED BY <1>2, <1>4, <1>5 DEF InputInv

LEMMA ButtonKeepsInv == ASSUME InputInv, NEW d \in InputDevices, UserButton(d) PROVE InputInv'
<1>t. /\ open \subseteq attached /\ attached \subseteq InputDevices /\ held \subseteq open
      /\ queue \in Seq(InputEvents)
  BY DEF InputInv, InputTypeOK
<1>1. /\ d \in open /\ UNCHANGED <<seatVars, attached, open, near, sessionVars>>
      /\ held' = IF d \in held THEN held \ {d} ELSE held \cup {d}
      /\ queue' = Append(queue, ButtonEvent(d, d \notin held, Cardinality(held')))
  BY DEF UserButton, Uses
<1>2. held' \subseteq open
  BY <1>1, <1>t
<1>3. IsFiniteSet(held')
  BY <1>2, <1>t, InputAssumption, FS_Subset
<1>4. Cardinality(held') \in Nat
  BY <1>3, FS_CardinalityType
<1>5. PICK e \in InputEvents : e = ButtonEvent(d, d \notin held, Cardinality(held'))
  <2>1. (d \notin held) \in BOOLEAN
    OBVIOUS
  <2> QED BY <1>4, <2>1, EventTypes
<1>6. Reads(e, View(open, held), View(open', held'))
  <2>1. e.kind = "button" /\ e.dev = d /\ e.pressed = (d \notin held) /\ e.count = Cardinality(held')
    BY <1>5 DEF ButtonEvent
  <2>2. open' = open
    BY <1>1
  <2> QED BY <1>1, <2>1, <2>2 DEF Reads, View
<1>7. QueueInv' /\ queue' \in Seq(InputEvents)
  <2>1. open' \in SUBSET InputDevices /\ held' \in SUBSET InputDevices
    BY <1>1, <1>2, <1>t
  <2> QED BY <1>1, <1>5, <1>6, <2>1, EventKeepsInv DEF sessionVars
<1>8. InputTypeOK'
  BY <1>1, <1>2, <1>7, <1>t DEF InputInv, InputTypeOK, seatVars, sessionVars
<1>9. TellInv'
  BY <1>1 DEF InputInv, TellInv, seatVars, sessionVars
<1> QED BY <1>7, <1>8, <1>9 DEF InputInv

\* Events that change nothing of what a view holds.
LEMMA UserKeepsInv ==
    ASSUME InputInv, NEW e \in InputEvents, e.dev \in open, e.kind \notin {"added", "removed", "button"},
           queue' = Append(queue, e), UNCHANGED <<seatVars, attached, open, held, sessionVars>>,
           near' \in [With("tablet") -> Tools \cup {NoTool}]
    PROVE  InputInv'
<1>1. Reads(e, View(open, held), View(open', held'))
  BY DEF Reads, View
<1>2. open' \in SUBSET InputDevices /\ held' \in SUBSET InputDevices
  BY DEF InputInv, InputTypeOK
<1>3. QueueInv' /\ queue' \in Seq(InputEvents)
  BY <1>1, <1>2, EventKeepsInv DEF sessionVars
<1>4. InputTypeOK'
  BY <1>3 DEF InputInv, InputTypeOK, seatVars, sessionVars
<1>5. TellInv'
  BY DEF InputInv, TellInv, seatVars, sessionVars
<1> QED BY <1>3, <1>4, <1>5 DEF InputInv

LEMMA UsersKeepInv ==
    ASSUME InputInv, NEW d \in InputDevices,
           \/ \E c \in Capabilities : UserInput(d, c)
           \/ UserSwitch(d)
           \/ \E t \in Tools : UserTool(d, t)
    PROVE  InputInv'
<1>0. near \in [With("tablet") -> Tools \cup {NoTool}]
  BY DEF InputInv, InputTypeOK
<1>1. ASSUME NEW c \in Capabilities, UserInput(d, c) PROVE InputInv'
  <2>1. c \in Passive \ {"added", "removed"} /\ d \in open
    BY <1>1 DEF UserInput, Uses, Capabilities, Passive
  <2>2. PICK e \in InputEvents : e = Event(c, d)
    BY <2>1, EventTypes
  <2>3. e.dev = d /\ e.kind = c
    BY <2>2 DEF Event
  <2>4. e.kind \notin {"added", "removed", "button"}
    BY <2>1, <2>3 DEF Passive
  <2>5. queue' = Append(queue, e) /\ UNCHANGED <<seatVars, attached, open, held, sessionVars>> /\ near' = near
    BY <1>1, <2>2 DEF UserInput
  <2> QED BY <1>0, <2>1, <2>3, <2>4, <2>5, UserKeepsInv
<1>2. ASSUME UserSwitch(d) PROVE InputInv'
  <2>1. d \in With("switch") /\ d \in open
    BY <1>2 DEF UserSwitch, Uses, With
  <2>2. PICK on \in BOOLEAN : queue' = Append(queue, [kind |-> "switch", dev |-> d, on |-> on])
    BY <1>2 DEF UserSwitch
  <2>3. PICK e \in InputEvents : e = [kind |-> "switch", dev |-> d, on |-> on]
    BY <2>1, EventTypes
  <2>4. e.dev = d /\ e.kind \notin {"added", "removed", "button"}
    BY <2>3
  <2>5. queue' = Append(queue, e) /\ UNCHANGED <<seatVars, attached, open, held, sessionVars>> /\ near' = near
    BY <1>2, <2>2, <2>3 DEF UserSwitch
  <2> QED BY <1>0, <2>1, <2>4, <2>5, UserKeepsInv
<1>3. ASSUME NEW t \in Tools, UserTool(d, t) PROVE InputInv'
  <2>1. d \in With("tablet") /\ d \in open
    BY <1>3 DEF UserTool, Uses, With
  <2>2. PICK k \in {"in", "out", "tool"} : queue' = Append(queue, ToolEvent(d, k, t))
    BY <1>3 DEF UserTool
  <2>3. PICK e \in InputEvents : e = ToolEvent(d, k, t)
    BY <2>1, EventTypes
  <2>4. e.dev = d /\ e.kind \notin {"added", "removed", "button"}
    BY <2>3 DEF ToolEvent
  <2>5. UNCHANGED <<seatVars, attached, open, held, sessionVars>>
    BY <1>3 DEF UserTool
  <2>6. near' = near \/ near' = [near EXCEPT ![d] = t] \/ near' = [near EXCEPT ![d] = NoTool]
    BY <1>3 DEF UserTool
  <2>7. near' \in [With("tablet") -> Tools \cup {NoTool}]
    BY <1>0, <2>6
  <2>8. queue' = Append(queue, e)
    BY <2>2, <2>3
  <2> QED BY <2>1, <2>4, <2>5, <2>7, <2>8, UserKeepsInv
<1> QED BY <1>1, <1>2, <1>3

\* dispatchLibinputEvents: what the session makes of an event is what the
\* event says.  A button that is pressed or released is down exactly if it is
\* on some pointer, because the count that comes with it is that of libinput.
LEMMA DeviceEventsKeepInv == ASSUME InputInv, HandleAdded \/ HandleRemoved PROVE InputInv'
<1>0. Caps \in [InputDevices -> SUBSET Capabilities]
  BY InputAssumption
<1>1. CASE HandleAdded
  <2>1. /\ queue' \in Seq(InputEvents) /\ queue' = Tail(queue) /\ queue # <<>>
        /\ Head(queue).kind = "added" /\ Dev \in InputDevices
        /\ early' \in BOOLEAN /\ (~early' => ~early /\ when = "ready")
        /\ UNCHANGED <<when, enabled, attached, open, held, near>>
    BY <1>1, TakeTypes DEF HandleAdded, InputInv
  <2>2. /\ known' = known \cup {Dev} /\ kept' = kept /\ button' = button
        /\ told' = IF when = "ready" THEN told \cup ({Dev} \X Caps[Dev]) ELSE told
        /\ lid' = [s \in DOMAIN lid |-> IF s = Dev THEN FALSE ELSE lid[s]]
    BY <1>1 DEF HandleAdded, Announced
  <2>3. InputTypeOK'
    <3>1. Caps[Dev] \subseteq Capabilities
      BY <1>0, <2>1
    <3>2. told' \subseteq InputDevices \X (Capabilities \cup Tools)
      BY <2>1, <2>2, <3>1 DEF InputInv, InputTypeOK
    <3>3. lid' \in [With("switch") -> BOOLEAN]
      BY <2>2 DEF InputInv, InputTypeOK
    <3> QED BY <2>1, <2>2, <3>2, <3>3 DEF InputInv, InputTypeOK
  <2>4. QueueInv'
    <3>1. PICK v, w \in Views :
            /\ v.known = known /\ (button <=> v.held # {}) /\ Reads(Head(queue), v, w)
            /\ w.known = known' /\ (button' <=> w.held # {}) => QueueInv'
      BY <2>1, TakenKeepsInv DEF InputInv
    <3>2. w.known = known' /\ w.held = v.held
      BY <2>1, <2>2, <3>1 DEF Reads, Dev
    <3> QED BY <2>2, <3>1, <3>2
  <2>5. TellInv'
    BY <2>1, <2>2 DEF InputInv, TellInv
  <2> QED BY <2>3, <2>4, <2>5 DEF InputInv
<1>2. CASE HandleRemoved
  <2>1. /\ queue' \in Seq(InputEvents) /\ queue' = Tail(queue) /\ queue # <<>>
        /\ Head(queue).kind = "removed" /\ Dev \in InputDevices
        /\ early' \in BOOLEAN /\ (~early' => ~early /\ when = "ready")
        /\ UNCHANGED <<when, enabled, attached, open, held, near>>
    BY <1>2, TakeTypes DEF HandleRemoved, InputInv
  <2>2. /\ known' = known \ {Dev} /\ button' = button /\ lid' = lid
        /\ told' = {p \in told : p[1] # Dev} /\ kept' = {p \in kept : p[1] # Dev}
    BY <1>2 DEF HandleRemoved
  <2>3. InputTypeOK'
    BY <2>1, <2>2 DEF InputInv, InputTypeOK
  <2>4. QueueInv'
    <3>1. PICK v, w \in Views :
            /\ v.known = known /\ (button <=> v.held # {}) /\ Reads(Head(queue), v, w)
            /\ w.known = known' /\ (button' <=> w.held # {}) => QueueInv'
      BY <2>1, TakenKeepsInv DEF InputInv
    <3>2. w.known = known' /\ w.held = v.held
      BY <2>1, <2>2, <3>1 DEF Reads, Dev
    <3> QED BY <2>2, <3>1, <3>2
  <2>5. TellInv'
    <3> SUFFICES ASSUME ~early', kept \subseteq told, \A d \in known : {d} \X Caps[d] \subseteq told
                 PROVE  kept' \subseteq told' /\ \A d \in known' : {d} \X Caps[d] \subseteq told'
      BY <2>1 DEF InputInv, TellInv
    <3>1. kept' \subseteq told'
      BY <2>2
    <3>2. ASSUME NEW d \in known', NEW p \in {d} \X Caps[d] PROVE p \in told'
      BY <2>2
    <3> QED BY <3>1, <3>2
  <2> QED BY <2>3, <2>4, <2>5 DEF InputInv
<1> QED BY <1>1, <1>2

LEMMA ButtonEventsKeepInv == ASSUME InputInv, HandleButton PROVE InputInv'
<1>1. /\ queue' \in Seq(InputEvents) /\ queue' = Tail(queue) /\ queue # <<>>
      /\ Head(queue).kind = "button" /\ Head(queue).pressed \in BOOLEAN
      /\ early' \in BOOLEAN /\ (~early' => ~early /\ when = "ready")
      /\ UNCHANGED <<when, enabled, attached, open, held, near>>
  BY TakeTypes DEF HandleButton, InputInv
<1>2. /\ button' = IF Counts(Head(queue)) THEN Head(queue).pressed ELSE button
      /\ UNCHANGED <<known, kept, told, lid>>
  BY DEF HandleButton
<1>3. InputTypeOK'
  BY <1>1, <1>2 DEF InputInv, InputTypeOK
<1>4. PICK v, w \in Views :
        /\ v.known = known /\ (button <=> v.held # {}) /\ Reads(Head(queue), v, w)
        /\ w.known = known' /\ (button' <=> w.held # {}) => QueueInv'
  BY <1>1, TakenKeepsInv DEF InputInv
<1>5. PICK e : e = Head(queue)
  OBVIOUS
<1>6. /\ w.known = v.known
      /\ w.held = IF e.pressed THEN v.held \cup {e.dev} ELSE v.held \ {e.dev}
      /\ e.pressed <=> e.dev \notin v.held
      /\ e.count = Cardinality(w.held)
  BY <1>1, <1>4, <1>5 DEF Reads
<1>7. IsFiniteSet(w.held)
  <2>1. w.held \in SUBSET InputDevices
    BY DEF Views
  <2> QED BY <2>1, InputAssumption, FS_Subset
<1>8. (Cardinality(w.held) = 0 <=> w.held = {}) /\ (Cardinality(w.held) = 1 <=> \E x : w.held = {x})
  BY <1>7, FS_EmptySet, FS_Singleton
<1>9. button' <=> w.held # {}
  <2>1. CASE e.pressed
    <3>1. w.held # {}
      BY <1>6, <2>1
    <3>2. CASE e.count = 1
      BY <1>2, <1>5, <2>1, <3>1, <3>2 DEF Counts
    <3>3. CASE e.count # 1
      <4>1. v.held # {}
        BY <1>6, <1>8, <2>1, <3>3
      <4>2. button' = button
        BY <1>2, <1>5, <2>1, <3>3 DEF Counts
      <4> QED BY <1>4, <3>1, <4>1, <4>2
    <3> QED BY <3>2, <3>3
  <2>2. CASE ~e.pressed
    <3>1. v.held # {}
      BY <1>6, <2>2
    <3>2. CASE e.count = 0
      <4>1. ~button'
        BY <1>1, <1>2, <1>5, <2>2, <3>2 DEF Counts
      <4> QED BY <1>6, <1>8, <3>2, <4>1
    <3>3. CASE e.count # 0
      <4>1. button' = button
        BY <1>2, <1>5, <2>2, <3>3 DEF Counts
      <4> QED BY <1>4, <1>6, <1>8, <3>1, <3>3, <4>1
    <3> QED BY <3>2, <3>3
  <2> QED BY <2>1, <2>2
<1>10. QueueInv'
  BY <1>2, <1>4, <1>6, <1>9
<1>11. TellInv'
  BY <1>1, <1>2 DEF InputInv, TellInv
<1> QED BY <1>3, <1>10, <1>11 DEF InputInv

\* The other events: neither the devices nor the button change.
LEMMA OtherEventsKeepInv ==
    ASSUME InputInv, NEW kind, kind \notin {"added", "removed", "button"}, Take(kind),
           UNCHANGED <<known, button>>,
           kept' \subseteq With("tablet") \X Tools,
           told' \subseteq InputDevices \X (Capabilities \cup Tools),
           lid' \in [With("switch") -> BOOLEAN],
           TellInv'
    PROVE  InputInv'
<1>1. /\ queue' \in Seq(InputEvents) /\ queue' = Tail(queue) /\ queue # <<>>
      /\ Head(queue).kind = kind /\ early' \in BOOLEAN
      /\ UNCHANGED <<when, enabled, attached, open, held, near>>
  BY TakeTypes DEF InputInv
<1>2. InputTypeOK'
  BY <1>1 DEF InputInv, InputTypeOK
<1>3. QueueInv'
  <2>1. PICK v, w \in Views :
          /\ v.known = known /\ (button <=> v.held # {}) /\ Reads(Head(queue), v, w)
          /\ w.known = known' /\ (button' <=> w.held # {}) => QueueInv'
    BY <1>1, TakenKeepsInv DEF InputInv
  <2>2. w.known = v.known /\ w.held = v.held
    BY <1>1, <2>1 DEF Reads
  <2> QED BY <2>1, <2>2
<1> QED BY <1>2, <1>3 DEF InputInv

LEMMA HandlersKeepInv ==
    ASSUME InputInv,
           \/ HandleKey \/ HandlePointer \/ HandleTouch \/ HandlePad
           \/ HandleSwitch \/ HandleTool \/ HandleToolLeaves
    PROVE  InputInv'
<1>t. /\ kept \subseteq With("tablet") \X Tools
      /\ told \subseteq InputDevices \X (Capabilities \cup Tools)
      /\ lid \in [With("switch") -> BOOLEAN]
      /\ With("tablet") \subseteq InputDevices
  BY DEF InputInv, InputTypeOK, With
<1>1. ASSUME NEW cap \in {"keyboard", "pointer", "touch", "pad"}, PassedOn(cap) PROVE InputInv'
  <2>1. Take(cap) /\ UNCHANGED <<known, kept, told, button, lid>>
    BY <1>1 DEF PassedOn, sessionVars
  <2>2. ~early' => ~early
    BY <2>1, TakeTypes DEF InputInv
  <2>3. TellInv'
    BY <2>1, <2>2 DEF InputInv, TellInv
  <2> QED BY <1>t, <2>1, <2>3, OtherEventsKeepInv
<1>2. CASE HandleSwitch
  <2>1. Take("switch") /\ UNCHANGED <<known, kept, told, button>> /\ lid' = [lid EXCEPT ![Dev] = Head(queue).on]
    BY <1>2 DEF HandleSwitch
  <2>2. (~early' => ~early) /\ Dev \in With("switch") /\ Head(queue).on \in BOOLEAN
    BY <2>1, TakeTypes DEF InputInv
  <2>3. TellInv'
    BY <2>1, <2>2 DEF InputInv, TellInv
  <2>4. lid' \in [With("switch") -> BOOLEAN]
    BY <1>t, <2>1, <2>2
  <2> QED BY <1>t, <2>1, <2>3, <2>4, OtherEventsKeepInv
<1>3. ASSUME NEW kind \in {"in", "out", "tool"}, Take(kind), NEW t, t = Head(queue).tool, ToolFrom(t),
             UNCHANGED <<known, button, lid>>
      PROVE  InputInv'
  <2>1. (~early' => ~early /\ when = "ready") /\ Dev \in With("tablet") /\ t \in Tools
    BY <1>3, TakeTypes DEF InputInv
  <2>2. /\ kept' = kept \cup {<<Dev, t>>}
        /\ told' = told \/ (told' = told \cup ({Dev} \X {t}))
        /\ <<Dev, t>> \notin kept /\ when = "ready" => told' = told \cup ({Dev} \X {t})
    BY <1>3 DEF ToolFrom, Announced
  <2>3. TellInv'
    <3> SUFFICES ASSUME ~early', kept \subseteq told, \A d \in known : {d} \X Caps[d] \subseteq told, when = "ready"
                 PROVE  kept' \subseteq told' /\ \A d \in known : {d} \X Caps[d] \subseteq told'
      BY <1>3, <2>1 DEF InputInv, TellInv
    <3>1. told \subseteq told'
      BY <2>2
    <3>2. <<Dev, t>> \in told'
      BY <2>2
    <3> QED BY <2>2, <3>1, <3>2
  <2>4. kept' \subseteq With("tablet") \X Tools /\ told' \subseteq InputDevices \X (Capabilities \cup Tools)
    BY <1>t, <2>1, <2>2
  <2>5. lid' = lid /\ UNCHANGED <<known, button>>
    BY <1>3
  <2> QED BY <1>t, <1>3, <2>3, <2>4, <2>5, OtherEventsKeepInv
<1>4. CASE HandleTool
  <2>1. PICK kind \in {"in", "tool"} : Take(kind)
    BY <1>4 DEF HandleTool
  <2> QED BY <1>3, <1>4, <2>1 DEF HandleTool
<1>5. CASE HandleToolLeaves
  <2>1. PICK t : t = Head(queue).tool
    OBVIOUS
  <2>2. CASE t \in UniqueTools
    BY <1>3, <1>5, <2>1, <2>2 DEF HandleToolLeaves
  <2>3. CASE t \notin UniqueTools
    <3>1. /\ Take("out") /\ UNCHANGED <<known, button, lid>>
          /\ kept' = kept \ {<<Dev, t>>} /\ told' = told \ {<<Dev, t>>}
      BY <1>5, <2>1, <2>3 DEF HandleToolLeaves
    <3>2. (~early' => ~early) /\ t \in Tools
      BY <2>1, <3>1, TakeTypes DEF InputInv
    <3>3. TellInv'
      <4> SUFFICES ASSUME ~early', kept \subseteq told, \A d \in known : {d} \X Caps[d] \subseteq told
                   PROVE  kept' \subseteq told' /\ \A d \in known : {d} \X Caps[d] \subseteq told'
        BY <3>1, <3>2 DEF InputInv, TellInv
      <4>1. kept' \subseteq told'
        BY <3>1
      <4>2. ASSUME NEW d \in known, NEW c \in Caps[d] PROVE <<d, c>> \in told'
        <5>1. <<d, c>> \in told
          OBVIOUS
        <5>2. c \in Capabilities
          <6>1. d \in InputDevices
            BY DEF InputInv, InputTypeOK
          <6> QED BY <6>1, InputAssumption
        <5>3. c # t
          BY <3>2, <5>2, InputAssumption
        <5> QED BY <3>1, <5>1, <5>3
      <4> QED BY <4>1, <4>2
    <3> QED BY <1>t, <3>1, <3>3, OtherEventsKeepInv
  <2> QED BY <2>2, <2>3
<1> QED BY <1>1, <1>2, <1>4, <1>5 DEF HandleKey, HandlePointer, HandleTouch, HandlePad

LEMMA NextInputInv == InputInv /\ [InputNext]_inputVars => InputInv'
<1> SUFFICES ASSUME InputInv, [InputNext]_inputVars PROVE InputInv'
  OBVIOUS
<1>1. CASE UNCHANGED inputVars
  <2>1. QueueInv'
    BY <1>1, QuietKeepsInv DEF InputInv, inputVars, libinputVars, sessionVars
  <2>2. InputTypeOK' /\ TellInv'
    BY <1>1 DEF InputInv, InputTypeOK, TellInv, inputVars, seatVars, libinputVars, sessionVars
  <2> QED BY <2>1, <2>2 DEF InputInv
<1>2. CASE InputNext
  BY <1>2, SeatKeepsInv, AttachKeepsInv, DetachKeepsInv, ButtonKeepsInv, UsersKeepInv,
     DeviceEventsKeepInv, ButtonEventsKeepInv, HandlersKeepInv DEF InputNext
<1> QED BY <1>1, <1>2

LEMMA InitInputInv == InputInit => InputInv
<1> SUFFICES ASSUME InputInit PROVE InputInv
  OBVIOUS
<1>1. InputTypeOK
  <2>1. near \in [With("tablet") -> Tools \cup {NoTool}] /\ lid \in [With("switch") -> BOOLEAN]
    BY DEF InputInit
  <2>2. queue \in Seq(InputEvents) /\ attached \subseteq InputDevices
    BY DEF InputInit
  <2>3. enabled \in BOOLEAN /\ early \in BOOLEAN /\ button \in BOOLEAN
    BY DEF InputInit
  <2>4. open = {} /\ held = {} /\ known = {} /\ kept = {} /\ told = {} /\ when = "attempt"
    BY DEF InputInit
  <2> QED BY <2>1, <2>2, <2>3, <2>4 DEF InputTypeOK
<1>2. TellInv
  BY DEF InputInit, TellInv
<1>3. QueueInv
  <2>1. View({}, {}) \in Views
    BY DEF View, Views
  <2>2. Path(queue, View({}, {}), View(open, held))
    BY <2>1, EmptyPath DEF InputInit
  <2>3. View({}, {}).known = known /\ (button <=> View({}, {}).held # {})
    BY DEF InputInit, View
  <2> QED BY <2>1, <2>2, <2>3 DEF QueueInv
<1> QED BY <1>1, <1>2, <1>3 DEF InputInv

LEMMA InputInvariant == InputSpec => []InputInv
BY InitInputInv, NextInputInv, PTL DEF InputSpec

\* Whatever is plugged, unplugged and switched away, however many events wait:
\* an event never finds its device unknown, and, unless libinput was dispatched
\* before the backend was ready, its interface was announced.
THEOREM DevicesStayTold == InputSpec => []KnownIsTold
<1>1. InputInv => KnownIsTold
  <2> SUFFICES ASSUME InputInv, queue # <<>>, Head(queue).kind # "added" PROVE Dev \in known
    BY DEF InputInv, TellInv, KnownIsTold
  <2>1. PICK v \in Views : v.known = known /\ Path(queue, v, View(open, held))
    BY DEF InputInv, QueueInv
  <2>2. queue \in Seq(InputEvents)
    BY DEF InputInv, InputTypeOK
  <2>3. PICK w \in Views : Reads(Head(queue), v, w)
    BY <2>1, <2>2, TailPath
  <2> QED BY <2>1, <2>3 DEF Reads, Dev
<1> QED BY <1>1, InputInvariant, PTL

\* The caller's idea of the button follows libinput's, for any number of
\* pointers that hold it, are unplugged or lost with the seat.
THEOREM ButtonFollowsPointers == InputSpec => []SeatButtonAgrees
<1>1. InputInv => SeatButtonAgrees
  <2> SUFFICES ASSUME InputInv, \A k \in DOMAIN queue : queue[k].kind # "button" PROVE button = (held # {})
    BY DEF SeatButtonAgrees
  <2>1. PICK v \in Views : (button <=> v.held # {}) /\ Path(queue, v, View(open, held))
    BY DEF InputInv, QueueInv
  <2>2. queue \in Seq(InputEvents) /\ button \in BOOLEAN
    BY DEF InputInv, InputTypeOK
  <2>3. v.held = View(open, held).held
    BY <2>1, <2>2, QuietPath
  <2>4. button <=> held # {}
    BY <2>1, <2>3 DEF View
  <2> QED BY <2>2, <2>4
<1> QED BY <1>1, InputInvariant, PTL
=============================================================================
