------------------------ MODULE AnlandServicesProofs ------------------------
(***************************************************************************)
(* Proofs about what the Anland link carries besides pictures: the audio   *)
(* formats, the ring of the microphone's samples, and the cameras.         *)
(***************************************************************************)
EXTENDS AnlandAudio, AnlandRing, AnlandCamera,
        Basics, SequenceTheorems, TLAPS

-----------------------------------------------------------------------------
(* Audio formats.                                                          *)

AudioTypes ==
    /\ pw \in [server : BOOLEAN, core : {"null", "live", "broken"},
               connected : BOOLEAN, armed : BOOLEAN, up : BOOLEAN]
    /\ cur \in [Roles -> Formats]
    /\ strm \in [Roles -> [rate : Rates, latency : Quanta \X Rates]]

\* The service remembers what the consumer said, also while PipeWire is away,
\* which is what a stream is connected with afterwards.
AudioInv ==
    /\ AudioTypes
    /\ said = cur
    /\ StreamsFollowFormat

LEMMA ConnectedFollows ==
    ASSUME NEW f \in Formats
    PROVE  /\ Connected(f) \in [rate : Rates, latency : Quanta \X Rates]
           /\ Connected(f).rate = f.rate
           /\ f.quantum # 0 => Connected(f).latency = <<f.quantum, f.rate>>
  BY AudioAssumption DEF Connected, Formats

LEMMA BuildAudioFollows ==
    ASSUME AudioInv, BuildAudio, UNCHANGED <<cur, said>>
    PROVE  AudioInv'
<1>1. pw' \in [server : BOOLEAN, core : {"null", "live", "broken"},
               connected : BOOLEAN, armed : BOOLEAN, up : BOOLEAN]
  BY DEF AudioInv, AudioTypes, BuildAudio
<1>2. pw'.connected = pw.server
  BY DEF AudioInv, AudioTypes, BuildAudio
<1>3. ASSUME NEW role \in Roles
      PROVE  /\ strm'[role] \in [rate : Rates, latency : Quanta \X Rates]
             /\ pw.server => strm'[role] = Connected(cur[role])
  <2>1. cur[role] \in Formats
    BY DEF AudioInv, AudioTypes
  <2>2. NoStream \in [rate : Rates, latency : Quanta \X Rates]
    BY AudioAssumption DEF NoStream
  <2> QED BY <2>1, <2>2, ConnectedFollows DEF BuildAudio
<1>4. strm' \in [Roles -> [rate : Rates, latency : Quanta \X Rates]]
  BY <1>3 DEF BuildAudio
<1>5. StreamsFollowFormat'
  <2> SUFFICES ASSUME pw.server, NEW role \in Roles
               PROVE  /\ strm'[role].rate = cur[role].rate
                      /\ cur[role].quantum # 0 =>
                            strm'[role].latency = <<cur[role].quantum, cur[role].rate>>
    BY <1>2 DEF StreamsFollowFormat, AudioInv
  <2>1. cur[role] \in Formats
    BY DEF AudioInv, AudioTypes
  <2> QED BY <1>3, <2>1, ConnectedFollows
<1> QED BY <1>1, <1>4, <1>5 DEF AudioInv, AudioTypes

LEMMA FormatFollows ==
    ASSUME AudioInv, NEW role \in Roles, NEW f \in Formats, OnAudioFormat(role, f)
    PROVE  AudioInv'
<1> DEFINE m == Meant(f)
<1>1. m \in Formats /\ m.quantum = f.quantum
  BY AudioAssumption DEF Meant, Formats
<1>2. /\ cur' = [cur EXCEPT ![role] = m] /\ said' = [said EXCEPT ![role] = m] /\ pw' = pw
      /\ strm' = IF ~pw.connected \/ m = cur[role] THEN strm
                 ELSE [strm EXCEPT ![role] = [rate |-> m.rate,
                         latency |-> IF f.quantum = 0 THEN strm[role].latency
                                     ELSE <<f.quantum, m.rate>>]]
  BY DEF OnAudioFormat, ApplyFormat
<1> HIDE DEF m
<1>3. cur' \in [Roles -> Formats] /\ said' = cur'
  BY <1>1, <1>2 DEF AudioInv, AudioTypes
<1>4. strm[role] \in [rate : Rates, latency : Quanta \X Rates]
  BY DEF AudioInv, AudioTypes
<1>5. strm' \in [Roles -> [rate : Rates, latency : Quanta \X Rates]]
  BY <1>1, <1>2, <1>4 DEF AudioInv, AudioTypes, Formats
<1>6. ASSUME pw.connected, NEW q \in Roles
      PROVE  /\ strm'[q].rate = cur'[q].rate
             /\ cur'[q].quantum # 0 => strm'[q].latency = <<cur'[q].quantum, cur'[q].rate>>
  <2>1. /\ strm[q].rate = cur[q].rate
        /\ cur[q].quantum # 0 => strm[q].latency = <<cur[q].quantum, cur[q].rate>>
    BY <1>6 DEF AudioInv, StreamsFollowFormat
  <2>2. CASE q # role \/ m = cur[role]
    <3>1. cur'[q] = cur[q] /\ strm'[q] = strm[q]
      BY <1>2, <2>2 DEF AudioInv, AudioTypes
    <3> QED BY <2>1, <3>1
  <2>3. CASE q = role /\ m # cur[role]
    <3>1. cur'[q] = m /\ strm'[q] = [rate |-> m.rate,
                                     latency |-> IF f.quantum = 0 THEN strm[role].latency
                                                 ELSE <<f.quantum, m.rate>>]
      BY <1>2, <1>6, <2>3 DEF AudioInv, AudioTypes
    <3> QED BY <1>1, <3>1
  <2> QED BY <2>2, <2>3
<1>7. StreamsFollowFormat'
  BY <1>2, <1>3, <1>6 DEF StreamsFollowFormat
<1> QED BY <1>2, <1>3, <1>5, <1>7 DEF AudioInv, AudioTypes

\* A connected stream has the format the consumer asked for last, for any
\* formats, and however PipeWire and the audio sockets come and go meanwhile.
THEOREM StreamsKeepFormat == AudioSpec => []StreamsFollowFormat
<1>1. AudioInit => AudioInv
  <2> SUFFICES ASSUME AudioInit PROVE AudioInv
    OBVIOUS
  <2>1. pw \in [server : BOOLEAN, core : {"null", "live", "broken"},
               connected : BOOLEAN, armed : BOOLEAN, up : BOOLEAN] /\ ~pw.connected
    BY DEF AudioInit
  <2>2. cur \in [Roles -> Formats] /\ strm \in [Roles -> [rate : Rates, latency : Quanta \X Rates]]
    BY AudioAssumption DEF AudioInit, Formats, NoStream
  <2> QED BY <2>1, <2>2 DEF AudioInit, AudioInv, AudioTypes, StreamsFollowFormat
<1>2. AudioInv /\ [AudioNext]_audVars => AudioInv'
  <2> SUFFICES ASSUME AudioInv, [AudioNext]_audVars PROVE AudioInv'
    OBVIOUS
  <2>1. CASE AudioStart \/ AudioTimer
    BY <2>1, BuildAudioFollows DEF AudioStart, AudioTimer
  <2>2. CASE AudioCoreError \/ AudioStop
    <3>1. pw' \in [server : BOOLEAN, core : {"null", "live", "broken"},
                   connected : BOOLEAN, armed : BOOLEAN, up : BOOLEAN] /\ ~pw'.connected
      BY <2>2 DEF AudioCoreError, AudioStop, AudioInv, AudioTypes
    <3>2. UNCHANGED <<cur, said>>
      BY <2>2 DEF AudioCoreError, AudioStop
    <3>3. strm' \in [Roles -> [rate : Rates, latency : Quanta \X Rates]]
      BY <2>2, AudioAssumption DEF AudioCoreError, AudioStop, AudioInv, AudioTypes, NoStream
    <3> QED BY <3>1, <3>2, <3>3 DEF AudioInv, AudioTypes, StreamsFollowFormat
  <2>3. CASE PipewireDies \/ PipewireStarts
    <3>1. pw' \in [server : BOOLEAN, core : {"null", "live", "broken"},
                   connected : BOOLEAN, armed : BOOLEAN, up : BOOLEAN]
      BY <2>3 DEF PipewireDies, PipewireStarts, AudioInv, AudioTypes
    <3>2. pw'.connected = pw.connected /\ UNCHANGED <<cur, said, strm>>
      BY <2>3 DEF PipewireDies, PipewireStarts, AudioInv, AudioTypes
    <3> QED BY <3>1, <3>2 DEF AudioInv, AudioTypes, StreamsFollowFormat
  <2>4. CASE \E open \in BOOLEAN : SetAudioFd(open)
    BY <2>4 DEF SetAudioFd, AudioInv, AudioTypes, StreamsFollowFormat
  <2>5. CASE \E role \in Roles, f \in Formats : OnAudioFormat(role, f)
    BY <2>5, FormatFollows
  <2>6. CASE UNCHANGED audVars
    BY <2>6 DEF audVars, AudioInv, AudioTypes, StreamsFollowFormat
  <2> QED BY <2>1, <2>2, <2>3, <2>4, <2>5, <2>6 DEF AudioNext
<1>3. AudioInv => StreamsFollowFormat
  BY DEF AudioInv
<1> QED BY <1>1, <1>2, <1>3, PTL DEF AudioSpec

-----------------------------------------------------------------------------
(* The ring.                                                               *)

RingTypes ==
    /\ ring \in [cells : [0 .. RingSize - 1 -> Samples], head : 0 .. RingSize - 1,
                 tail : 0 .. RingSize - 1, fill : 0 .. FillMod - 1]
    /\ w \in [at : {"idle", "drop", "copy", "add"}, n : 0 .. MaxPcm, fill : 0 .. FillMod - 1]
    /\ r \in [at : {"idle", "tail", "load", "store"}, n : 0 .. MaxPcm, fill : 0 .. FillMod - 1]
    /\ queued \in Seq(Samples)
    /\ overlap \in BOOLEAN /\ whole \in BOOLEAN /\ next \in Samples
    /\ w.n <= RingSize

LEMMA SampleIn == ASSUME RingTypes, NEW k \in Int PROVE Sample(k) \in Samples
<1>1. next \in Int /\ SampleMod \in Nat \ {0}
  BY RingAssumption DEF RingTypes, Samples, SampleMod
<1>2. (next + k) % SampleMod \in 0 .. SampleMod - 1
  BY <1>1, ModDivision
<1> QED BY <1>1, <1>2 DEF Sample, Samples

LEMMA WrapIn == ASSUME NEW i \in Int PROVE Wrap(i) \in 0 .. FillMod - 1 /\ i % RingSize \in 0 .. RingSize - 1
<1>1. FillMod \in Nat \ {0} /\ RingSize \in Nat \ {0}
  BY RingAssumption
<1> QED BY <1>1, ModDivision DEF Wrap

LEMMA RingTypesInit == RingInit => RingTypes
<1> SUFFICES ASSUME RingInit PROVE RingTypes
  OBVIOUS
<1>1. 0 \in Samples
  BY RingAssumption DEF Samples, SampleMod
<1>2. ring \in [cells : [0 .. RingSize - 1 -> Samples], head : 0 .. RingSize - 1,
                tail : 0 .. RingSize - 1, fill : 0 .. FillMod - 1]
  BY <1>1, RingAssumption DEF RingInit
<1>3. queued \in Seq(Samples)
  BY DEF RingInit
<1>4. /\ w \in [at : {"idle", "drop", "copy", "add"}, n : 0 .. MaxPcm, fill : 0 .. FillMod - 1]
      /\ r \in [at : {"idle", "tail", "load", "store"}, n : 0 .. MaxPcm, fill : 0 .. FillMod - 1]
      /\ w.n <= RingSize
  BY RingAssumption DEF RingInit
<1> QED BY <1>1, <1>2, <1>3, <1>4 DEF RingInit, RingTypes

LEMMA RingTypesStep ==
    ASSUME RingTypes, [RingNext]_ringVars
    PROVE  RingTypes'
<1>t. /\ RingSize \in Int /\ FillMod \in Int /\ w.fill \in Int /\ w.n \in Int /\ r.fill \in Int /\ r.n \in Int
      /\ ring.head \in Int /\ ring.tail \in Int /\ 0 \in 0 .. RingSize - 1 /\ 0 \in 0 .. FillMod - 1
  BY RingAssumption DEF RingTypes
<1>z. /\ [at |-> "idle", n |-> 0, fill |-> 0] \in [at : {"idle", "drop", "copy", "add"}, n : 0 .. MaxPcm, fill : 0 .. FillMod - 1]
      /\ [at |-> "idle", n |-> 0, fill |-> 0] \in [at : {"idle", "tail", "load", "store"}, n : 0 .. MaxPcm, fill : 0 .. FillMod - 1]
      /\ 0 <= RingSize
  <2>1. 0 \in 0 .. MaxPcm /\ 0 \in 0 .. FillMod - 1 /\ 0 <= RingSize
    BY RingAssumption
  <2> QED BY <2>1
<1> USE DEF RingTypes
<1>1. ASSUME NEW n \in 1 .. MaxPcm, WriteBegins(n) PROVE RingTypes'
  <2>1. next' \in Samples
    BY <1>1, SampleIn, RingAssumption, SMTT(30) DEF WriteBegins
  <2>2. w' \in [at : {"idle", "drop", "copy", "add"}, n : 0 .. MaxPcm, fill : 0 .. FillMod - 1] /\ w'.n <= RingSize
    BY <1>1, RingAssumption DEF WriteBegins
  <2>3. overlap' \in BOOLEAN /\ whole' \in BOOLEAN
    BY <1>1 DEF WriteBegins
  <2> QED BY <1>1, <2>1, <2>2, <2>3 DEF WriteBegins
<1>2. ASSUME WriteDrops PROVE RingTypes'
  <2> DEFINE drop == Wrap(w.fill + w.n - RingSize)
  <2>1. drop \in 0 .. FillMod - 1
    <3>1. w.fill + w.n - RingSize \in Int
      BY <1>t, SMTT(30)
    <3> QED BY <3>1, WrapIn
  <2> HIDE DEF drop
  <2>2. Wrap(ring.tail + drop) % RingSize \in 0 .. RingSize - 1 /\ Wrap(w.fill - drop) \in 0 .. FillMod - 1
    <3>1. ring.tail + drop \in Int /\ w.fill - drop \in Int
      BY <1>t, <2>1, SMTT(30)
    <3>2. Wrap(ring.tail + drop) \in Int /\ Wrap(w.fill - drop) \in 0 .. FillMod - 1
      BY <3>1, WrapIn
    <3> QED BY <3>2, WrapIn
  <2>3. ring' = ring \/ ring' = [ring EXCEPT !.tail = Wrap(@ + drop) % RingSize, !.fill = Wrap(w.fill - drop)]
    BY <1>2 DEF WriteDrops, drop
  <2>4. ring' \in [cells : [0 .. RingSize - 1 -> Samples], head : 0 .. RingSize - 1,
                   tail : 0 .. RingSize - 1, fill : 0 .. FillMod - 1]
    BY <2>2, <2>3
  <2>5. w' \in [at : {"idle", "drop", "copy", "add"}, n : 0 .. MaxPcm, fill : 0 .. FillMod - 1] /\ w'.n <= RingSize
    BY <1>2 DEF WriteDrops
  <2> QED BY <1>2, <2>4, <2>5 DEF WriteDrops
<1>3. ASSUME WriteCopies PROVE RingTypes'
  <2>1. next' \in Samples
    BY <1>3, SampleIn DEF WriteCopies
  <2>2. (ring.head + w.n) % RingSize \in 0 .. RingSize - 1
    <3>1. ring.head + w.n \in Int
      BY <1>t
    <3> QED BY <3>1, WrapIn
  <2>3. PICK cells : /\ cells = [c \in 0 .. RingSize - 1 |->
                              LET k == (c - ring.head) % RingSize
                              IN  IF k < w.n THEN Sample(k) ELSE ring.cells[c]]
    OBVIOUS
  <2>4. cells \in [0 .. RingSize - 1 -> Samples]
    <3> SUFFICES ASSUME NEW c \in 0 .. RingSize - 1 PROVE cells[c] \in Samples
      BY <2>3
    <3>1. (c - ring.head) % RingSize \in Int
      <4> HIDE DEF RingTypes
      <4>1. c - ring.head \in Int
        BY <1>t
      <4> QED BY <4>1, WrapIn
    <3> QED BY <2>3, <3>1, SampleIn
  <2>5. ring' = [ring EXCEPT !.cells = cells, !.head = (ring.head + w.n) % RingSize]
    BY <1>3, <2>3 DEF WriteCopies
  <2>6. ring' \in [cells : [0 .. RingSize - 1 -> Samples], head : 0 .. RingSize - 1,
                   tail : 0 .. RingSize - 1, fill : 0 .. FillMod - 1]
    BY <2>2, <2>4, <2>5
  <2>7. w' \in [at : {"idle", "drop", "copy", "add"}, n : 0 .. MaxPcm, fill : 0 .. FillMod - 1] /\ w'.n <= RingSize
    BY <1>3 DEF WriteCopies
  <2>8. queued' \in Seq(Samples)
    <3>1. PICK new : new = [k \in 1 .. w.n |-> Sample(k - 1)]
      OBVIOUS
    <3>2. new \in Seq(Samples)
      <4>1. \A k \in 1 .. w.n : Sample(k - 1) \in Samples
        BY SampleIn
      <4>2. w.n \in Nat
        OBVIOUS
      <4> HIDE DEF RingTypes
      <4>3. new \in [1 .. w.n -> Samples]
        BY <3>1, <4>1
      <4> QED BY <4>2, <4>3
    <3>3. queued \o new \in Seq(Samples)
      BY <3>2
    <3>4. PICK all : all = queued \o new
      OBVIOUS
    <3>5. all \in Seq(Samples)
      BY <3>3, <3>4
    <3>6. queued' = IF Len(all) - RingSize > 0 THEN SubSeq(all, Len(all) - RingSize + 1, Len(all)) ELSE all
      BY <1>3, <3>1, <3>4 DEF WriteCopies
    <3> HIDE DEF RingTypes
    <3>7. PICK d \in Int : d = Len(all) - RingSize + 1
      <4>1. Len(all) \in Int
        BY <3>5
      <4>2. Len(all) - RingSize + 1 \in Int
        BY <1>t, <4>1
      <4> QED BY <4>2, Zenon
    <3>8. d >= 1 => SubSeq(all, d, Len(all)) \in Seq(Samples)
      BY <3>5
    <3>9. Len(all) - RingSize > 0 => d >= 1
      <4>1. Len(all) \in Int
        BY <3>5
      <4> QED BY <1>t, <3>7, <4>1
    <3> QED BY <3>5, <3>6, <3>7, <3>8, <3>9
  <2> QED BY <1>3, <2>1, <2>6, <2>7, <2>8 DEF WriteCopies
<1>4. ASSUME WriteEnds PROVE RingTypes'
  <2>1. Wrap(w.fill + w.n) \in 0 .. FillMod - 1
    <3>1. w.fill + w.n \in Int
      BY <1>t
    <3> QED BY <3>1, WrapIn
  <2>2. ring' \in [cells : [0 .. RingSize - 1 -> Samples], head : 0 .. RingSize - 1,
                   tail : 0 .. RingSize - 1, fill : 0 .. FillMod - 1]
    <3>1. ring' = [ring EXCEPT !.fill = Wrap(w.fill + w.n)]
      BY <1>4 DEF WriteEnds
    <3> HIDE DEF Wrap
    <3> QED BY <2>1, <3>1
  <2>3. w' \in [at : {"idle", "drop", "copy", "add"}, n : 0 .. MaxPcm, fill : 0 .. FillMod - 1] /\ w'.n <= RingSize
    <3> HIDE DEF RingTypes
    <3> QED BY <1>4, <1>z DEF WriteEnds
  <2> QED BY <1>4, <2>2, <2>3 DEF WriteEnds
<1>5. ASSUME NEW n \in 1 .. MaxPcm, ReadBegins(n) PROVE RingTypes'
  <2>1. r' \in [at : {"idle", "tail", "load", "store"}, n : 0 .. MaxPcm, fill : 0 .. FillMod - 1]
    BY <1>5, RingAssumption DEF ReadBegins
  <2>2. overlap' \in BOOLEAN /\ whole' \in BOOLEAN
    BY <1>5 DEF ReadBegins
  <2> QED BY <1>5, <2>1, <2>2 DEF ReadBegins
<1>6. ASSUME ReadMovesTail PROVE RingTypes'
  <2>1. (ring.tail + r.n) % RingSize \in 0 .. RingSize - 1
    <3>1. ring.tail + r.n \in Int
      BY <1>t
    <3> QED BY <3>1, WrapIn
  <2>2. ring' \in [cells : [0 .. RingSize - 1 -> Samples], head : 0 .. RingSize - 1,
                   tail : 0 .. RingSize - 1, fill : 0 .. FillMod - 1]
    <3>1. ring' = [ring EXCEPT !.tail = (ring.tail + r.n) % RingSize]
      BY <1>6 DEF ReadMovesTail
    <3> QED BY <2>1, <3>1
  <2>3. r' \in [at : {"idle", "tail", "load", "store"}, n : 0 .. MaxPcm, fill : 0 .. FillMod - 1]
    BY <1>6 DEF ReadMovesTail
  <2>4. queued' \in Seq(Samples)
    <3>1. PICK d \in Int : d = r.n + 1
      BY <1>t
    <3>2. r.n >= 0 /\ queued \in Seq(Samples)
      OBVIOUS
    <3> HIDE DEF RingTypes
    <3>3. d >= 1
      BY <1>t, <3>1, <3>2
    <3>4. SubSeq(queued, d, Len(queued)) \in Seq(Samples)
      BY <3>2, <3>3
    <3> QED BY <1>6, <3>1, <3>4 DEF ReadMovesTail
  <2> QED BY <1>6, <2>2, <2>3, <2>4 DEF ReadMovesTail
<1>7. ASSUME ReadLoads PROVE RingTypes'
  <2>1. r' \in [at : {"idle", "tail", "load", "store"}, n : 0 .. MaxPcm, fill : 0 .. FillMod - 1]
    BY <1>7 DEF ReadLoads
  <2> QED BY <1>7, <2>1 DEF ReadLoads
<1>8. ASSUME ReadEnds PROVE RingTypes'
  <2>1. Wrap(r.fill - r.n) \in 0 .. FillMod - 1
    <3>1. r.fill - r.n \in Int
      BY <1>t
    <3> QED BY <3>1, WrapIn
  <2>2. ring' \in [cells : [0 .. RingSize - 1 -> Samples], head : 0 .. RingSize - 1,
                   tail : 0 .. RingSize - 1, fill : 0 .. FillMod - 1]
    <3>1. ring' = [ring EXCEPT !.fill = Wrap(r.fill - r.n)]
      BY <1>8 DEF ReadEnds
    <3> HIDE DEF Wrap
    <3> QED BY <2>1, <3>1
  <2>3. r' \in [at : {"idle", "tail", "load", "store"}, n : 0 .. MaxPcm, fill : 0 .. FillMod - 1]
    <3> HIDE DEF RingTypes
    <3> QED BY <1>8, <1>z DEF ReadEnds
  <2> QED BY <1>8, <2>2, <2>3 DEF ReadEnds
<1>9. ASSUME NEW open \in BOOLEAN, SetFd(open) PROVE RingTypes'
  <2>1. ring' \in [cells : [0 .. RingSize - 1 -> Samples], head : 0 .. RingSize - 1,
                   tail : 0 .. RingSize - 1, fill : 0 .. FillMod - 1]
    BY <1>9, <1>t DEF SetFd
  <2>2. queued' \in Seq(Samples)
    BY <1>9 DEF SetFd
  <2>3. overlap' \in BOOLEAN /\ whole' \in BOOLEAN
    BY <1>9 DEF SetFd
  <2> QED BY <1>9, <2>1, <2>2, <2>3 DEF SetFd
<1>10. ASSUME UNCHANGED ringVars PROVE RingTypes'
  BY <1>10 DEF ringVars
<1> QED BY <1>1, <1>2, <1>3, <1>4, <1>5, <1>6, <1>7, <1>8, <1>9, <1>10 DEF RingNext

\* While only writers and readers that follow each other touch the ring, the
\* fill is one it has room for, or about to become one.
HealInv ==
    whole =>
        /\ w.at # "idle" => r.at = "idle"
        /\ w.at = "idle" => ring.fill <= RingSize
        /\ w.at = "idle" /\ r.at # "idle" => r.n <= ring.fill
        /\ w.at = "idle" /\ r.at = "store" => r.fill = ring.fill
        /\ w.at = "drop" => w.fill = ring.fill
        /\ w.at = "copy" => Wrap(ring.fill + w.n) <= RingSize
        /\ w.at = "add" => Wrap(w.fill + w.n) <= RingSize

LEMMA HealStep ==
    ASSUME RingTypes, HealInv, [RingNext]_ringVars
    PROVE  HealInv'
<1> USE DEF HealInv
<1>t. /\ RingSize \in Nat \ {0} /\ FillMod \in Nat \ {0} /\ RingSize < FillMod
      /\ w.fill \in 0 .. FillMod - 1 /\ w.n \in 0 .. RingSize
      /\ r.fill \in 0 .. FillMod - 1 /\ r.n \in Nat /\ ring.fill \in 0 .. FillMod - 1
  BY RingAssumption DEF RingTypes
<1>1. ASSUME NEW n \in 1 .. MaxPcm, WriteBegins(n) PROVE HealInv'
  BY <1>1 DEF WriteBegins
<1>2. ASSUME WriteDrops PROVE HealInv'
  <2> SUFFICES ASSUME whole PROVE HealInv'
    BY <1>2 DEF WriteDrops
  <2>1. /\ r' = r /\ r.at = "idle" /\ w.fill = ring.fill
        /\ w'.at = "copy" /\ w'.n = w.n
    BY <1>2 DEF WriteDrops, RingTypes
  <2>2. Wrap(ring'.fill + w.n) <= RingSize
    <3> DEFINE drop == Wrap(w.fill + w.n - RingSize)
    <3>1. CASE Wrap(w.fill + w.n) > RingSize
      <4>1. ring'.fill = Wrap(w.fill - drop)
        BY <1>2, <3>1 DEF WriteDrops, RingTypes
      <4>2. w.fill + w.n - RingSize \in Int /\ w.fill - (w.fill + w.n - RingSize) = RingSize - w.n
        BY <1>t
      <4>3. Wrap(w.fill - drop) = Wrap(RingSize - w.n)
        <5>1. PICK x \in Int : x = w.fill + w.n - RingSize
          BY <4>2
        <5>2. PICK f \in Int : f = w.fill
          BY <1>t
        <5>3. (f - (x % FillMod)) % FillMod = (f - x) % FillMod
          BY <1>t, ModPlus
        <5> QED BY <4>2, <5>1, <5>2, <5>3 DEF Wrap
      <4>4. Wrap(RingSize - w.n) = RingSize - w.n /\ Wrap(RingSize) = RingSize
        <5>1. PICK y \in 0 .. FillMod - 1 : y = RingSize - w.n
          BY <1>t
        <5>2. y % FillMod = y
          BY <1>t, ModSmall
        <5>3. RingSize \in 0 .. FillMod - 1
          BY <1>t
        <5>4. RingSize % FillMod = RingSize
          BY <1>t, <5>3, ModSmall
        <5> QED BY <5>1, <5>2, <5>4 DEF Wrap
      <4>5. ring'.fill + w.n = RingSize
        BY <1>t, <4>1, <4>3, <4>4
      <4> QED BY <1>t, <4>4, <4>5
    <3>2. CASE ~(Wrap(w.fill + w.n) > RingSize)
      <4>1. ring' = ring
        BY <1>2, <3>2 DEF WriteDrops
      <4>2. Wrap(w.fill + w.n) \in Int
        BY <1>t, WrapIn
      <4> QED BY <1>t, <2>1, <3>2, <4>1, <4>2
    <3> QED BY <3>1, <3>2
  <2> QED BY <2>1, <2>2
<1>3. ASSUME WriteCopies PROVE HealInv'
  <2>1. UNCHANGED <<r, whole>> /\ w'.at = "add" /\ w'.n = w.n /\ w'.fill = ring.fill
    BY <1>3 DEF WriteCopies, RingTypes
  <2> QED BY <1>3, <2>1 DEF WriteCopies
<1>4. ASSUME WriteEnds PROVE HealInv'
  <2>1. UNCHANGED <<r, whole>> /\ w'.at = "idle" /\ ring'.fill = Wrap(w.fill + w.n)
    BY <1>4 DEF WriteEnds, RingTypes
  <2> QED BY <1>4, <2>1 DEF WriteEnds
<1>5. ASSUME NEW n \in 1 .. MaxPcm, ReadBegins(n) PROVE HealInv'
  <2>1. /\ UNCHANGED <<ring, w>> /\ r'.at = "tail" /\ r'.n <= ring.fill
        /\ whole' => whole /\ w.at = "idle"
    <3>1. whole' => whole /\ w.at = "idle"
      BY <1>5 DEF ReadBegins
    <3>2. r'.n <= ring.fill
      BY <1>5, <1>t DEF ReadBegins
    <3> QED BY <1>5, <3>1, <3>2 DEF ReadBegins
  <2> QED BY <2>1
<1>6. ASSUME ReadMovesTail \/ ReadLoads PROVE HealInv'
  <2>1. /\ UNCHANGED <<w, whole>> /\ ring'.fill = ring.fill /\ r.at # "idle" /\ r'.n = r.n
        /\ r'.at # "idle" /\ (r'.at = "store" => r'.fill = ring.fill)
    BY <1>6 DEF ReadMovesTail, ReadLoads, RingTypes
  <2> QED BY <2>1
<1>7. ASSUME ReadEnds PROVE HealInv'
  <2>1. /\ UNCHANGED <<w, whole>> /\ ring'.fill = Wrap(r.fill - r.n) /\ r.at = "store"
        /\ r'.at = "idle"
    BY <1>7 DEF ReadEnds, RingTypes
  <2> SUFFICES ASSUME whole PROVE ring'.fill <= RingSize
    BY <2>1
  <2>2. r.fill - r.n \in 0 .. RingSize
    BY <1>t, <2>1
  <2>3. Wrap(r.fill - r.n) = r.fill - r.n
    BY <1>t, <2>2, ModNear DEF Wrap
  <2> QED BY <2>1, <2>2, <2>3
<1>8. ASSUME NEW open \in BOOLEAN, SetFd(open) PROVE HealInv'
  <2>1. ring'.fill = 0 /\ UNCHANGED <<w, r>> /\ w.at = "idle" /\ (whole' => r.at = "idle")
    BY <1>8 DEF SetFd, RingTypes
  <2> QED BY <1>t, <2>1
<1>9. ASSUME UNCHANGED ringVars PROVE HealInv'
  BY <1>9 DEF ringVars
<1> QED BY <1>1, <1>2, <1>3, <1>4, <1>5, <1>6, <1>7, <1>8, <1>9 DEF RingNext

\* A write that no reader disturbs leaves a fill that the ring has room for,
\* for any ring and any messages, whatever earlier races of ring_read with
\* ring_write and ring_reset have left in the counter.
THEOREM RingAlwaysHeals == RingSpec => []RingHeals
<1>1. RingInit => RingTypes /\ HealInv
  BY RingTypesInit, RingAssumption DEF RingInit, HealInv
<1>2. RingTypes /\ HealInv /\ [RingNext]_ringVars => (RingTypes /\ HealInv)'
  BY RingTypesStep, HealStep
<1>3. RingTypes /\ HealInv => RingHeals
  BY DEF HealInv, RingHeals
<1> QED BY <1>1, <1>2, <1>3, PTL DEF RingSpec

\* The last n samples queued are in the ring, from the tail to the head.
Holds(n) ==
    /\ n <= Len(queued)
    /\ ring.head = (ring.tail + n) % RingSize
    /\ \A k \in 1 .. n : ring.cells[(ring.tail + k - 1) % RingSize] = queued[Len(queued) - n + k]

\* How many there are, and what the counters know of it.
FifoInv ==
    ~overlap =>
        /\ Len(queued) <= RingSize
        /\ w.at # "idle" => r.at = "idle"
        /\ w.at = "copy" => Holds(ring.fill)
        /\ w.at # "copy" => Holds(Len(queued))
        /\ w.at \in {"idle", "drop"} /\ r.at \in {"idle", "tail"} => ring.fill = Len(queued)
        /\ r.at = "tail" => r.n <= ring.fill
        /\ r.at \in {"load", "store"} => ring.fill = Len(queued) + r.n /\ ring.fill <= RingSize
        /\ r.at = "store" => r.fill = ring.fill
        /\ w.at = "drop" => w.fill = ring.fill
        /\ w.at = "copy" =>
              ring.fill = IF Len(queued) + w.n > RingSize THEN RingSize - w.n ELSE Len(queued)
        /\ w.at = "add" => ring.fill + w.n = Len(queued) /\ w.fill = ring.fill

\* Indices of cells: from the tail, and relative to the head.
LEMMA CellIndex ==
    ASSUME NEW t \in Int, NEW d \in Int, NEW k \in Int
    PROVE  /\ (((t + d) % RingSize) + k) % RingSize = (t + d + k) % RingSize
           /\ (((t + k) % RingSize) - ((t + d) % RingSize)) % RingSize = (k - d) % RingSize
<1>1. RingSize \in Nat \ {0}
  BY RingAssumption
<1> DEFINE a == (t + d) % RingSize
           c == (t + k) % RingSize
<1>2. a \in Int /\ c \in Int /\ t + d \in Int /\ t + k \in Int
  BY <1>1, ModDivision
<1>3. (a + k) % RingSize = (t + d + k) % RingSize
  BY <1>1, <1>2, ModPlus
<1>4. (c - a) % RingSize = (c - (t + d)) % RingSize
  BY <1>1, <1>2, ModPlus
<1> HIDE DEF a
<1>5. (c + (0 - (t + d))) % RingSize = (t + k + (0 - (t + d))) % RingSize
  <2>1. 0 - (t + d) \in Int
    BY <1>2
  <2> QED BY <1>1, <1>2, <2>1, ModPlus
<1> HIDE DEF c
<1>6. c + (0 - (t + d)) = c - (t + d) /\ t + k + (0 - (t + d)) = k - d
  BY <1>2
<1>7. (c - a) % RingSize = (k - d) % RingSize
  BY <1>4, <1>5, <1>6
<1> QED BY <1>3, <1>7 DEF a, c

\* Which of the samples it copies ring_write puts into the k-th cell from the
\* tail, t, of a ring that holds f: none into those that are occupied.
LEMMA CopiedCell ==
    ASSUME NEW t \in Int, NEW f \in Nat, NEW n \in Nat, f + n <= RingSize, NEW k \in 1 .. f + n
    PROVE  /\ k <= f => (((t + k - 1) % RingSize) - ((t + f) % RingSize)) % RingSize >= n
           /\ k > f => (((t + k - 1) % RingSize) - ((t + f) % RingSize)) % RingSize = k - 1 - f
<1>1. RingSize \in Nat \ {0}
  BY RingAssumption
<1>2. PICK j \in Int : j = k - 1
  OBVIOUS
<1>3. (((t + j) % RingSize) - ((t + f) % RingSize)) % RingSize = (j - f) % RingSize
  <2>1. f \in Int
    OBVIOUS
  <2> QED BY <2>1, CellIndex, ZenonT(60)
<1>4. t + k - 1 = t + j
  BY <1>2
<1>5. PICK x \in Int : x = j - f
  OBVIOUS
<1>6. k <= f => x % RingSize >= n
  <2> SUFFICES ASSUME k <= f PROVE x % RingSize >= n
    OBVIOUS
  <2>1. x \in -RingSize .. -1 /\ x + RingSize >= n
    BY <1>1, <1>2, <1>5
  <2> QED BY <1>1, <2>1, ModNear
<1>7. k > f => x % RingSize = k - 1 - f
  <2> SUFFICES ASSUME k > f PROVE x % RingSize = k - 1 - f
    OBVIOUS
  <2>1. x \in 0 .. RingSize - 1 /\ x = k - 1 - f
    BY <1>1, <1>2, <1>5
  <2> QED BY <1>1, <2>1, ModSmall
<1> QED BY <1>3, <1>4, <1>5, <1>6, <1>7

LEMMA FifoTypes ==
    ASSUME RingTypes
    PROVE  /\ RingSize \in Nat \ {0} /\ FillMod \in Nat \ {0} /\ RingSize + w.n < FillMod
           /\ w.n \in 0 .. RingSize /\ w.fill \in Nat /\ r.n \in Nat /\ r.fill \in Nat
           /\ ring.fill \in 0 .. FillMod - 1 /\ ring.tail \in 0 .. RingSize - 1
           /\ ring.head \in 0 .. RingSize - 1
           /\ queued \in Seq(Samples) /\ Len(queued) \in Nat
  BY RingAssumption, SMTT(30) DEF RingTypes

LEMMA FifoDrops ==
    ASSUME RingTypes, FifoInv, WriteDrops, ~overlap
    PROVE  FifoInv'
<1>t. /\ RingSize \in Nat \ {0} /\ FillMod \in Nat \ {0} /\ RingSize + w.n < FillMod
      /\ w.n \in 0 .. RingSize /\ ring.tail \in 0 .. RingSize - 1
      /\ queued \in Seq(Samples) /\ Len(queued) \in Nat
  BY FifoTypes
<1>1. /\ r' = r /\ r.at = "idle" /\ queued' = queued
      /\ w'.at = "copy" /\ w'.n = w.n
  BY DEF WriteDrops, FifoInv, RingTypes
<1>2. /\ Len(queued) <= RingSize /\ ring.fill = Len(queued) /\ w.fill = Len(queued)
      /\ Holds(Len(queued))
  BY DEF WriteDrops, FifoInv
<1>3. PICK L \in Nat : L = Len(queued)
  BY <1>t
<1>4. PICK t \in Int : t = ring.tail
  BY <1>t
<1>5. PICK n \in 0 .. RingSize : n = w.n
  BY <1>t
<1>a. RingSize + n < FillMod /\ L <= RingSize /\ t >= 0 /\ t < RingSize
  BY <1>t, <1>2, <1>3, <1>4, <1>5
<1>6. Wrap(L + n) = L + n
  <2>1. L + n \in 0 .. FillMod - 1
    BY <1>t, <1>2, <1>3, <1>5
  <2> QED BY <1>t, <2>1, ModSmall DEF Wrap
<1>7. CASE L + n > RingSize
  <2>1. PICK d \in 0 .. FillMod - 1 : d = L + n - RingSize
    BY <1>t, <1>2, <1>3, <1>5, <1>7
  <2>2. Wrap(d) = d
    BY <1>t, <2>1, ModSmall DEF Wrap
  <2>3. Wrap(t + d) = t + d
    <3>1. t + d \in 0 .. FillMod - 1
      <4>1. d <= n
        BY <1>a, <2>1, RingAssumption
      <4> QED BY <1>a, <2>1, <4>1, RingAssumption
    <3> QED BY <1>t, <3>1, ModSmall DEF Wrap
  <2>4. Wrap(L - d) = RingSize - n
    <3>1. L - d \in 0 .. FillMod - 1 /\ L - d = RingSize - n
      BY <1>a, <2>1, RingAssumption
    <3> QED BY <1>t, <3>1, ModSmall DEF Wrap
  <2>5. ring' = [ring EXCEPT !.tail = (t + d) % RingSize, !.fill = RingSize - n]
    <3>1. Wrap(w.fill + w.n) > RingSize
      BY <1>2, <1>3, <1>5, <1>6, <1>7
    <3>2. Wrap(w.fill + w.n - RingSize) = d
      BY <1>2, <1>3, <1>5, <2>1, <2>2
    <3>3. ring' = [ring EXCEPT !.tail = Wrap(ring.tail + d) % RingSize, !.fill = Wrap(w.fill - d)]
      BY <3>1, <3>2 DEF WriteDrops
    <3> QED BY <1>2, <1>3, <1>4, <2>3, <2>4, <3>3
  <2>6. /\ ring'.tail = (t + d) % RingSize /\ ring'.fill = RingSize - n
        /\ ring'.head = ring.head /\ ring'.cells = ring.cells
    BY <2>5 DEF RingTypes
  <2>7. Holds(ring.fill)'
    <3>1. RingSize - n <= L
      BY <1>t, <1>7
    <3>2. ring'.head = (ring'.tail + (RingSize - n)) % RingSize
      <4>1. PICK m \in Int : m = RingSize - n
        BY <1>t
      <4>2. (((t + d) % RingSize) + m) % RingSize = (t + d + m) % RingSize
        BY <2>1, CellIndex
      <4>3. t + d + m = t + L
        BY <1>t, <2>1, <4>1
      <4>4. ring.head = (t + L) % RingSize
        BY <1>2, <1>3, <1>4 DEF Holds
      <4> QED BY <2>6, <4>1, <4>2, <4>3, <4>4
    <3>3. ASSUME NEW k \in 1 .. RingSize - n
          PROVE  ring'.cells[(ring'.tail + k - 1) % RingSize] = queued[L - (RingSize - n) + k]
      <4>1. PICK j \in Int : j = k - 1
        OBVIOUS
      <4>2. (((t + d) % RingSize) + j) % RingSize = (t + d + j) % RingSize
        BY <2>1, CellIndex
      <4>3. ring'.tail + k - 1 = ((t + d) % RingSize) + j
        <5>1. (t + d) % RingSize \in Int
          BY <1>t, <2>1, ModDivision
        <5> QED BY <2>6, <4>1, <5>1
      <4>4. d + k \in 1 .. L
        BY <1>t, <1>7, <2>1
      <4>5. ring.cells[(t + (d + k) - 1) % RingSize] = queued[L - L + (d + k)]
        BY <1>2, <1>3, <1>4, <4>4 DEF Holds
      <4>6. t + (d + k) - 1 = t + d + j /\ L - L + (d + k) = L - (RingSize - n) + k
        BY <1>t, <2>1, <4>1
      <4> QED BY <2>6, <4>2, <4>3, <4>5, <4>6
    <3> QED BY <1>1, <1>3, <2>6, <3>1, <3>2, <3>3 DEF Holds
  <2> QED BY <1>1, <1>2, <1>3, <1>5, <1>7, <2>6, <2>7 DEF FifoInv
<1>8. CASE ~(L + n > RingSize)
  <2>1. ring' = ring
    BY <1>2, <1>3, <1>5, <1>6, <1>8 DEF WriteDrops
  <2>2. Holds(ring.fill)'
    BY <1>1, <1>2, <2>1 DEF Holds
  <2> QED BY <1>1, <1>2, <1>3, <1>5, <1>8, <2>1, <2>2 DEF FifoInv
<1> QED BY <1>7, <1>8

LEMMA DropFirst ==
    ASSUME NEW S, NEW q \in Seq(S), NEW d \in Int, d >= 0, d <= Len(q), NEW p,
           p = SubSeq(q, d + 1, Len(q))
    PROVE  Len(p) = Len(q) - d /\ \A k \in 1 .. Len(q) - d : p[k] = q[d + k]
  OBVIOUS

LEMMA FifoCopies ==
    ASSUME RingTypes, FifoInv, WriteCopies, ~overlap
    PROVE  FifoInv'
<1>t. /\ RingSize \in Nat \ {0} /\ w.n \in 0 .. RingSize /\ ring.fill \in Nat
      /\ ring.tail \in 0 .. RingSize - 1 /\ ring.head \in 0 .. RingSize - 1
      /\ queued \in Seq(Samples) /\ Len(queued) \in Nat
  BY FifoTypes
<1>1. /\ UNCHANGED <<r, overlap>> /\ r.at = "idle"
      /\ w'.at = "add" /\ w'.n = w.n /\ w'.fill = ring.fill
  BY DEF WriteCopies, FifoInv, RingTypes
<1>2. PICK L \in Nat : L = Len(queued)
  BY <1>t
<1>3. PICK t \in Int : t = ring.tail
  BY <1>t
<1>4. PICK n \in 0 .. RingSize : n = w.n
  BY <1>t
<1>5. PICK f \in Nat : f = ring.fill
  BY <1>t
<1>6. f = (IF L + n > RingSize THEN RingSize - n ELSE L) /\ L <= RingSize
  BY <1>2, <1>4, <1>5 DEF FifoInv, WriteCopies
<1>7. f <= L /\ f + n <= RingSize
  BY <1>t, <1>6
<1>8. /\ ring.head = (t + f) % RingSize
      /\ \A k \in 1 .. f : ring.cells[(t + k - 1) % RingSize] = queued[L - f + k]
  BY <1>2, <1>3, <1>5 DEF FifoInv, WriteCopies, Holds
<1>9. /\ ring'.fill = f /\ ring'.tail = t /\ ring'.head = (ring.head + n) % RingSize
      /\ \A c \in 0 .. RingSize - 1 :
            ring'.cells[c] = LET k == (c - ring.head) % RingSize
                             IN  IF k < n THEN Sample(k) ELSE ring.cells[c]
  <2>1. PICK cells : cells = [c \in 0 .. RingSize - 1 |->
                              LET k == (c - ring.head) % RingSize
                              IN  IF k < n THEN Sample(k) ELSE ring.cells[c]]
    OBVIOUS
  <2>2. DOMAIN ring.cells = 0 .. RingSize - 1
    BY DEF RingTypes
  <2>3. ring' = [ring EXCEPT !.cells = cells, !.head = (ring.head + n) % RingSize]
    BY <1>4, <2>1, <2>2 DEF WriteCopies
  <2>4. /\ ring'.fill = ring.fill /\ ring'.tail = ring.tail
        /\ ring'.head = (ring.head + n) % RingSize /\ ring'.cells = cells
    BY <2>3 DEF RingTypes
  <2> QED BY <1>3, <1>5, <2>1, <2>4
<1>10. /\ Len(queued') = f + n
       /\ \A k \in 1 .. f : queued'[k] = queued[L - f + k]
       /\ \A k \in f + 1 .. f + n : queued'[k] = Sample(k - 1 - f)
  <2>1. PICK new : new = [k \in 1 .. n |-> Sample(k - 1)]
    OBVIOUS
  <2>2. new \in Seq(Samples) /\ Len(new) = n /\ \A k \in 1 .. n : new[k] = Sample(k - 1)
    <3>1. \A k \in 1 .. n : Sample(k - 1) \in Samples
      BY SampleIn
    <3>2. new \in [1 .. n -> Samples] /\ n \in Nat
      BY <1>t, <2>1, <3>1
    <3> QED BY <2>1, <3>2
  <2>3. PICK all : all = queued \o new
    OBVIOUS
  <2>4. /\ all \in Seq(Samples) /\ Len(all) = L + n
        /\ \A k \in 1 .. L : all[k] = queued[k]
        /\ \A k \in 1 .. n : all[L + k] = Sample(k - 1)
    BY <1>t, <1>2, <2>2, <2>3
  <2>5. queued' = IF Len(all) - RingSize > 0 THEN SubSeq(all, Len(all) - RingSize + 1, Len(all)) ELSE all
    BY <1>4, <2>1, <2>3 DEF WriteCopies
  <2>6. Len(queued') = f + n /\ \A k \in 1 .. f + n : queued'[k] = all[L - f + k]
    <3>1. CASE L + n > RingSize
      <4>1. queued' = SubSeq(all, Len(all) - RingSize + 1, Len(all))
        BY <1>t, <2>4, <2>5, <3>1
      <4>2. Len(all) - RingSize \in Nat /\ Len(all) - RingSize = L - f
        BY <1>t, <1>6, <2>4, <3>1
      <4>3. /\ Len(queued') = RingSize
            /\ \A k \in 1 .. RingSize : queued'[k] = all[(Len(all) - RingSize) + k]
        BY <1>t, <2>4, <4>1, <4>2, DropFirst
      <4>4. RingSize = f + n
        BY <1>t, <1>6, <3>1
      <4> QED BY <4>2, <4>3, <4>4
    <3>2. CASE ~(L + n > RingSize)
      <4>1. queued' = all /\ f = L
        BY <1>t, <1>6, <2>4, <2>5, <3>2
      <4> QED BY <1>t, <2>4, <4>1
    <3> QED BY <3>1, <3>2
  <2>7. ASSUME NEW k \in 1 .. f PROVE queued'[k] = queued[L - f + k]
    <3>1. k \in 1 .. f + n /\ L - f + k \in 1 .. L
      BY <1>t, <1>7
    <3> QED BY <2>4, <2>6, <3>1
  <2>8. ASSUME NEW k \in f + 1 .. f + n PROVE queued'[k] = Sample(k - 1 - f)
    <3>1. PICK m \in 1 .. n : m = k - f
      BY <1>t
    <3>2. k \in 1 .. f + n /\ L - f + k = L + m /\ m - 1 = k - 1 - f
      BY <1>t, <3>1
    <3> QED BY <2>4, <2>6, <3>1, <3>2
  <2> QED BY <2>6, <2>7, <2>8
<1>11. Holds(Len(queued))'
  <2>1. ring'.head = (t + (f + n)) % RingSize
    <3>1. (((t + f) % RingSize) + n) % RingSize = (t + f + n) % RingSize
      <4>1. f \in Int /\ n \in Int
        BY <1>t
      <4> QED BY <4>1, CellIndex
    <3>2. t + f + n = t + (f + n)
      BY <1>t
    <3> QED BY <1>8, <1>9, <3>1, <3>2
  <2>2. ASSUME NEW k \in 1 .. f + n PROVE ring'.cells[(t + k - 1) % RingSize] = queued'[k]
    <3> DEFINE c == (t + k - 1) % RingSize
               i == (c - ring.head) % RingSize
    <3>0. n \in Nat /\ t + k - 1 \in Int
      BY <1>t
    <3>a. /\ k <= f => (((t + k - 1) % RingSize) - ((t + f) % RingSize)) % RingSize >= n
          /\ k > f => (((t + k - 1) % RingSize) - ((t + f) % RingSize)) % RingSize = k - 1 - f
      BY <1>7, <3>0, CopiedCell
    <3>1. k <= f => i >= n
      BY <1>8, <3>a
    <3>2. k > f => i = k - 1 - f
      BY <1>8, <3>a
    <3>3. c \in 0 .. RingSize - 1
      BY <3>0, WrapIn
    <3>4. i \in Int
      <4>1. c - ring.head \in Int
        BY <1>t, <3>3
      <4> QED BY <4>1, WrapIn
    <3>5. ring'.cells[c] = IF i < n THEN Sample(i) ELSE ring.cells[c]
      BY <1>9, <3>3
    <3>6. k <= f => ring.cells[c] = queued[L - f + k]
      BY <1>8
    <3> HIDE DEF c, i
    <3>7. CASE k <= f
      <4>1. k \in 1 .. f /\ ~(i < n)
        BY <1>t, <3>1, <3>4, <3>7
      <4> QED BY <1>10, <3>5, <3>6, <3>7, <4>1 DEF c
    <3>8. CASE k > f
      <4>1. k \in f + 1 .. f + n /\ i < n
        BY <1>t, <3>2, <3>4, <3>8
      <4> QED BY <1>10, <3>2, <3>5, <3>8, <4>1 DEF c
    <3> QED BY <3>7, <3>8
  <2>3. \A k \in 1 .. f + n : queued'[Len(queued') - (f + n) + k] = queued'[k]
    <3> SUFFICES ASSUME NEW k \in 1 .. f + n PROVE Len(queued') - (f + n) + k = k
      OBVIOUS
    <3> QED BY <1>t, <1>10
  <2>4. PICK m \in Nat : m = f + n
    BY <1>t
  <2>5. /\ m <= Len(queued') /\ ring'.head = (ring'.tail + m) % RingSize
        /\ \A k \in 1 .. m : ring'.cells[(ring'.tail + k - 1) % RingSize] = queued'[Len(queued') - m + k]
    BY <1>9, <1>10, <2>1, <2>2, <2>3, <2>4
  <2>6. Len(queued') = m
    BY <1>10, <2>4
  <2> QED BY <2>5, <2>6 DEF Holds
<1> QED BY <1>t, <1>1, <1>4, <1>5, <1>7, <1>9, <1>10, <1>11 DEF FifoInv

\* A reader takes the oldest samples.
LEMMA FifoMovesTail ==
    ASSUME RingTypes, FifoInv, ReadMovesTail, ~overlap
    PROVE  FifoInv'
<1>t. /\ RingSize \in Nat \ {0} /\ r.n \in Nat /\ ring.fill \in Nat
      /\ ring.tail \in 0 .. RingSize - 1 /\ queued \in Seq(Samples) /\ Len(queued) \in Nat
  BY FifoTypes
<1>1. /\ UNCHANGED <<w, overlap>> /\ w.at = "idle"
      /\ r'.at = "load" /\ r'.n = r.n
      /\ ring'.tail = (ring.tail + r.n) % RingSize
      /\ ring'.fill = ring.fill /\ ring'.head = ring.head /\ ring'.cells = ring.cells
  BY DEF ReadMovesTail, FifoInv, RingTypes
<1>2. PICK L \in Nat : L = Len(queued)
  BY <1>t
<1>3. PICK t \in Int : t = ring.tail
  BY <1>t
<1>4. PICK n \in Nat : n = r.n
  BY <1>t
<1>5. L <= RingSize /\ ring.fill = L /\ n <= L /\ Holds(L)
  BY <1>1, <1>2, <1>4 DEF FifoInv, ReadMovesTail
<1>6. queued' = SubSeq(queued, r.n + 1, Len(queued))
  <2>1. ~(r.n > Len(queued))
    BY <1>t, <1>2, <1>4, <1>5
  <2> QED BY <2>1 DEF ReadMovesTail
<1>7. Len(queued') = L - n /\ \A k \in 1 .. L - n : queued'[k] = queued[n + k]
  <2>1. r.n \in Int /\ r.n >= 0 /\ r.n <= Len(queued)
    BY <1>t, <1>2, <1>4, <1>5
  <2>2. PICK p, d : p = queued' /\ d = r.n
    OBVIOUS
  <2>3. d \in Int /\ d >= 0 /\ d <= Len(queued) /\ p = SubSeq(queued, d + 1, Len(queued)) /\ queued \in Seq(Samples)
    BY <1>t, <1>6, <2>1, <2>2
  <2>4. Len(p) = Len(queued) - d /\ \A k \in 1 .. Len(queued) - d : p[k] = queued[d + k]
    BY <2>3, DropFirst
  <2> QED BY <1>2, <1>4, <2>2, <2>4
<1>8. PICK m \in Nat : m = L - n
  BY <1>5
<1>9. ring'.head = (ring'.tail + m) % RingSize
  <2>1. (((t + n) % RingSize) + m) % RingSize = (t + n + m) % RingSize
    BY CellIndex
  <2>2. t + n + m = t + L
    BY <1>8
  <2>3. ring.head = (t + L) % RingSize
    BY <1>2, <1>3, <1>5 DEF Holds
  <2> QED BY <1>1, <1>3, <1>4, <2>1, <2>2, <2>3
<1>10. ASSUME NEW k \in 1 .. m
       PROVE  ring'.cells[(ring'.tail + k - 1) % RingSize] = queued'[Len(queued') - m + k]
  <2>1. PICK j \in Int : j = k - 1
    OBVIOUS
  <2>2. (((t + n) % RingSize) + j) % RingSize = (t + n + j) % RingSize
    BY CellIndex
  <2>3. ring'.tail + k - 1 = ((t + n) % RingSize) + j
    <3>1. (t + n) % RingSize \in Int
      BY <1>t, ModDivision
    <3> QED BY <1>1, <1>3, <1>4, <2>1, <3>1
  <2>4. n + k \in 1 .. L
    BY <1>8
  <2>5. ring.cells[(t + (n + k) - 1) % RingSize] = queued[L - L + (n + k)]
    BY <1>2, <1>3, <1>5, <2>4 DEF Holds
  <2>6. t + (n + k) - 1 = t + n + j /\ L - L + (n + k) = n + k
    BY <2>1
  <2>7. queued'[Len(queued') - m + k] = queued[n + k]
    <3>1. Len(queued') - m + k = k /\ k \in 1 .. L - n
      BY <1>7, <1>8
    <3> QED BY <1>7, <3>1
  <2> QED BY <1>1, <2>2, <2>3, <2>5, <2>6, <2>7
<1>11. Len(queued') = m
  BY <1>7, <1>8
<1>12. Holds(Len(queued))'
  BY <1>9, <1>10, <1>11 DEF Holds
<1>13. ring'.fill = Len(queued') + r'.n /\ Len(queued') <= RingSize /\ ring'.fill <= RingSize
  <2>1. ring'.fill = L /\ Len(queued') = m /\ r'.n = n
    BY <1>1, <1>4, <1>5, <1>11
  <2>2. L = m + n /\ m <= RingSize /\ L <= RingSize
    BY <1>t, <1>5, <1>8
  <2> QED BY <2>1, <2>2
<1> QED BY <1>1, <1>12, <1>13 DEF FifoInv

LEMMA FifoStep ==
    ASSUME RingTypes, FifoInv, [RingNext]_ringVars
    PROVE  FifoInv'
<1>t. /\ RingSize \in Nat \ {0} /\ FillMod \in Nat \ {0} /\ RingSize + w.n < FillMod
      /\ w.n \in 0 .. RingSize /\ w.fill \in Nat /\ r.n \in Nat /\ r.fill \in Nat
      /\ ring.fill \in 0 .. FillMod - 1 /\ queued \in Seq(Samples) /\ Len(queued) \in Nat
  BY FifoTypes
<1>1. ASSUME NEW n \in 1 .. MaxPcm, WriteBegins(n) PROVE FifoInv'
  <2>1. /\ UNCHANGED <<ring, r, queued>> /\ w.at = "idle" /\ w'.at = "drop" /\ w'.fill = ring.fill
        /\ (~overlap' => ~overlap /\ r.at = "idle")
    BY <1>1 DEF WriteBegins
  <2> SUFFICES ASSUME ~overlap' PROVE FifoInv'
    BY DEF FifoInv
  <2>2. Holds(Len(queued))'
    BY <2>1 DEF FifoInv, Holds
  <2> QED BY <2>1, <2>2 DEF FifoInv
<1>2. ASSUME WriteDrops PROVE FifoInv'
  BY <1>2, FifoDrops DEF WriteDrops, FifoInv
<1>3. ASSUME WriteCopies PROVE FifoInv'
  BY <1>3, FifoCopies DEF WriteCopies, FifoInv
<1>4. ASSUME WriteEnds PROVE FifoInv'
  <2>1. /\ UNCHANGED <<r, queued, overlap>> /\ w.at = "add" /\ w'.at = "idle"
        /\ ring'.fill = Wrap(w.fill + w.n) /\ ring'.head = ring.head
        /\ ring'.tail = ring.tail /\ ring'.cells = ring.cells
    BY <1>4 DEF WriteEnds, RingTypes
  <2> SUFFICES ASSUME ~overlap PROVE FifoInv'
    BY <2>1 DEF FifoInv
  <2>2. Holds(Len(queued))'
    BY <2>1 DEF FifoInv, Holds
  <2>3. w.fill + w.n = Len(queued) /\ Len(queued) <= RingSize /\ r.at = "idle"
    BY <2>1 DEF FifoInv
  <2>4. Wrap(Len(queued)) = Len(queued)
    <3>1. Len(queued) \in 0 .. FillMod - 1
      BY <1>t, <2>3
    <3> QED BY <1>t, <3>1, ModSmall DEF Wrap
  <2> QED BY <2>1, <2>2, <2>3, <2>4 DEF FifoInv
<1>5. ASSUME NEW n \in 1 .. MaxPcm, ReadBegins(n) PROVE FifoInv'
  <2>1. UNCHANGED <<ring, w, queued>> /\ r.at = "idle" /\ r'.at = "tail"
    BY <1>5 DEF ReadBegins
  <2>2. ~overlap' => ~overlap /\ w.at = "idle"
    BY <1>5 DEF ReadBegins
  <2>3. r'.n <= ring.fill
    BY <1>5, <1>t DEF ReadBegins
  <2> SUFFICES ASSUME ~overlap' PROVE FifoInv'
    BY DEF FifoInv
  <2>4. Holds(Len(queued))'
    BY <2>1, <2>2 DEF FifoInv, Holds
  <2> QED BY <2>1, <2>2, <2>3, <2>4 DEF FifoInv
<1>6. ASSUME ReadMovesTail PROVE FifoInv'
  BY <1>6, FifoMovesTail DEF ReadMovesTail, FifoInv
<1>7. ASSUME ReadLoads PROVE FifoInv'
  <2>1. /\ UNCHANGED <<ring, w, queued, overlap>> /\ r.at = "load" /\ r'.at = "store"
        /\ r'.n = r.n /\ r'.fill = ring.fill
    BY <1>7 DEF ReadLoads, RingTypes
  <2> SUFFICES ASSUME ~overlap PROVE FifoInv'
    BY <2>1 DEF FifoInv
  <2>2. Holds(Len(queued))'
    BY <2>1 DEF FifoInv, Holds
  <2> QED BY <2>1, <2>2 DEF FifoInv
<1>8. ASSUME ReadEnds PROVE FifoInv'
  <2>1. /\ UNCHANGED <<w, queued, overlap>> /\ r.at = "store" /\ r'.at = "idle"
        /\ ring'.fill = Wrap(r.fill - r.n) /\ ring'.head = ring.head
        /\ ring'.tail = ring.tail /\ ring'.cells = ring.cells
    BY <1>8 DEF ReadEnds, RingTypes
  <2> SUFFICES ASSUME ~overlap PROVE FifoInv'
    BY <2>1 DEF FifoInv
  <2>2. Holds(Len(queued))'
    BY <2>1 DEF FifoInv, Holds
  <2>3. r.fill - r.n = Len(queued) /\ Len(queued) <= RingSize /\ w.at = "idle"
    BY <1>t, <2>1 DEF FifoInv
  <2>4. Wrap(Len(queued)) = Len(queued)
    <3>1. Len(queued) \in 0 .. FillMod - 1
      BY <1>t, <2>3
    <3> QED BY <1>t, <3>1, ModSmall DEF Wrap
  <2> QED BY <2>1, <2>2, <2>3, <2>4 DEF FifoInv
<1>9. ASSUME NEW open \in BOOLEAN, SetFd(open) PROVE FifoInv'
  <2>1. /\ UNCHANGED <<w, r>> /\ w.at = "idle" /\ queued' = <<>>
        /\ ring'.head = 0 /\ ring'.tail = 0 /\ ring'.fill = 0
    BY <1>9 DEF SetFd, RingTypes
  <2>2. ~overlap' => r.at = "idle"
    BY <1>9 DEF SetFd
  <2>3. Len(queued') = 0
    BY <2>1
  <2>4. 0 % RingSize = 0
    <3>1. 0 \in 0 .. RingSize - 1
      BY <1>t
    <3> QED BY <1>t, <3>1, ModSmall
  <2>5. Holds(Len(queued))'
    BY <2>1, <2>3, <2>4 DEF Holds
  <2> QED BY <1>t, <2>1, <2>2, <2>3, <2>5 DEF FifoInv
<1>10. ASSUME UNCHANGED ringVars PROVE FifoInv'
  BY <1>10 DEF ringVars, FifoInv, Holds
<1> QED BY <1>1, <1>2, <1>3, <1>4, <1>5, <1>6, <1>7, <1>8, <1>9, <1>10 DEF RingNext

\* The ring is a FIFO that forgets its oldest samples, for any size of it and
\* of the messages, as long as no read overlaps a write or a reset.
THEOREM RingStaysFifo == RingSpec => []RingIsFifo
<1>1. RingInit => RingTypes /\ FifoInv
  <2> SUFFICES ASSUME RingInit PROVE FifoInv
    BY RingTypesInit
  <2>1. RingSize \in Nat \ {0} /\ 0 \in 0 .. RingSize - 1
    BY RingAssumption
  <2>2. 0 % RingSize = 0
    BY <2>1, ModSmall
  <2>3. Len(queued) = 0
    BY DEF RingInit
  <2>4. Holds(0)
    BY <2>2, <2>3 DEF RingInit, Holds
  <2> QED BY <2>1, <2>3, <2>4 DEF RingInit, FifoInv
<1>2. RingTypes /\ FifoInv /\ [RingNext]_ringVars => (RingTypes /\ FifoInv)'
  BY RingTypesStep, FifoStep
<1>3. RingTypes /\ FifoInv => RingIsFifo
  <2> SUFFICES ASSUME RingTypes, FifoInv, ~overlap, w.at = "idle", r.at = "idle"
               PROVE  /\ ring.fill = Len(queued)
                      /\ \A k \in 1 .. Len(queued) : ring.cells[(ring.tail + k - 1) % RingSize] = queued[k]
    BY DEF RingIsFifo
  <2>1. ring.fill = Len(queued) /\ Holds(Len(queued)) /\ Len(queued) \in Nat
    BY FifoTypes DEF FifoInv
  <2>2. \A k \in 1 .. Len(queued) : Len(queued) - Len(queued) + k = k
    BY <2>1
  <2> QED BY <2>1, <2>2 DEF Holds
<1> QED BY <1>1, <1>2, <1>3, PTL DEF RingSpec

-----------------------------------------------------------------------------
(* Cameras.                                                                *)

Messages == {"offer", "unmappable", "ready"}
CamRec ==
    [node : BOOLEAN, streaming : BOOLEAN, recording : BOOLEAN,
     stream : 0 .. CamConns, io : BOOLEAN,
     shm : 0 .. CamConns, asked : BOOLEAN, failed : BOOLEAN, frame : 0 .. CamConns,
     hup : BOOLEAN, shut : BOOLEAN, owed : BOOLEAN, told : BOOLEAN, inbox : Seq(Messages)]

\* A camera whose memory and whose last frame are those of the stream that is
\* attached.
Current(k) == k.shm \in {0, k.stream} /\ k.frame \in {0, k.stream}
CurrentCams == {k \in CamRec : Current(k)}

CameraInv ==
    /\ cam \in [Cams -> CurrentCams]
    /\ ctrl \in 0 .. CamConns /\ served \in 0 .. CamConns

LEMMA NewCamIsCurrent == NewCam \in CurrentCams
<1>1. 0 \in 0 .. CamConns
  BY CameraAssumption
<1>2. <<>> \in Seq(Messages)
  OBVIOUS
<1>3. NewCam \in CamRec
  BY <1>1, <1>2 DEF NewCam, CamRec
<1> QED BY <1>3 DEF CurrentCams, Current, NewCam

\* A call that leaves stream, memory and frame alone.
LEMMA SameIsCurrent ==
    ASSUME NEW k \in CurrentCams, NEW m \in CamRec,
           m.stream = k.stream, m.shm = k.shm, m.frame = k.frame
    PROVE  m \in CurrentCams
  BY DEF CurrentCams, Current

LEMMA RequestShmIsCurrent ==
    ASSUME NEW k \in CurrentCams PROVE RequestShm(k) \in CurrentCams
<1>1. k \in CamRec
  BY DEF CurrentCams
<1>2. RequestShm(k) \in CamRec
  BY <1>1 DEF RequestShm, CamRec
<1>3. /\ RequestShm(k).shm = k.shm /\ RequestShm(k).frame = k.frame
      /\ RequestShm(k).stream = k.stream
  BY <1>1 DEF RequestShm, CamRec
<1> QED BY <1>2, <1>3, SameIsCurrent

LEMMA UpdateRecordingIsCurrent ==
    ASSUME NEW k \in CurrentCams, NEW fd \in 0 .. CamConns PROVE UpdateRecording(k, fd) \in CurrentCams
<1>1. k \in CamRec
  BY DEF CurrentCams
<1>2. PICK a : a = [k EXCEPT !.told = ~k.shut, !.recording = TRUE]
  OBVIOUS
<1>3. PICK b : b = [k EXCEPT !.told = @ /\ fd = 0, !.recording = FALSE]
  OBVIOUS
<1>4. a \in CamRec /\ a.stream = k.stream /\ a.shm = k.shm /\ a.frame = k.frame
  BY <1>1, <1>2 DEF CamRec
<1>5. b \in CamRec /\ b.stream = k.stream /\ b.shm = k.shm /\ b.frame = k.frame
  <2>1. (k.told /\ fd = 0) \in BOOLEAN
    OBVIOUS
  <2> QED BY <1>1, <1>3, <2>1 DEF CamRec
<1>6. a \in CurrentCams /\ b \in CurrentCams
  BY <1>4, <1>5, SameIsCurrent
<1>7. UpdateRecording(k, fd) \in {k, RequestShm(a), b}
  BY <1>2, <1>3 DEF UpdateRecording
<1> QED BY <1>6, <1>7, RequestShmIsCurrent

LEMMA AttachFdIsCurrent ==
    ASSUME NEW k \in CamRec, NEW fd \in 0 .. CamConns, NEW control \in 0 .. CamConns
    PROVE  AttachFd(k, fd, control) \in CurrentCams
<1>1. PICK a : a = [k EXCEPT !.stream = fd, !.io = fd # 0, !.shm = 0, !.asked = FALSE, !.failed = FALSE,
                             !.frame = 0, !.hup = FALSE, !.shut = FALSE, !.owed = FALSE,
                             !.inbox = <<>>]
  OBVIOUS
<1>2. a \in CamRec
  <2>1. <<>> \in Seq(Messages) /\ (fd # 0) \in BOOLEAN
    OBVIOUS
  <2>2. 0 \in 0 .. CamConns
    BY CameraAssumption
  <2> QED BY <1>1, <2>1, <2>2, ZenonT(60) DEF CamRec
<1>3. a.shm = 0 /\ a.frame = 0
  BY <1>1 DEF CamRec
<1>4. a \in CurrentCams
  BY <1>2, <1>3 DEF CurrentCams, Current
<1> QED BY <1>1, <1>4, UpdateRecordingIsCurrent, RequestShmIsCurrent DEF AttachFd

LEMMA NodesAreCurrent ==
    ASSUME NEW k \in CurrentCams, NEW ok \in BOOLEAN, NEW i
    PROVE  /\ CreateNode(k, ok) \in CurrentCams
           /\ DestroyNode(k) \in CurrentCams
           /\ CreateNodes(i, k, ok) \in CurrentCams
<1>1. k \in CamRec
  BY DEF CurrentCams
<1>2. /\ CreateNode(k, ok) \in CamRec /\ CreateNode(k, ok).stream = k.stream
      /\ CreateNode(k, ok).shm = k.shm /\ CreateNode(k, ok).frame = k.frame
  BY <1>1 DEF CreateNode, CamRec
<1>3. /\ DestroyNode(k) \in CamRec /\ DestroyNode(k).stream = k.stream
      /\ DestroyNode(k).shm = k.shm /\ DestroyNode(k).frame = k.frame
  BY <1>1 DEF DestroyNode, CamRec
<1>4. CreateNode(k, ok) \in CurrentCams /\ DestroyNode(k) \in CurrentCams
  BY <1>2, <1>3, SameIsCurrent
<1>5. PICK c : c = CreateNode(k, ok)
  OBVIOUS
<1>6. PICK a : a = [c EXCEPT !.io = @ \/ (k.stream # 0 /\ ~k.shut)]
  OBVIOUS
<1>7. a \in CamRec /\ a.stream = k.stream /\ a.shm = k.shm /\ a.frame = k.frame
  <2>1. c \in CamRec /\ c.stream = k.stream /\ c.shm = k.shm /\ c.frame = k.frame
    BY <1>2, <1>5
  <2>2. (c.io \/ (k.stream # 0 /\ ~k.shut)) \in BOOLEAN
    OBVIOUS
  <2> QED BY <1>6, <2>1, <2>2 DEF CamRec
<1>8. a \in CurrentCams
  BY <1>7, SameIsCurrent
<1>9. CreateNodes(i, k, ok) \in {k, a}
  BY <1>5, <1>6 DEF CreateNodes
<1> QED BY <1>4, <1>8, <1>9

LEMMA HandleIsCurrent ==
    ASSUME NEW k \in CurrentCams, NEW m \in Messages PROVE HandleStreamMsg(k, m) \in CurrentCams
<1>1. k \in CamRec /\ k.shm \in {0, k.stream} /\ k.frame \in {0, k.stream}
  BY DEF CurrentCams, Current
<1>2. PICK h : h = HandleStreamMsg(k, m)
  OBVIOUS
<1>3. CASE m = "offer"
  <2>1. h = [k EXCEPT !.shm = k.stream]
    BY <1>2, <1>3 DEF HandleStreamMsg
  <2>2. h \in CamRec /\ h.stream = k.stream /\ h.shm = k.stream /\ h.frame = k.frame
    BY <1>1, <2>1 DEF CamRec
  <2> QED BY <1>1, <1>2, <2>2 DEF CurrentCams, Current
<1>4. CASE m = "unmappable"
  <2>1. h = [k EXCEPT !.shm = 0, !.failed = TRUE]
    BY <1>2, <1>4 DEF HandleStreamMsg
  <2>2. h \in CamRec /\ h.stream = k.stream /\ h.shm = 0 /\ h.frame = k.frame
    <3>1. 0 \in 0 .. CamConns
      BY CameraAssumption
    <3> QED BY <1>1, <2>1, <3>1 DEF CamRec
  <2> QED BY <1>1, <1>2, <2>2 DEF CurrentCams, Current
<1>5. CASE m = "ready"
  <2>1. h = [k EXCEPT !.frame = IF k.shm # 0 THEN k.shm ELSE @]
    BY <1>2, <1>5 DEF HandleStreamMsg
  <2>2. /\ h \in CamRec /\ h.stream = k.stream /\ h.shm = k.shm
        /\ h.frame = IF k.shm # 0 THEN k.shm ELSE k.frame
    BY <1>1, <2>1 DEF CamRec
  <2> QED BY <1>1, <1>2, <2>2 DEF CurrentCams, Current
<1> QED BY <1>3, <1>4, <1>5 DEF Messages

\* All there is to read leaves a current camera current: by induction over the
\* messages.
LEMMA ReadAllIsCurrent ==
    ASSUME NEW k \in CurrentCams, NEW q \in Seq(Messages) PROVE ReadAll(k, q) \in CurrentCams
<1> DEFINE Body(f, n) == IF n = 0 THEN k ELSE HandleStreamMsg(f[n - 1], q[n])
           R == CHOOSE f : f = [n \in 0 .. Len(q) |-> Body(f, n)]
           G == {m \in 0 .. Len(q) : \E f : f = [n \in 0 .. m |-> Body(f, n)]}
<1>1. ReadAll(k, q) = R[Len(q)]
  BY DEF ReadAll
<1>2. Len(q) \in Nat
  OBVIOUS
<1>3. 0 \in G
  <2>1. PICK f : f = [n \in 0 .. 0 |-> k]
    OBVIOUS
  <2>2. f = [n \in 0 .. 0 |-> Body(f, n)]
    BY <2>1
  <2> HIDE DEF Body
  <2> QED BY <1>2, <2>2
<1>4. ASSUME NEW m \in 1 .. Len(q), m - 1 \in G PROVE m \in G
  <2>1. PICK f : f = [n \in 0 .. m - 1 |-> Body(f, n)]
    BY <1>4
  <2>2. PICK g : g = [n \in 0 .. m |-> IF n = m THEN Body(f, m) ELSE f[n]]
    OBVIOUS
  <2>3. ASSUME NEW n \in 0 .. m PROVE g[n] = Body(g, n)
    <3>1. n # 0 => n - 1 \in 0 .. m /\ n - 1 # m
      OBVIOUS
    <3>2. Body(g, n) = Body(f, n)
      BY <2>2, <3>1
    <3> HIDE DEF Body
    <3>3. g[n] = Body(f, n)
      <4>1. CASE n = m
        BY <2>2, <4>1
      <4>2. CASE n # m
        <5>1. n \in 0 .. m - 1 /\ g[n] = f[n]
          BY <2>2, <4>2
        <5> QED BY <2>1, <5>1
      <4> QED BY <4>1, <4>2
    <3> QED BY <3>2, <3>3
  <2> HIDE DEF Body
  <2>4. g = [n \in 0 .. m |-> Body(g, n)]
    BY <2>2, <2>3
  <2> QED BY <2>4
<1>5. Len(q) \in G
  <2> HIDE DEF G
  <2>1. \A n \in 0 .. Len(q) : n \in G
    BY <1>2, <1>3, <1>4, UpTo
  <2> QED BY <1>2, <2>1
<1>6. PICK f : f = [n \in 0 .. Len(q) |-> Body(f, n)]
  BY <1>5
<1>7. R = [n \in 0 .. Len(q) |-> Body(R, n)]
  BY <1>6
<1> HIDE DEF R
<1> DEFINE C == {n \in 0 .. Len(q) : R[n] \in CurrentCams}
<1>8. 0 \in C
  BY <1>2, <1>7
<1>9. ASSUME NEW n \in 1 .. Len(q), n - 1 \in C PROVE n \in C
  <2>1. n \in 0 .. Len(q) /\ n # 0 /\ q[n] \in Messages /\ R[n - 1] \in CurrentCams
    BY <1>2, <1>9
  <2>2. R[n] = Body(R, n)
    <3> HIDE DEF Body
    <3> QED BY <1>7, <2>1
  <2>3. R[n] = HandleStreamMsg(R[n - 1], q[n])
    BY <2>1, <2>2
  <2> QED BY <2>1, <2>3, HandleIsCurrent
<1>10. Len(q) \in C
  <2> HIDE DEF C
  <2>1. \A n \in 0 .. Len(q) : n \in C
    BY <1>2, <1>8, <1>9, UpTo
  <2> QED BY <1>2, <2>1
<1> QED BY <1>1, <1>10

LEMMA CameraStep ==
    ASSUME CameraInv, [CameraNext]_camVars
    PROVE  CameraInv'
<1> USE DEF CameraInv
<1>0. 0 \in 0 .. CamConns
  BY CameraAssumption
<1>c. ASSUME NEW i \in Cams PROVE cam[i] \in CurrentCams /\ cam[i] \in CamRec
  BY DEF CurrentCams
<1>1. ASSUME NEW n \in 0 .. MAX_CAMERAS, SetResources(n) PROVE CameraInv'
  <2>1. served' \in 0 .. CamConns
    BY <1>1, CameraAssumption DEF SetResources
  <2>2. CASE UNCHANGED <<ctrl, num, cam>>
    BY <2>1, <2>2
  <2>3. ASSUME NEW ok \in [Cams -> BOOLEAN], ctrl' = served',
               cam' = [i \in Cams |->
                    LET k == [cam[i] EXCEPT !.told = FALSE]
                    IN  IF i <= n THEN AttachFd(CreateNode(k, ok[i]), served', served')
                        ELSE IF i <= num THEN AttachFd(DestroyNode(k), 0, served')
                        ELSE k]
        PROVE  CameraInv'
    <3>1. ASSUME NEW i \in Cams PROVE cam'[i] \in CurrentCams
      <4>1. PICK k : k = [cam[i] EXCEPT !.told = FALSE]
        OBVIOUS
      <4>2. k \in CamRec /\ k.stream = cam[i].stream /\ k.shm = cam[i].shm /\ k.frame = cam[i].frame
        BY <1>c, <4>1 DEF CamRec
      <4>3. k \in CurrentCams
        BY <1>c, <4>2, SameIsCurrent
      <4>4. CreateNode(k, ok[i]) \in CamRec /\ DestroyNode(k) \in CamRec
        BY <4>3, NodesAreCurrent DEF CurrentCams
      <4>5. /\ AttachFd(CreateNode(k, ok[i]), served', served') \in CurrentCams
            /\ AttachFd(DestroyNode(k), 0, served') \in CurrentCams
        BY <1>0, <2>1, <4>4, AttachFdIsCurrent
      <4>6. cam'[i] \in {AttachFd(CreateNode(k, ok[i]), served', served'),
                         AttachFd(DestroyNode(k), 0, served'), k}
        BY <2>3, <4>1
      <4> QED BY <4>3, <4>5, <4>6
    <3> QED BY <2>1, <2>3, <3>1
  <2> QED BY <1>1, <2>2, <2>3 DEF SetResources
<1>2. ASSUME CameraClear PROVE CameraInv'
  <2>1. ASSUME NEW i \in Cams PROVE cam'[i] \in CurrentCams
    <3>1. PICK a : a = [cam[i] EXCEPT !.recording = FALSE, !.told = FALSE]
      OBVIOUS
    <3>2. PICK b : b = [cam[i] EXCEPT !.told = FALSE]
      OBVIOUS
    <3>3. a \in CamRec
      BY <1>c, <3>1 DEF CamRec
    <3>4. b \in CamRec /\ b.stream = cam[i].stream /\ b.shm = cam[i].shm /\ b.frame = cam[i].frame
      BY <1>c, <3>2 DEF CamRec
    <3>5. AttachFd(a, 0, 0) \in CurrentCams /\ b \in CurrentCams
      BY <1>0, <1>c, <3>3, <3>4, AttachFdIsCurrent, SameIsCurrent
    <3>6. cam'[i] \in {AttachFd(a, 0, 0), b}
      BY <1>2, <3>1, <3>2 DEF CameraClear
    <3> QED BY <3>5, <3>6
  <2> QED BY <1>0, <1>2, <2>1 DEF CameraClear
<1>3. ASSUME CameraStop PROVE CameraInv'
  BY <1>0, <1>3, NewCamIsCurrent DEF CameraStop
<1>4. ASSUME NEW i \in Cams, OnStreamStateChanged(i) PROVE CameraInv'
  <2>1. PICK k : k = [cam[i] EXCEPT !.streaming = ~cam[i].streaming]
    OBVIOUS
  <2>2. k \in CamRec /\ k.stream = cam[i].stream /\ k.shm = cam[i].shm /\ k.frame = cam[i].frame
    BY <1>c, <2>1 DEF CamRec
  <2>3. UpdateRecording(k, ctrl) \in CurrentCams
    BY <1>c, <2>2, SameIsCurrent, UpdateRecordingIsCurrent
  <2> QED BY <1>4, <2>1, <2>3 DEF OnStreamStateChanged
<1>5. ASSUME NEW i \in Cams, OnStreamReadable(i) PROVE CameraInv'
  <2>1. PICK k : k = [cam[i] EXCEPT !.inbox = <<>>]
    OBVIOUS
  <2>2. k \in CamRec /\ k.stream = cam[i].stream /\ k.shm = cam[i].shm /\ k.frame = cam[i].frame
    <3>1. <<>> \in Seq(Messages)
      OBVIOUS
    <3> QED BY <1>c, <2>1, <3>1 DEF CamRec
  <2>3. cam[i].inbox \in Seq(Messages)
    BY <1>c DEF CamRec
  <2>4. ReadAll(k, cam[i].inbox) \in CurrentCams
    BY <1>c, <2>2, <2>3, SameIsCurrent, ReadAllIsCurrent
  <2> QED BY <1>5, <2>1, <2>4 DEF OnStreamReadable
<1>6. ASSUME OnReconnectTimer PROVE CameraInv'
  <2>1. ASSUME NEW i \in Cams PROVE cam'[i] \in CurrentCams
    <3>1. PICK b \in BOOLEAN :
            cam'[i] \in {CreateNodes(i, DestroyNode(cam[i]), b), DestroyNode(cam[i])}
      BY <1>6 DEF OnReconnectTimer
    <3>2. DestroyNode(cam[i]) \in CurrentCams
      BY <1>c, NodesAreCurrent
    <3> QED BY <3>1, <3>2, NodesAreCurrent
  <2>2. cam' = [i \in Cams |-> cam'[i]]
    BY <1>6 DEF OnReconnectTimer
  <2>3. cam' \in [Cams -> CurrentCams]
    BY <2>1, <2>2
  <2>4. UNCHANGED <<ctrl, served>>
    BY <1>6 DEF OnReconnectTimer
  <2> QED BY <2>3, <2>4
<1>7. ASSUME NEW i \in Cams, NEW m \in Messages, Filmed(i) \/ Offer(i, m) PROVE CameraInv'
  <2>1. PICK k : cam' = [cam EXCEPT ![i] = k]
                 /\ (\/ k = [cam[i] EXCEPT !.inbox = Append(@, "ready")]
                     \/ k = [cam[i] EXCEPT !.owed = FALSE, !.inbox = Append(@, m)])
    BY <1>7 DEF Filmed, Offer
  <2>2. Append(cam[i].inbox, "ready") \in Seq(Messages) /\ Append(cam[i].inbox, m) \in Seq(Messages)
    BY <1>c DEF CamRec, Messages
  <2>3. k \in CamRec /\ k.stream = cam[i].stream /\ k.shm = cam[i].shm /\ k.frame = cam[i].frame
    BY <1>c, <2>1, <2>2 DEF CamRec
  <2>4. k \in CurrentCams
    BY <1>c, <2>3, SameIsCurrent
  <2> QED BY <1>7, <2>1, <2>4 DEF Filmed, Offer
<1>8. ASSUME ConsumerHangsUp PROVE CameraInv'
  <2>1. ASSUME NEW i \in Cams PROVE cam'[i] \in CurrentCams
    <3>1. PICK k : k = [cam[i] EXCEPT !.hup = @ \/ cam[i].stream # 0]
      OBVIOUS
    <3>2. (cam[i].hup \/ cam[i].stream # 0) \in BOOLEAN
      OBVIOUS
    <3>3. k \in CamRec /\ k.stream = cam[i].stream /\ k.shm = cam[i].shm /\ k.frame = cam[i].frame
      BY <1>c, <3>1, <3>2 DEF CamRec
    <3>4. k \in CurrentCams
      BY <1>c, <3>3, SameIsCurrent
    <3> QED BY <1>8, <3>1, <3>4 DEF ConsumerHangsUp
  <2> QED BY <1>8, <2>1 DEF ConsumerHangsUp
<1>h. ASSUME HandOverCloses PROVE CameraInv'
  <2>1. ASSUME NEW i \in Cams PROVE cam'[i] \in CurrentCams
    <3>1. PICK k : k = [cam[i] EXCEPT !.shut = TRUE, !.owed = FALSE, !.told = FALSE, !.inbox = <<>>]
      OBVIOUS
    <3>2. <<>> \in Seq(Messages)
      OBVIOUS
    <3>3. k \in CamRec /\ k.stream = cam[i].stream /\ k.shm = cam[i].shm /\ k.frame = cam[i].frame
      BY <1>c, <3>1, <3>2 DEF CamRec
    <3>4. k \in CurrentCams
      BY <1>c, <3>3, SameIsCurrent
    <3>5. cam'[i] \in {cam[i], k}
      BY <1>h, <3>1 DEF HandOverCloses
    <3> QED BY <1>c, <3>4, <3>5
  <2> QED BY <1>h, <2>1 DEF HandOverCloses
<1>9. ASSUME CameraStart \/ OnCoreError \/ ServerDies \/ ServerStarts \/ UNCHANGED camVars
      PROVE  CameraInv'
  BY <1>9 DEF CameraStart, OnCoreError, ServerDies, ServerStarts, camVars
<1> QED BY <1>1, <1>2, <1>3, <1>4, <1>5, <1>6, <1>7, <1>8, <1>9, <1>h DEF CameraNext, Messages

\* What a camera's node shows was filmed by the consumer attached to it now, for
\* any number of cameras, consumers and messages under way: attach_fd forgets
\* the frame and the memory of the one before.
THEOREM ShownStaysCurrent == CameraSpec => []ShownIsCurrent
<1>1. CameraInit => CameraInv
  <2>1. 0 \in 0 .. CamConns
    BY CameraAssumption
  <2> QED BY <2>1, NewCamIsCurrent DEF CameraInit, CameraInv
<1>2. CameraInv /\ [CameraNext]_camVars => CameraInv'
  BY CameraStep
<1>3. CameraInv => ShownIsCurrent
  BY DEF CameraInv, CurrentCams, Current, ShownIsCurrent, Shown
<1> QED BY <1>1, <1>2, <1>3, PTL DEF CameraSpec
=============================================================================
