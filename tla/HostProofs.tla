----------------------------- MODULE HostProofs -----------------------------
(***************************************************************************)
(* Proofs about the three adapters around a session.                       *)
(*                                                                         *)
(*   CapiDecoder, for every number of updates and of frames: the frames    *)
(*   the host gets and the end it is told, and the one owner of each       *)
(*   kernel set.                                                           *)
(*   WasmDecoder, for every bound of the PCM queue and of the pending      *)
(*   bytes, every size of the chunks and of a drain: the order of the      *)
(*   frames the host consumes, and what the end of the stream means.       *)
(*   GstElement, for every way of cutting units into blocks, any number of *)
(*   buffers and of resets: the time every PCM sample carries.             *)
(***************************************************************************)
EXTENDS GstElement, CapiDecoder, WasmDecoder, SequenceTheorems, TLAPS

-----------------------------------------------------------------------------
(***************************************************************************)
(* CapiDecoder                                                             *)
(***************************************************************************)
Frames == [n : 1 .. MaxFrames, reserved : BOOLEAN]

\* What the host has, then what is ready, are the frames made, until something is spoilt.
FramesInv ==
  /\ spoilt \cap {"reserved", "panic"} # {} => poisoned
  /\ "session" \notin spoilt => \A i \in 1 .. Len(handed) : handed[i] = i
  /\ spoilt = {} => /\ Len(handed) + Len(ready) = made
                    /\ \A i \in 1 .. Len(ready) : ready[i].n = Len(handed) + i
  /\ told = "end" /\ spoilt = {} => Len(handed) = made

\* The four places a kernel set may be in.
InUpdate(u) == u \in filled /\ u \notin engine /\ u \notin freed
InEngine(u) == u \in engine /\ u \notin filled /\ u \notin freed
Gone(u) == u \in freed /\ u \notin filled /\ u \notin engine
Nowhere(u) == u \notin filled /\ u \notin engine /\ u \notin freed

NotRetired(u) == \A h \in Updates : u \notin retiredIn[h]
RetiredOnce(u) ==
  \E h \in returned : u \in retiredIn[h] /\ \A g \in Updates : u \in retiredIn[g] => g = h

Owned(u) ==
  \/ (InUpdate(u) \/ InEngine(u) \/ Gone(u)) /\ NotRetired(u)
  \/ Nowhere(u) /\ RetiredOnce(u)

KernelsInv ==
  /\ offered \cap returned = {} /\ filled \subseteq offered
  /\ \A h \in Updates : retiredIn[h] \subseteq prepared
  /\ \A u \in prepared : Owned(u)

CapiInv == CapiTypeOK /\ FramesInv /\ KernelsInv

-----------------------------------------------------------------------------
(* Types *)

LEMMA InitType == CapiInit => CapiTypeOK
<1> SUFFICES ASSUME CapiInit  PROVE CapiTypeOK
  OBVIOUS
<1>1. <<>> \in Seq(Frames) /\ <<>> \in Seq(1 .. MaxFrames)
  BY EmptySeq
<1>2. 0 \in 0 .. MaxFrames
  BY MaxFramesAssumption
<1>3. ready \in Seq(Frames) /\ handed \in Seq(1 .. MaxFrames)
  BY <1>1 DEF CapiInit
<1>4. /\ closed \in BOOLEAN /\ broken \in BOOLEAN /\ poisoned \in BOOLEAN
      /\ last \in 0 .. MaxFrames /\ made \in 0 .. MaxFrames
      /\ told = "ok" /\ spoilt = {}
  BY <1>2 DEF CapiInit
<1>5. /\ prepared = {} /\ offered = {} /\ filled = {} /\ returned = {} /\ freed = {} /\ engine = {}
      /\ retiredIn \in [Updates -> SUBSET Updates]
  BY DEF CapiInit
<1>6. QED
  BY <1>3, <1>4, <1>5 DEF CapiTypeOK, Frames

\* k more frames behind those that are ready.
LEMMA MadeType ==
  ASSUME CapiTypeOK, NEW k \in 0 .. 2, Made(k)
  PROVE  ready' \in Seq(Frames) /\ made' \in 0 .. MaxFrames
<1> PICK reserved \in SUBSET (made + 1 .. made + k) :
      ready' = ready \o [i \in 1 .. k |-> [n |-> made + i, reserved |-> made + i \in reserved]]
  BY DEF Made
<1> DEFINE q == [i \in 1 .. k |-> [n |-> made + i, reserved |-> made + i \in reserved]]
<1>1. made \in 0 .. MaxFrames /\ made + k <= MaxFrames /\ made' = made + k /\ ready \in Seq(Frames)
  BY DEF Made, CapiTypeOK, Frames
<1>2. \A i \in 1 .. k : [n |-> made + i, reserved |-> made + i \in reserved] \in Frames
  BY <1>1, MaxFramesAssumption DEF Frames
<1>3. q \in Seq(Frames)
  BY <1>2, IsASeq
<1>4. ready \o q \in Seq(Frames)
  BY <1>1, <1>3, ConcatProperties
<1>5. made' \in 0 .. MaxFrames
  BY <1>1, MaxFramesAssumption
<1>6. QED
  BY <1>4, <1>5

LEMMA TypeStep ==
  ASSUME CapiTypeOK, KernelsInv, [CapiNext]_capiVars
  PROVE  CapiTypeOK'
<1> DEFINE SessionTypes ==
             /\ ready \in Seq(Frames)
             /\ closed \in BOOLEAN /\ broken \in BOOLEAN /\ made \in 0 .. MaxFrames
           DecoderTypes ==
             /\ poisoned \in BOOLEAN /\ last \in 0 .. MaxFrames /\ handed \in Seq(1 .. MaxFrames)
             /\ told \in {"ok", "more", "frame", "pending", "end", "error", "reset"}
             /\ spoilt \subseteq {"session", "reserved", "panic"}
           UpdateTypes ==
             /\ offered \subseteq prepared /\ returned \subseteq prepared
             /\ filled \subseteq prepared /\ engine \subseteq prepared /\ freed \subseteq prepared
             /\ prepared \subseteq Updates /\ retiredIn \in [Updates -> SUBSET Updates]
<1>1. SessionTypes /\ DecoderTypes /\ UpdateTypes
  BY DEF CapiTypeOK, Frames
<1> SUFFICES SessionTypes' /\ DecoderTypes' /\ UpdateTypes'
  BY DEF CapiTypeOK, Frames
<1>2. 0 \in 0 .. MaxFrames /\ <<>> \in Seq(Frames) /\ <<>> \in Seq(1 .. MaxFrames)
  BY EmptySeq, MaxFramesAssumption
<1>3. CASE \/ RequireReset \/ SendPanics \/ SendPending \/ DrainPanics
           \/ ReceiveNothing \/ ReceiveTooSmall \/ UNCHANGED capiVars
  BY <1>1, <1>2, <1>3
     DEF RequireReset, SendPanics, SendPending, DrainPanics, ReceiveNothing, ReceiveTooSmall, Panic,
         Tell, Spoil, sessionVars, decoderVars, updateVars, capiVars
<1>4. CASE SessionFails \/ FlushFails \/ FlushPanics
  BY <1>1, <1>2, <1>4
     DEF SessionFails, FlushFails, FlushPanics, SessionBreaks, Panic, Tell, Spoil, updateVars
<1>5. CASE SendFails
  BY <1>1, <1>2, <1>5, MaxFramesAssumption DEF SendFails, Open, Tell, Spoil, updateVars
<1>6. CASE SendPacket
  <2>1. PICK k \in 0 .. 1 : Made(k) /\ told' = IF k = 0 THEN "more" ELSE "frame"
    BY <1>6 DEF SendPacket, Tell
  <2>2. ready' \in Seq(Frames) /\ made' \in 0 .. MaxFrames
    BY <2>1, MadeType
  <2>3. QED
    BY <1>1, <1>2, <1>6, <2>1, <2>2 DEF SendPacket, updateVars
<1>7. CASE DrainDecoder
  <2>1. CASE ready # <<>> \/ closed
    BY <1>1, <1>7, <2>1 DEF DrainDecoder, Tell, sessionVars, updateVars
  <2>2. CASE ~(ready # <<>> \/ closed)
    <3>1. PICK k \in 0 .. 2 : Made(k) /\ told' = IF k = 0 THEN "end" ELSE "frame"
      BY <1>7, <2>2 DEF DrainDecoder, Tell
    <3>2. ready' \in Seq(Frames) /\ made' \in 0 .. MaxFrames
      BY <3>1, MadeType
    <3>3. QED
      BY <1>1, <1>7, <2>2, <3>1, <3>2 DEF DrainDecoder, updateVars
  <2>3. QED
    BY <2>1, <2>2
<1>8. CASE ReceiveFrame \/ ReceiveReserved \/ ReceivePanics
  <2>1. ready # <<>> => Tail(ready) \in Seq(Frames) /\ Head(ready) \in Frames
    BY <1>1, HeadTailProperties
  <2>2. ready # <<>> => Head(ready).n \in 1 .. MaxFrames
    BY <2>1 DEF Frames
  <2>3. ready # <<>> => Append(handed, Head(ready).n) \in Seq(1 .. MaxFrames)
    BY <1>1, <2>2, AppendProperties
  <2>4. SessionTypes'
    BY <1>1, <1>8, <2>1 DEF ReceiveFrame, ReceiveReserved, ReceivePanics
  <2>5. DecoderTypes'
    <3>1. CASE ReceiveFrame
      <4>1. last' \in 0 .. MaxFrames /\ handed' \in Seq(1 .. MaxFrames)
        BY <2>2, <2>3, <3>1, MaxFramesAssumption DEF ReceiveFrame
      <4>2. QED
        BY <1>1, <3>1, <4>1 DEF ReceiveFrame, Tell
    <3>2. CASE ReceiveReserved \/ ReceivePanics
      BY <1>1, <1>2, <3>2 DEF ReceiveReserved, ReceivePanics, FailsClosed, Panic, Tell, Spoil
    <3>3. QED
      BY <1>8, <3>1, <3>2
  <2>6. UpdateTypes'
    BY <1>1, <1>8 DEF ReceiveFrame, ReceiveReserved, ReceivePanics, updateVars
  <2>7. QED
    BY <2>4, <2>5, <2>6
<1>9. CASE FlushDecoder
  BY <1>1, <1>2, <1>9 DEF FlushDecoder, Tell
<1>10. ASSUME NEW u \in Updates,
              Prepare(u) \/ ApplyUpdate(u) \/ RefuseUpdate(u) \/ ApplyPanics(u) \/ Destroy(u)
       PROVE  SessionTypes' /\ DecoderTypes' /\ UpdateTypes'
  <2>1. SessionTypes' /\ DecoderTypes'
    BY <1>1, <1>10 DEF Prepare, ApplyUpdate, RefuseUpdate, ApplyPanics, Destroy, Panic, Tell, Spoil,
                       sessionVars, decoderVars
  <2>2. CASE Prepare(u) \/ RefuseUpdate(u) \/ ApplyPanics(u)
    BY <1>1, <2>1, <2>2 DEF Prepare, RefuseUpdate, ApplyPanics, updateVars
  <2>3. CASE ApplyUpdate(u)
    BY <1>1, <2>1, <2>3 DEF ApplyUpdate, TakenBack
  <2>4. CASE Destroy(u)
    <3>1. freed' \subseteq prepared
      BY <1>1, <2>4 DEF Destroy, KernelsInv
    <3>2. QED
      BY <1>1, <2>1, <2>4, <3>1 DEF Destroy
  <2>5. QED
    BY <1>10, <2>2, <2>3, <2>4
<1>11. QED
  BY <1>3, <1>4, <1>5, <1>6, <1>7, <1>8, <1>9, <1>10 DEF CapiNext

-----------------------------------------------------------------------------
(* Frames *)

LEMMA InitFrames == CapiInit => FramesInv
<1> SUFFICES ASSUME CapiInit  PROVE FramesInv
  OBVIOUS
<1>1. Len(<<>>) = 0
  BY EmptySeq
<1>2. QED
  BY <1>1 DEF CapiInit, FramesInv

\* The frames made while nothing is ready.
LEMMA MadeFrames ==
  ASSUME CapiTypeOK, ready = <<>>, NEW k \in 0 .. 2, Made(k)
  PROVE  made' = made + k /\ Len(ready') = k /\ \A i \in 1 .. k : ready'[i].n = made + i
<1> PICK reserved \in SUBSET (made + 1 .. made + k) :
      ready' = ready \o [i \in 1 .. k |-> [n |-> made + i, reserved |-> made + i \in reserved]]
  BY DEF Made
<1> DEFINE q == [i \in 1 .. k |-> [n |-> made + i, reserved |-> made + i \in reserved]]
<1>1. made \in 0 .. MaxFrames /\ made + k <= MaxFrames /\ made' = made + k
  BY DEF Made, CapiTypeOK
<1>2. \A i \in 1 .. k : [n |-> made + i, reserved |-> made + i \in reserved] \in Frames
  BY <1>1, MaxFramesAssumption DEF Frames
<1>3. q \in Seq(Frames)
  BY <1>2, IsASeq
<1>4. Len(q) = k /\ \A i \in 1 .. k : q[i] = [n |-> made + i, reserved |-> made + i \in reserved]
  OBVIOUS
<1> HIDE DEF q
<1>5. ready' = <<>> \o q
  BY DEF q
<1>6. ready' = q
  BY <1>3, <1>5, ConcatEmptySeq
<1>7. \A i \in 1 .. k : q[i].n = made + i
  BY <1>4
<1>8. QED
  BY <1>1, <1>4, <1>6, <1>7

LEMMA FramesStep ==
  ASSUME CapiTypeOK, FramesInv, [CapiNext]_capiVars
  PROVE  FramesInv'
<1>1. /\ ready \in Seq(Frames) /\ handed \in Seq(1 .. MaxFrames)
      /\ Len(ready) \in Nat /\ Len(handed) \in Nat /\ made \in Nat
      /\ spoilt \subseteq {"session", "reserved", "panic"}
  BY LenProperties, MaxFramesAssumption DEF CapiTypeOK, Frames
<1>2. Len(<<>>) = 0
  BY EmptySeq
<1>3. ~poisoned => spoilt \cap {"reserved", "panic"} = {}
  BY DEF FramesInv
\* something is spoilt
<1>4. ASSUME NEW cause \in {"session", "reserved", "panic"}, spoilt' = spoilt \cup {cause},
             handed' = handed, poisoned' = TRUE \/ (poisoned' = poisoned /\ cause = "session")
      PROVE  FramesInv'
  BY <1>4 DEF FramesInv
<1>5. CASE \/ SendPanics \/ DrainPanics \/ ReceivePanics \/ FlushPanics
           \/ SendFails \/ SessionFails \/ FlushFails \/ ReceiveReserved
           \/ \E u \in Updates : ApplyPanics(u)
  BY <1>4, <1>5 DEF SendPanics, DrainPanics, ReceivePanics, FlushPanics, SendFails, SessionFails,
                    FlushFails, ReceiveReserved, ApplyPanics, Panic, Spoil, FailsClosed
\* nothing is made or handed over, and the end is told only when nothing is ready
<1>6. ASSUME UNCHANGED <<ready, made, poisoned, handed, spoilt>>,
             told' = "end" => told = "end" \/ ready = <<>>
      PROVE  FramesInv'
  <2>1. ready = <<>> /\ spoilt = {} => Len(handed) = made
    BY <1>1, <1>2 DEF FramesInv
  <2>2. QED
    BY <1>6, <2>1 DEF FramesInv
<1>7. CASE RequireReset \/ SendPending \/ ReceiveNothing \/ ReceiveTooSmall \/ UNCHANGED capiVars
  BY <1>6, <1>7 DEF RequireReset, SendPending, ReceiveNothing, ReceiveTooSmall, Tell, sessionVars,
                    decoderVars, capiVars
<1>8. ASSUME NEW u \in Updates, Prepare(u) \/ ApplyUpdate(u) \/ RefuseUpdate(u) \/ Destroy(u)
      PROVE  FramesInv'
  BY <1>6, <1>8 DEF Prepare, ApplyUpdate, RefuseUpdate, Destroy, Tell, sessionVars, decoderVars
\* frames are made
<1>9. ASSUME NEW k \in 0 .. 2, ready = <<>>, Made(k), UNCHANGED <<poisoned, handed, spoilt>>,
             told' = "end" => k = 0
      PROVE  FramesInv'
  <2>1. made' = made + k /\ Len(ready') = k /\ \A i \in 1 .. k : ready'[i].n = made + i
    BY <1>9, MadeFrames
  <2>2. spoilt = {} => Len(handed) = made
    BY <1>1, <1>2, <1>9 DEF FramesInv
  <2>3. spoilt = {} => /\ Len(handed) + Len(ready') = made'
                       /\ \A i \in 1 .. Len(ready') : ready'[i].n = Len(handed) + i
    BY <1>1, <2>1, <2>2
  <2>4. told' = "end" /\ spoilt = {} => Len(handed) = made'
    BY <1>1, <1>9, <2>1, <2>2
  <2>5. QED
    BY <1>9, <2>3, <2>4 DEF FramesInv
<1>10. CASE SendPacket
  <2>1. PICK k \in 0 .. 1 : Made(k) /\ told' = IF k = 0 THEN "more" ELSE "frame"
    BY <1>10 DEF SendPacket, Tell
  <2>2. k \in 0 .. 2
    OBVIOUS
  <2>3. QED
    BY <1>9, <1>10, <2>1, <2>2 DEF SendPacket
<1>11. CASE DrainDecoder
  <2>1. CASE ready # <<>> \/ closed
    BY <1>6, <1>11, <2>1 DEF DrainDecoder, Tell, sessionVars
  <2>2. CASE ~(ready # <<>> \/ closed)
    <3>1. PICK k \in 0 .. 2 : Made(k) /\ told' = IF k = 0 THEN "end" ELSE "frame"
      BY <1>11, <2>2 DEF DrainDecoder, Tell
    <3>2. QED
      BY <1>9, <1>11, <2>2, <3>1 DEF DrainDecoder
  <2>3. QED
    BY <2>1, <2>2
<1>12. CASE ReceiveFrame
  <2> DEFINE f == Head(ready)
             n == Len(handed)
  <2>1. /\ ready' = Tail(ready) /\ handed' = Append(handed, f.n) /\ told' = "frame" /\ ready # <<>>
        /\ UNCHANGED <<made, spoilt, poisoned>> /\ ~poisoned
    BY <1>12 DEF ReceiveFrame, Tell
  <2>2. /\ f = ready[1] /\ f \in Frames
        /\ Len(ready') = Len(ready) - 1 /\ \A i \in 1 .. Len(ready) - 1 : ready'[i] = ready[i + 1]
    BY <1>1, <2>1, HeadTailProperties
  <2>3. f.n \in 1 .. MaxFrames
    BY <2>2 DEF Frames
  <2> HIDE DEF f
  <2>4. Len(handed') = n + 1 /\ handed'[n + 1] = f.n /\ \A i \in 1 .. n : handed'[i] = handed[i]
    BY <1>1, <2>1, <2>3, AppendProperties
  <2>5. CASE "session" \in spoilt
    BY <1>3, <2>1, <2>5 DEF FramesInv
  <2>6. CASE "session" \notin spoilt
    <3>1. spoilt = {}
      BY <1>1, <1>3, <2>1, <2>6
    <3>2. /\ n + Len(ready) = made /\ \A i \in 1 .. Len(ready) : ready[i].n = n + i
          /\ \A i \in 1 .. n : handed[i] = i
      BY <3>1 DEF FramesInv
    <3>3. 1 \in 1 .. Len(ready)
      BY <1>1, <2>1, EmptySeq
    <3>4. f.n = n + 1
      BY <2>2, <3>2, <3>3
    <3> HIDE DEF n
    <3>5. n \in Nat
      BY <1>1 DEF n
    <3>6. \A i \in 1 .. n + 1 : handed'[i] = i
      <4>1. \A i \in 1 .. n + 1 : i \in 1 .. n \/ i = n + 1
        BY <3>5
      <4>2. QED
        BY <2>4, <3>2, <3>4, <4>1
    <3>7. (n + 1) + Len(ready') = made
      <4>1. Len(ready') = Len(ready) - 1 /\ n + Len(ready) = made /\ Len(ready) \in Nat
        BY <1>1, <2>2, <3>2
      <4>2. QED
        BY <3>5, <4>1
    <3>8. ASSUME NEW i \in 1 .. Len(ready')  PROVE ready'[i].n = (n + 1) + i
      <4>1. i \in 1 .. Len(ready) - 1 /\ i + 1 \in 1 .. Len(ready)
        BY <1>1, <2>2
      <4>2. ready'[i] = ready[i + 1]
        BY <2>2, <4>1
      <4>3. ready'[i].n = n + (i + 1)
        BY <3>2, <4>1, <4>2
      <4>4. QED
        BY <3>5, <4>3
    <3>9. QED
      BY <2>1, <2>4, <3>1, <3>6, <3>7, <3>8 DEF FramesInv
  <2>7. QED
    BY <2>5, <2>6
<1>13. CASE FlushDecoder
  BY <1>2, <1>13 DEF FlushDecoder, Tell, FramesInv
<1>14. QED
  BY <1>5, <1>7, <1>8, <1>10, <1>11, <1>12, <1>13 DEF CapiNext

-----------------------------------------------------------------------------
(* Kernel sets *)

LEMMA InitKernels == CapiInit => KernelsInv
BY DEF CapiInit, KernelsInv

\* A handle with kernel sets in it is one that has come back to the host.
LEMMA RetiredReturned ==
  ASSUME KernelsInv, NEW h \in Updates, h \notin returned
  PROVE  retiredIn[h] = {}
<1> SUFFICES ASSUME NEW u \in retiredIn[h]  PROVE FALSE
  OBVIOUS
<1>1. u \in prepared
  BY DEF KernelsInv
<1>2. Owned(u)
  BY <1>1 DEF KernelsInv
<1>3. QED
  BY <1>2 DEF Owned, NotRetired, RetiredOnce

LEMMA KernelsStep ==
  ASSUME CapiTypeOK, KernelsInv, [CapiNext]_capiVars
  PROVE  KernelsInv'
<1>1. /\ offered \subseteq prepared /\ returned \subseteq prepared
      /\ filled \subseteq prepared /\ engine \subseteq prepared /\ freed \subseteq prepared
      /\ prepared \subseteq Updates /\ retiredIn \in [Updates -> SUBSET Updates]
  BY DEF CapiTypeOK
<1>2. /\ offered \cap returned = {} /\ filled \subseteq offered
      /\ \A h \in Updates : retiredIn[h] \subseteq prepared
      /\ \A w \in prepared : Owned(w)
  BY DEF KernelsInv
<1>3. ASSUME UNCHANGED updateVars  PROVE KernelsInv'
  BY <1>2, <1>3 DEF updateVars, KernelsInv, Owned, InUpdate, InEngine, Gone, Nowhere, NotRetired, RetiredOnce
<1>4. CASE \/ RequireReset \/ SendPacket \/ SendPending \/ SendFails \/ SendPanics
           \/ DrainDecoder \/ DrainPanics \/ SessionFails
           \/ ReceiveFrame \/ ReceiveReserved \/ ReceiveNothing \/ ReceiveTooSmall \/ ReceivePanics
           \/ FlushFails \/ FlushPanics \/ UNCHANGED capiVars
           \/ \E u \in Updates : RefuseUpdate(u)
  BY <1>3, <1>4
     DEF RequireReset, SendPacket, SendPending, SendFails, SendPanics, DrainDecoder, DrainPanics,
         SessionFails, ReceiveFrame, ReceiveReserved, ReceiveNothing, ReceiveTooSmall, ReceivePanics,
         FlushFails, FlushPanics, RefuseUpdate, capiVars
<1>5. CASE FlushDecoder
  <2>1. /\ engine' = {} /\ freed' = freed \cup engine
        /\ UNCHANGED <<prepared, offered, filled, returned, retiredIn>>
    BY <1>5 DEF FlushDecoder
  <2>2. ASSUME NEW w \in prepared  PROVE Owned(w)'
    <3>1. Owned(w)
      BY <1>2
    <3>2. QED
      BY <2>1, <3>1 DEF Owned, InUpdate, InEngine, Gone, Nowhere, NotRetired, RetiredOnce
  <2>3. QED
    BY <1>2, <2>1, <2>2 DEF KernelsInv
<1>6. ASSUME NEW u \in Updates, Prepare(u)  PROVE KernelsInv'
  <2>1. /\ u \notin prepared /\ prepared' = prepared \cup {u}
        /\ offered' = offered \cup {u} /\ filled' = filled \cup {u}
        /\ UNCHANGED <<returned, retiredIn, engine, freed>>
    BY <1>6 DEF Prepare
  <2>2. ASSUME NEW w \in prepared  PROVE Owned(w)'
    <3>1. Owned(w) /\ w # u
      BY <1>2, <2>1
    <3>2. QED
      BY <2>1, <3>1 DEF Owned, InUpdate, InEngine, Gone, Nowhere, NotRetired, RetiredOnce
  <2>3. Owned(u)'
    <3>1. NotRetired(u)'
      BY <1>2, <2>1 DEF NotRetired
    <3>2. InUpdate(u)'
      BY <1>1, <2>1 DEF InUpdate
    <3>3. QED
      BY <3>1, <3>2 DEF Owned
  <2>4. QED
    BY <1>1, <1>2, <2>1, <2>2, <2>3 DEF KernelsInv
<1>7. ASSUME NEW u \in Updates, ApplyUpdate(u)  PROVE KernelsInv'
  <2>1. PICK displaced \in SUBSET engine :
          engine' = (engine \ displaced) \cup {u} /\ retiredIn' = [retiredIn EXCEPT ![u] = displaced]
    BY <1>7 DEF ApplyUpdate
  <2>2. /\ u \in offered /\ u \in filled /\ filled' = filled \ {u} /\ offered' = offered \ {u}
        /\ returned' = returned \cup {u} /\ UNCHANGED <<prepared, freed>>
    BY <1>7 DEF ApplyUpdate, TakenBack
  <2>3. retiredIn[u] = {}
    BY <1>2, <2>2, RetiredReturned
  <2>4. /\ retiredIn'[u] = displaced
        /\ \A h \in Updates : h # u => retiredIn'[h] = retiredIn[h]
    BY <1>1, <2>1
  <2>5. ASSUME NEW w \in prepared  PROVE Owned(w)'
    <3>1. Owned(w)
      BY <1>2
    <3>2. CASE w = u
      <4>1. InUpdate(u) /\ NotRetired(u)
        BY <2>2, <3>1, <3>2 DEF Owned, InUpdate, InEngine, Gone, Nowhere
      <4>2. InEngine(u)' /\ NotRetired(u)'
        BY <2>1, <2>2, <2>4, <4>1 DEF InUpdate, InEngine, NotRetired
      <4>3. QED
        BY <3>2, <4>2 DEF Owned
    <3>3. CASE w # u /\ w \in displaced
      <4>1. InEngine(w) /\ NotRetired(w)
        BY <3>1, <3>3 DEF Owned, InUpdate, InEngine, Gone, Nowhere
      <4>2. Nowhere(w)'
        BY <2>1, <2>2, <3>3, <4>1 DEF InEngine, Nowhere
      <4>3. RetiredOnce(w)'
        BY <2>2, <2>4, <3>3, <4>1 DEF NotRetired, RetiredOnce
      <4>4. QED
        BY <4>2, <4>3 DEF Owned
    <3>4. CASE w # u /\ w \notin displaced
      <4>1. /\ w \in filled' <=> w \in filled
            /\ w \in engine' <=> w \in engine
            /\ w \in freed' <=> w \in freed
        BY <2>1, <2>2, <3>4
      <4>2. \A h \in Updates : w \in retiredIn'[h] <=> w \in retiredIn[h]
        BY <2>3, <2>4, <3>4
      <4>3. NotRetired(w) => NotRetired(w)'
        BY <4>2 DEF NotRetired
      <4>4. RetiredOnce(w) => RetiredOnce(w)'
        BY <1>1, <2>2, <4>2 DEF RetiredOnce
      <4>5. QED
        BY <3>1, <4>1, <4>3, <4>4 DEF Owned, InUpdate, InEngine, Gone, Nowhere
    <3>5. QED
      BY <3>2, <3>3, <3>4
  <2>6. \A h \in Updates : retiredIn'[h] \subseteq prepared
    BY <1>1, <1>2, <2>1, <2>4
  <2>7. QED
    BY <1>2, <2>2, <2>5, <2>6 DEF KernelsInv
<1>8. ASSUME NEW u \in Updates, ApplyPanics(u)  PROVE KernelsInv'
  <2>1. /\ u \in filled /\ filled' = filled \ {u}
        /\ \/ engine' = engine \cup {u} /\ freed' = freed
           \/ freed' = freed \cup {u} /\ engine' = engine
        /\ UNCHANGED <<prepared, offered, returned, retiredIn>>
    BY <1>8 DEF ApplyPanics
  <2>2. ASSUME NEW w \in prepared  PROVE Owned(w)'
    <3>1. Owned(w)
      BY <1>2
    <3>2. QED
      BY <2>1, <3>1 DEF Owned, InUpdate, InEngine, Gone, Nowhere, NotRetired, RetiredOnce
  <2>3. QED
    BY <1>2, <2>1, <2>2 DEF KernelsInv
<1>9. ASSUME NEW u \in Updates, Destroy(u)  PROVE KernelsInv'
  <2>1. /\ \/ offered' = offered \ {u} /\ returned' = returned
           \/ returned' = returned \ {u} /\ offered' = offered
        /\ filled' = filled \ {u} /\ freed' = freed \cup retiredIn[u] \cup (filled \cap {u})
        /\ retiredIn' = [retiredIn EXCEPT ![u] = {}]
        /\ UNCHANGED <<prepared, engine>>
    BY <1>9 DEF Destroy
  <2>2. /\ retiredIn'[u] = {}
        /\ \A h \in Updates : h # u => retiredIn'[h] = retiredIn[h]
    BY <1>1, <2>1
  <2>3. ASSUME NEW w \in prepared  PROVE Owned(w)'
    <3>1. Owned(w)
      BY <1>2
    <3>2. CASE w \in retiredIn[u]
      <4>1. Nowhere(w) /\ RetiredOnce(w)
        BY <3>1, <3>2 DEF Owned, NotRetired
      <4>2. Gone(w)'
        BY <2>1, <3>2, <4>1 DEF Nowhere, Gone
      <4>3. \A g \in Updates : w \in retiredIn[g] => g = u
        BY <3>2, <4>1 DEF RetiredOnce
      <4>4. NotRetired(w)'
        BY <2>2, <4>3 DEF NotRetired
      <4>5. QED
        BY <4>2, <4>4 DEF Owned
    <3>3. CASE w \notin retiredIn[u]
      <4>1. \A h \in Updates : w \in retiredIn'[h] <=> w \in retiredIn[h]
        BY <2>2, <3>3
      <4>2. NotRetired(w) => NotRetired(w)'
        BY <4>1 DEF NotRetired
      <4>3. RetiredOnce(w) => RetiredOnce(w)'
        BY <1>1, <2>1, <3>3, <4>1 DEF RetiredOnce
      <4>4. CASE w \in filled /\ w = u
        <5>1. InUpdate(w) /\ NotRetired(w)
          BY <3>1, <4>4 DEF Owned, InUpdate, InEngine, Gone, Nowhere
        <5>2. Gone(w)'
          BY <2>1, <4>4, <5>1 DEF InUpdate, Gone
        <5>3. QED
          BY <4>2, <5>1, <5>2 DEF Owned
      <4>5. CASE ~(w \in filled /\ w = u)
        <5>1. /\ w \in filled' <=> w \in filled
              /\ w \in engine' <=> w \in engine
              /\ w \in freed' <=> w \in freed
          BY <2>1, <3>3, <4>5
        <5>2. QED
          BY <3>1, <4>2, <4>3, <5>1 DEF Owned, InUpdate, InEngine, Gone, Nowhere
      <4>6. QED
        BY <4>4, <4>5
    <3>4. QED
      BY <3>2, <3>3
  <2>4. \A h \in Updates : retiredIn'[h] \subseteq prepared
    BY <1>2, <2>2
  <2>5. QED
    BY <1>2, <2>1, <2>3, <2>4 DEF KernelsInv
<1>10. QED
  BY <1>4, <1>5, <1>6, <1>7, <1>8, <1>9 DEF CapiNext

-----------------------------------------------------------------------------
(* The theorems *)

\* Every reachable state of the decoder handle satisfies the invariant.
THEOREM CapiInvariant == CapiSpec => []CapiInv
<1>1. CapiInit => CapiInv
  BY InitType, InitFrames, InitKernels DEF CapiInv
<1>2. CapiInv /\ [CapiNext]_capiVars => CapiInv'
  BY TypeStep, FramesStep, KernelsStep DEF CapiInv
<1>3. QED
  BY <1>1, <1>2, PTL DEF CapiSpec

\* After a panic or a frame that could not be handed over the decoder hands out and
\* ends nothing until a flush succeeds; the host gets the frames in order with none
\* left out, and the end only after the last (decoder_requires_reset,
\* openjoc_decoder_receive_frame).
THEOREM PoisonFailsClosedHolds == CapiSpec => []PoisonFailsClosed
<1>1. CapiInv => PoisonFailsClosed
  <2> SUFFICES ASSUME CapiInv  PROVE PoisonFailsClosed
    OBVIOUS
  <2>1. handed = [i \in 1 .. Len(handed) |-> handed[i]]
    BY LenProperties DEF CapiInv, CapiTypeOK
  <2>2. QED
    BY <2>1 DEF CapiInv, FramesInv, PoisonFailsClosed
<1>2. QED
  BY <1>1, CapiInvariant, PTL

\* A kernel set has one owner, in every order of preparation, application, refusal,
\* panic, destruction and reset, with any number of updates
\* (openjoc_decoder_apply_listener_orientation and the destroy functions).
THEOREM KernelsHaveOwnerHolds == CapiSpec => []KernelsHaveOwner
<1>1. CapiInv => KernelsHaveOwner
  <2> SUFFICES ASSUME CapiInv  PROVE KernelsHaveOwner
    OBVIOUS
  <2>1. returned \subseteq Updates
    BY DEF CapiInv, CapiTypeOK
  <2>2. ASSUME NEW u \in prepared
        PROVE  LET owners == {h \in Updates : u \in retiredIn[h]} IN
               \/ u \in filled /\ u \notin engine \cup freed /\ owners = {}
               \/ u \in engine /\ u \notin filled \cup freed /\ owners = {}
               \/ u \in freed /\ u \notin filled \cup engine /\ owners = {}
               \/ u \notin filled \cup engine \cup freed /\ \E h \in returned : owners = {h}
    <3> DEFINE owners == {h \in Updates : u \in retiredIn[h]}
    <3>1. Owned(u)
      BY DEF CapiInv, KernelsInv
    <3>2. NotRetired(u) => owners = {}
      BY DEF NotRetired
    <3>3. RetiredOnce(u) => \E h \in returned : owners = {h}
      BY <2>1 DEF RetiredOnce
    <3> HIDE DEF owners
    <3>4. \/ u \in filled /\ u \notin engine \cup freed /\ owners = {}
          \/ u \in engine /\ u \notin filled \cup freed /\ owners = {}
          \/ u \in freed /\ u \notin filled \cup engine /\ owners = {}
          \/ u \notin filled \cup engine \cup freed /\ \E h \in returned : owners = {h}
      BY <3>1, <3>2, <3>3 DEF Owned, InUpdate, InEngine, Gone, Nowhere
    <3>5. QED
      BY <3>4 DEF owners
  <2>3. QED
    BY <2>2 DEF CapiInv, KernelsInv, KernelsHaveOwner
<1>2. QED
  BY <1>1, CapiInvariant, PTL

-----------------------------------------------------------------------------
(***************************************************************************)
(* WasmDecoder                                                             *)
(***************************************************************************)
Numbers == 1 .. MaxDue + 1

\* Frames the host has been shown.
Shown == Len(taken) + (IF current = 0 THEN 0 ELSE 1)

\* The frames consumed, the one exposed and those queued are in the order made; nothing
\* else was made unless an error is recorded.
PcmInv ==
  /\ \A i \in 1 .. Len(taken) : taken[i] = i
  /\ current # 0 => current = Len(taken) + 1
  /\ \A i \in 1 .. Len(output) : output[i] = Shown + i
  /\ ~lastError => due = Shown + Len(output)

\* A call works only while there is no PCM; what ends a decoder is an error, or a drain
\* that left nothing behind.
CallInv ==
  /\ running # "none" => NoPcm /\ ~ended
  /\ ~ended => ~lastError /\ ~finished
  /\ ended /\ ~lastError => bytes = 0 /\ held = 0
  /\ finished => output = <<>> /\ ~lastError

WasmInv == WasmTypeOK /\ PcmInv /\ CallInv

-----------------------------------------------------------------------------
LEMMA EmptyQueue ==
  ASSUME NEW S
  PROVE  <<>> \in Seq(S) /\ Len(<<>>) = 0 /\ 1 .. Len(<<>>) = {}
<1>1. <<>> \in Seq(S) /\ Len(<<>>) = 0
  BY EmptySeq
<1>2. QED
  BY <1>1

LEMMA WasmInitInv == WasmInit => WasmInv
<1> SUFFICES ASSUME WasmInit  PROVE WasmInv
  OBVIOUS
<1>1. /\ bytes = 0 /\ output = <<>> /\ current = 0 /\ inputSeen = FALSE
      /\ ended = FALSE /\ lastError = FALSE /\ held = 0 /\ running = "none"
      /\ due = 0 /\ taken = <<>> /\ finished = FALSE
  BY DEF WasmInit
<1>2. /\ output \in Seq(Numbers) /\ taken \in Seq(Numbers) /\ Len(output) = 0 /\ Len(taken) = 0
      /\ 1 .. Len(output) = {} /\ 1 .. Len(taken) = {}
  BY <1>1, EmptyQueue
<1>3. WasmTypeOK
  <2>1. 0 \in 0 .. MaxPending /\ 0 \in 0 .. MaxDue + 1 /\ 0 <= MaxQueued
    BY WasmAssumption
  <2>2. /\ bytes \in 0 .. MaxPending /\ current \in 0 .. MaxDue + 1 /\ due \in 0 .. MaxDue + 1
        /\ Len(output) <= MaxQueued
    BY <1>1, <1>2, <2>1
  <2>3. /\ inputSeen \in BOOLEAN /\ ended \in BOOLEAN /\ lastError \in BOOLEAN
        /\ finished \in BOOLEAN /\ running \in {"none", "push", "flush"}
    BY <1>1
  <2>4. held \in 0 .. 1
    BY <1>1
  <2>5. QED
    BY <1>2, <2>2, <2>3, <2>4 DEF WasmTypeOK, Numbers
<1>4. PcmInv
  BY <1>1, <1>2 DEF PcmInv, Shown
<1>5. CallInv
  BY <1>1 DEF CallInv
<1>6. QED
  BY <1>3, <1>4, <1>5 DEF WasmInv

\* What collect_session_output leaves: the frames the session made, as far as they fit.
LEMMA Collected ==
  ASSUME WasmInv, NoPcm, ~lastError, NEW produced \in Nat, Collect(produced)
  PROVE  /\ due' \in 0 .. MaxDue + 1 /\ output' \in Seq(Numbers) /\ Len(output') <= MaxQueued
         /\ \A i \in 1 .. Len(output') : output'[i] = Len(taken) + i
         /\ produced <= MaxQueued => Fits(produced) /\ due' = Len(taken) + Len(output')
         /\ Fits(produced) => due' = Len(taken) + Len(output')
<1> DEFINE m == IF Fits(produced) THEN produced ELSE MaxQueued - Len(output)
           f == [i \in 1 .. m |-> due + i]
<1>1. /\ output = <<>> /\ Len(output) = 0 /\ current = 0 /\ MaxQueued \in Nat \ {0}
      /\ due \in Nat /\ Len(taken) \in Nat /\ MaxDue \in Nat
  BY EmptyQueue, LenProperties, WasmAssumption DEF NoPcm, WasmInv, WasmTypeOK
<1>2. due = Len(taken)
  BY <1>1 DEF WasmInv, PcmInv, Shown
<1>3. /\ due + produced <= MaxDue /\ output' = output \o f
      /\ due' = due + (IF Fits(produced) THEN produced ELSE MaxQueued - Len(output) + 1)
  BY DEF Collect
<1>4. Fits(produced) <=> produced <= MaxQueued
  BY <1>1 DEF Fits
<1>5. m \in Nat /\ m <= produced /\ m <= MaxQueued /\ (Fits(produced) => m = produced)
  BY <1>1, <1>4
<1>6. due' \in 0 .. MaxDue + 1 /\ (Fits(produced) => due' = due + m)
  BY <1>1, <1>3, <1>4, <1>5
<1> HIDE DEF m
<1>7. \A i \in 1 .. m : due + i \in Numbers
  BY <1>1, <1>3, <1>5 DEF Numbers
<1>8. f \in Seq(Numbers) /\ Len(f) = m
  <2>1. f \in Seq(Numbers)
    BY <1>5, <1>7, IsASeq
  <2>2. Len(f) = m
    BY <1>5
  <2>3. QED
    BY <2>1, <2>2
<1>9. output' = f
  BY <1>1, <1>3, <1>8, ConcatEmptySeq
<1>10. \A i \in 1 .. m : f[i] = Len(taken) + i
  BY <1>2
<1> HIDE DEF f
<1>11. QED
  BY <1>2, <1>4, <1>5, <1>6, <1>8, <1>9, <1>10

LEMMA WasmTypes ==
  ASSUME WasmInv
  PROVE  /\ bytes \in 0 .. MaxPending /\ output \in Seq(Numbers) /\ Len(output) <= MaxQueued
         /\ current \in 0 .. MaxDue + 1
         /\ inputSeen \in BOOLEAN /\ ended \in BOOLEAN /\ lastError \in BOOLEAN
         /\ held \in 0 .. 1 /\ running \in {"none", "push", "flush"}
         /\ due \in 0 .. MaxDue + 1 /\ taken \in Seq(Numbers) /\ finished \in BOOLEAN
         /\ Len(output) \in Nat /\ Len(taken) \in Nat
<1>1. WasmTypeOK
  BY DEF WasmInv
<1>2. output \in Seq(Numbers) /\ taken \in Seq(Numbers)
  BY <1>1 DEF WasmTypeOK, Numbers
<1>3. QED
  BY <1>1, <1>2, LenProperties DEF WasmTypeOK

\* What only ends the decoder with an error, or a call.
LEMMA FailStep ==
  ASSUME WasmInv, ~ended, Fails, bytes' \in 0 .. MaxPending, inputSeen' \in BOOLEAN, held' \in 0 .. 1,
         UNCHANGED <<output, current, due, taken, finished>>
  PROVE  WasmInv'
<1>1. ended' = TRUE /\ lastError' = TRUE /\ running' = "none" /\ finished' = FALSE
  BY WasmTypes DEF Fails, WasmInv, CallInv
<1>2. WasmTypeOK'
  BY <1>1 DEF WasmInv, WasmTypeOK
<1>3. PcmInv'
  BY <1>1 DEF WasmInv, PcmInv, Shown
<1>4. CallInv'
  BY <1>1 DEF CallInv
<1>5. QED
  BY <1>2, <1>3, <1>4 DEF WasmInv

\* A unit is decoded: what the session held is queued.
LEMMA DecodeStep ==
  ASSUME WasmInv, ~ended, NoPcm, NEW flagged \in BOOLEAN, Decode(flagged),
         bytes' \in 0 .. MaxPending, inputSeen' \in BOOLEAN,
         running' \in {"none", "push", "flush"}, output' # <<>> => running' = "none",
         UNCHANGED <<current, ended, lastError, taken, finished>>
  PROVE  WasmInv'
<1> DEFINE produced == IF flagged THEN 0 ELSE held
<1>1. produced \in Nat /\ produced <= 1 /\ Collect(produced) /\ held' = 1
  BY WasmTypes DEF Decode
<1>2. ~lastError /\ ~finished /\ current = 0 /\ produced <= MaxQueued
  BY <1>1, WasmAssumption DEF WasmInv, CallInv, NoPcm
<1> HIDE DEF produced
<1>3. /\ due' \in 0 .. MaxDue + 1 /\ output' \in Seq(Numbers) /\ Len(output') <= MaxQueued
      /\ \A i \in 1 .. Len(output') : output'[i] = Len(taken) + i
      /\ due' = Len(taken) + Len(output')
  BY <1>1, <1>2, Collected
<1>4. WasmTypeOK'
  BY <1>1, <1>3, WasmTypes DEF WasmTypeOK, Numbers
<1>5. Shown' = Len(taken)
  BY <1>2, WasmTypes DEF Shown
<1>6. PcmInv'
  BY <1>2, <1>3, <1>5 DEF WasmInv, PcmInv
<1>7. CallInv'
  BY <1>2 DEF CallInv, NoPcm
<1>8. QED
  BY <1>4, <1>6, <1>7 DEF WasmInv

LEMMA PushBytesStep ==
  ASSUME WasmInv, NEW n \in Chunks, PushBytes(n)
  PROVE  WasmInv'
<1>1. /\ ~ended /\ NoPcm /\ running = "none" /\ inputSeen' \in BOOLEAN
      /\ UNCHANGED <<output, current, held, due, taken, finished>>
  BY WasmTypes DEF PushBytes, Accepts
<1>2. CASE bytes + n > MaxPending
  BY <1>1, <1>2, WasmTypes, FailStep DEF PushBytes
<1>3. CASE ~(bytes + n > MaxPending)
  <2>1. bytes' = bytes + n /\ running' = "push" /\ UNCHANGED <<ended, lastError>>
    BY <1>3 DEF PushBytes
  <2>2. bytes' \in 0 .. MaxPending
    BY <1>3, <2>1, WasmTypes, WasmAssumption
  <2>3. WasmTypeOK'
    BY <1>1, <2>1, <2>2 DEF WasmInv, WasmTypeOK
  <2>4. PcmInv'
    BY <1>1, <2>1 DEF WasmInv, PcmInv, Shown
  <2>5. CallInv'
    BY <1>1, <2>1 DEF WasmInv, CallInv, NoPcm
  <2>6. QED
    BY <2>3, <2>4, <2>5 DEF WasmInv
<1>4. QED
  BY <1>2, <1>3

LEMMA PumpUnitStep ==
  ASSUME WasmInv, PumpUnit
  PROVE  WasmInv'
<1>1. /\ running # "none" /\ bytes >= UnitEnd /\ bytes' = bytes - 2 /\ Decode(FALSE)
      /\ running' = (IF output' = <<>> THEN running ELSE "none")
      /\ UNCHANGED <<current, inputSeen, ended, lastError, taken, finished>>
  BY DEF PumpUnit
<1>2. NoPcm /\ ~ended
  BY <1>1 DEF WasmInv, CallInv
<1>3. bytes' \in 0 .. MaxPending
  <2>1. UnitEnd \in {2, 3}
    BY DEF UnitEnd
  <2>2. QED
    BY <1>1, <2>1, WasmTypes, WasmAssumption
<1>4. QED
  BY <1>1, <1>2, <1>3, WasmTypes, DecodeStep

LEMMA PumpEndStep ==
  ASSUME WasmInv, NEW tail \in 0 .. MaxTail, PumpEnd(tail)
  PROVE  WasmInv'
<1> DEFINE produced == held + tail
<1>1. /\ running = "flush" /\ bytes = 0 /\ Collect(produced) /\ held' = 0
      /\ UNCHANGED <<bytes, current, inputSeen, taken>>
  BY DEF PumpEnd
<1>2. NoPcm /\ ~ended /\ ~lastError /\ ~finished /\ current = 0
  BY <1>1 DEF WasmInv, CallInv, NoPcm
<1>3. produced \in Nat
  BY WasmTypes, WasmAssumption
<1>4. IF Fits(produced) THEN /\ ended' = TRUE /\ running' = "none"
                         /\ finished' = (output' = <<>>) /\ lastError' = lastError
      ELSE Fails /\ finished' = finished
  BY DEF PumpEnd
<1> HIDE DEF produced
<1>5. /\ due' \in 0 .. MaxDue + 1 /\ output' \in Seq(Numbers) /\ Len(output') <= MaxQueued
      /\ \A i \in 1 .. Len(output') : output'[i] = Len(taken) + i
      /\ Fits(produced) => due' = Len(taken) + Len(output')
  BY <1>1, <1>2, <1>3, Collected
<1>6. ended' = TRUE /\ running' = "none" /\ lastError' \in BOOLEAN /\ finished' \in BOOLEAN
  BY <1>4, WasmTypes DEF Fails
<1>7. ~lastError' => Fits(produced)
  BY <1>4 DEF Fails
<1>8. finished' => output' = <<>> /\ ~lastError'
  BY <1>2, <1>4
<1>9. WasmTypeOK'
  BY <1>1, <1>5, <1>6, WasmTypes DEF WasmTypeOK, Numbers
<1>10. Shown' = Len(taken)
  BY <1>1, <1>2, WasmTypes DEF Shown
<1>11. PcmInv'
  BY <1>1, <1>2, <1>5, <1>7, <1>10 DEF WasmInv, PcmInv
<1>12. CallInv'
  BY <1>1, <1>6, <1>8 DEF CallInv
<1>13. QED
  BY <1>9, <1>11, <1>12 DEF WasmInv

LEMMA ExposeStep ==
  ASSUME WasmInv, Expose
  PROVE  WasmInv'
<1>1. /\ running = "none" /\ current = 0 /\ output # <<>>
      /\ current' = Head(output) /\ output' = Tail(output)
      /\ UNCHANGED <<bytes, inputSeen, ended, lastError, held, running, due, taken, finished>>
  BY DEF Expose
<1> DEFINE n == Len(output)
<1>2. /\ Head(output) \in Numbers /\ output' \in Seq(Numbers) /\ Len(output') = n - 1
      /\ \A i \in 1 .. Len(output') : output'[i] = output[i + 1]
      /\ n \in Nat /\ n > 0 /\ Head(output) = output[1]
  BY <1>1, WasmTypes, HeadTailProperties, EmptySeq
<1>3. \A i \in 1 .. n : output[i] = Len(taken) + i
  <2>1. Shown = Len(taken)
    BY <1>1, WasmTypes DEF Shown
  <2>2. QED
    BY <2>1 DEF WasmInv, PcmInv
<1>4. n <= MaxQueued
  BY WasmTypes
<1> HIDE DEF n
<1>5. current' = Len(taken) + 1 /\ current' # 0
  <2>1. 1 \in 1 .. n
    BY <1>2
  <2>2. QED
    BY <1>1, <1>2, <1>3, <2>1, WasmTypes
<1>6. Shown' = Len(taken) + 1 /\ Shown = Len(taken)
  BY <1>1, <1>5, WasmTypes DEF Shown
<1>7. \A i \in 1 .. Len(output') : output'[i] = Len(taken) + 1 + i
  <2> SUFFICES ASSUME NEW i \in 1 .. n - 1  PROVE output'[i] = Len(taken) + 1 + i
    BY <1>2
  <2>1. i + 1 \in 1 .. n
    BY <1>2
  <2>2. QED
    BY <1>2, <1>3, <2>1, WasmTypes
<1>8. ~lastError => due = Len(taken) + n
  BY <1>6 DEF WasmInv, PcmInv, n
<1>9. WasmTypeOK'
  <2>1. current' \in 0 .. MaxDue + 1
    BY <1>1, <1>2, WasmAssumption DEF Numbers
  <2>2. Len(output') <= MaxQueued
    BY <1>2, <1>4, WasmAssumption
  <2>3. QED
    BY <1>1, <1>2, <2>1, <2>2 DEF WasmInv, WasmTypeOK, Numbers
<1>10. PcmInv'
  <2>1. ~lastError' => due' = Shown' + Len(output')
    BY <1>1, <1>2, <1>6, <1>8, WasmTypes
  <2>2. \A i \in 1 .. Len(output') : output'[i] = Shown' + i
    BY <1>6, <1>7
  <2>3. \A i \in 1 .. Len(taken') : taken'[i] = i
    BY <1>1 DEF WasmInv, PcmInv
  <2>4. QED
    BY <1>1, <1>5, <2>1, <2>2, <2>3 DEF PcmInv
<1>11. CallInv'
  BY <1>1 DEF WasmInv, CallInv, NoPcm
<1>12. QED
  BY <1>9, <1>10, <1>11 DEF WasmInv

LEMMA ConsumeStep ==
  ASSUME WasmInv, Consume
  PROVE  WasmInv'
<1>1. /\ running = "none" /\ current # 0 /\ taken' = Append(taken, current) /\ current' = 0
      /\ UNCHANGED <<bytes, output, inputSeen, ended, lastError, held, running, due, finished>>
  BY DEF Consume
<1>2. current = Len(taken) + 1 /\ current \in Numbers /\ Len(taken) \in Nat
  BY <1>1, WasmTypes, WasmAssumption DEF WasmInv, PcmInv, Numbers
<1>3. /\ taken' \in Seq(Numbers) /\ Len(taken') = Len(taken) + 1
      /\ \A i \in 1 .. Len(taken) : taken'[i] = taken[i]
      /\ taken'[Len(taken) + 1] = current
  BY <1>1, <1>2, WasmTypes, AppendProperties
<1>4. \A i \in 1 .. Len(taken') : taken'[i] = i
  <2> SUFFICES ASSUME NEW i \in 1 .. Len(taken) + 1  PROVE taken'[i] = i
    BY <1>3
  <2>1. CASE i = Len(taken) + 1
    BY <1>2, <1>3, <2>1
  <2>2. CASE i # Len(taken) + 1
    <3>1. i \in 1 .. Len(taken)
      BY <1>2, <2>2
    <3>2. QED
      BY <1>3, <3>1 DEF WasmInv, PcmInv
  <2>3. QED
    BY <2>1, <2>2
<1>5. Shown' = Shown
  BY <1>1, <1>2, <1>3 DEF Shown
<1>6. WasmTypeOK'
  <2>1. current' \in 0 .. MaxDue + 1
    BY <1>1, WasmAssumption
  <2>2. QED
    BY <1>1, <1>3, <2>1 DEF WasmInv, WasmTypeOK, Numbers
<1>7. PcmInv'
  BY <1>1, <1>4, <1>5 DEF WasmInv, PcmInv
<1>8. CallInv'
  BY <1>1 DEF WasmInv, CallInv, NoPcm
<1>9. QED
  BY <1>6, <1>7, <1>8 DEF WasmInv

LEMMA FlushEndedStep ==
  ASSUME WasmInv, FlushEnded
  PROVE  WasmInv'
<1>1. /\ running = "none" /\ ended /\ finished' = (finished \/ EndTold)
      /\ UNCHANGED <<bytes, output, current, inputSeen, ended, lastError, held, running, due, taken>>
  BY DEF FlushEnded
<1>2. finished' \in BOOLEAN /\ (finished' => output = <<>> /\ ~lastError)
  BY <1>1, WasmTypes DEF EndTold, WasmInv, CallInv
<1>3. WasmTypeOK'
  BY <1>1, <1>2 DEF WasmInv, WasmTypeOK
<1>4. PcmInv'
  BY <1>1 DEF WasmInv, PcmInv, Shown
<1>5. CallInv'
  BY <1>1, <1>2 DEF WasmInv, CallInv, NoPcm
<1>6. QED
  BY <1>3, <1>4, <1>5 DEF WasmInv

LEMMA FlushInputStep ==
  ASSUME WasmInv, FlushInput
  PROVE  WasmInv'
<1>1. /\ running = "none" /\ ~ended /\ NoPcm
      /\ UNCHANGED <<bytes, output, current, inputSeen, held, due, taken, finished>>
  BY DEF FlushInput, Accepts
<1>2. CASE inputSeen
  <2>1. running' = "flush" /\ UNCHANGED <<ended, lastError>>
    BY <1>2 DEF FlushInput
  <2>2. WasmTypeOK'
    BY <1>1, <2>1 DEF WasmInv, WasmTypeOK
  <2>3. PcmInv'
    BY <1>1, <2>1 DEF WasmInv, PcmInv, Shown
  <2>4. CallInv'
    BY <1>1, <2>1 DEF WasmInv, CallInv, NoPcm
  <2>5. QED
    BY <2>2, <2>3, <2>4 DEF WasmInv
<1>3. CASE ~inputSeen
  BY <1>1, <1>3, WasmTypes, FailStep DEF FlushInput
<1>4. QED
  BY <1>2, <1>3

LEMMA WasmNextInv == WasmInv /\ [WasmNext]_wasmVars => WasmInv'
<1> SUFFICES ASSUME WasmInv, [WasmNext]_wasmVars  PROVE WasmInv'
  OBVIOUS
<1>1. ASSUME NEW n \in Chunks, PushBytes(n)  PROVE WasmInv'
  BY <1>1, PushBytesStep
<1>2. ASSUME NEW flagged \in BOOLEAN, PushPacket(flagged)  PROVE WasmInv'
  BY <1>2, DecodeStep, WasmTypes DEF PushPacket, Accepts
<1>3. CASE RefusePacket
  BY <1>3, FailStep, WasmTypes DEF RefusePacket, Accepts
<1>4. CASE PumpUnit
  BY <1>4, PumpUnitStep
<1>5. CASE PumpFails
  <2>1. ~ended /\ Fails /\ UNCHANGED <<output, current, inputSeen, held, due, taken, finished>>
    BY <1>5 DEF PumpFails, WasmInv, CallInv
  <2>2. bytes' \in 0 .. MaxPending
    <3>1. bytes' = bytes \/ (bytes >= UnitEnd /\ bytes' = bytes - 2)
      BY <1>5 DEF PumpFails
    <3>2. UnitEnd \in {2, 3}
      BY DEF UnitEnd
    <3>3. QED
      BY <3>1, <3>2, WasmTypes, WasmAssumption
  <2>3. QED
    BY <2>1, <2>2, FailStep, WasmTypes
<1>6. CASE PumpMore
  <2>1. /\ running' = "none"
        /\ UNCHANGED <<bytes, output, current, inputSeen, ended, lastError, held, due, taken, finished>>
    BY <1>6 DEF PumpMore
  <2>2. WasmTypeOK'
    BY <2>1 DEF WasmInv, WasmTypeOK
  <2>3. PcmInv'
    BY <2>1 DEF WasmInv, PcmInv, Shown
  <2>4. CallInv'
    BY <2>1 DEF WasmInv, CallInv, NoPcm
  <2>5. QED
    BY <2>2, <2>3, <2>4 DEF WasmInv
<1>7. ASSUME NEW tail \in 0 .. MaxTail, PumpEnd(tail)  PROVE WasmInv'
  BY <1>7, PumpEndStep
<1>8. CASE DrainFails
  <2>1. /\ ~ended /\ Fails /\ held' = 0
        /\ UNCHANGED <<bytes, output, current, inputSeen, due, taken, finished>>
    BY <1>8 DEF DrainFails, WasmInv, CallInv
  <2>2. QED
    BY <2>1, FailStep, WasmTypes
<1>9. CASE Trap
  <2>1. ~ended /\ Fails /\ UNCHANGED <<bytes, output, current, inputSeen, held, due, taken, finished>>
    BY <1>9 DEF Trap, WasmInv, CallInv
  <2>2. QED
    BY <2>1, FailStep, WasmTypes
<1>10. CASE Expose
  BY <1>10, ExposeStep
<1>11. CASE Consume
  BY <1>11, ConsumeStep
<1>12. CASE FlushEnded
  BY <1>12, FlushEndedStep
<1>13. CASE FlushInput
  BY <1>13, FlushInputStep
<1>14. CASE ResetWasm
  <2>1. WasmInit'
    BY <1>14 DEF ResetWasm, WasmInit
  <2>2. QED
    BY <2>1, WasmInitInv, PTL
<1>15. CASE UNCHANGED wasmVars
  <2>1. UNCHANGED <<bytes, output, current, inputSeen, ended, lastError, held, running, due, taken, finished>>
    BY <1>15 DEF wasmVars
  <2>2. WasmTypeOK'
    BY <2>1 DEF WasmInv, WasmTypeOK
  <2>3. PcmInv'
    BY <2>1 DEF WasmInv, PcmInv, Shown
  <2>4. CallInv'
    BY <2>1 DEF WasmInv, CallInv, NoPcm
  <2>5. QED
    BY <2>2, <2>3, <2>4 DEF WasmInv
<1>16. QED
  BY <1>1, <1>2, <1>3, <1>4, <1>5, <1>6, <1>7, <1>8, <1>9, <1>10, <1>11, <1>12, <1>13, <1>14, <1>15
     DEF WasmNext

\* Every reachable state of the browser's decoder satisfies the invariant.
THEOREM WasmInvariant == WasmSpec => []WasmInv
<1>1. WasmInit => WasmInv
  BY WasmInitInv
<1>2. WasmInv /\ [WasmNext]_wasmVars => WasmInv'
  BY WasmNextInv
<1>3. QED
  BY <1>1, <1>2, PTL DEF WasmSpec

\* The host consumes the frames in the order they were made, and the end of the stream is
\* told only when everything was decoded, drained and shown.
THEOREM EndMeansAllHolds == WasmSpec => []EndMeansAll
<1>1. ASSUME WasmInv  PROVE EndMeansAll
  <2>1. taken = [i \in 1 .. Len(taken) |-> i]
    <3>1. taken \in [1 .. Len(taken) -> Numbers]
      BY <1>1, WasmTypes, LenProperties
    <3>2. \A i \in 1 .. Len(taken) : taken[i] = i
      BY <1>1 DEF WasmInv, PcmInv
    <3>3. QED
      BY <3>1, <3>2
  <2>2. ASSUME finished  PROVE /\ bytes = 0 /\ held = 0 /\ output = <<>>
                               /\ due = Len(taken) + (IF current = 0 THEN 0 ELSE 1)
    <3>1. output = <<>> /\ ~lastError /\ ended
      BY <1>1, <2>2 DEF WasmInv, CallInv
    <3>2. bytes = 0 /\ held = 0 /\ due = Shown + Len(output)
      BY <1>1, <3>1 DEF WasmInv, CallInv, PcmInv
    <3>3. Len(output) = 0
      BY <3>1, EmptyQueue
    <3>4. QED
      BY <1>1, <3>1, <3>2, <3>3, WasmTypes DEF Shown
  <2>3. QED
    BY <2>1, <2>2 DEF EndMeansAll
<1>2. WasmInv => EndMeansAll
  BY <1>1
<1>3. QED
  BY <1>2, WasmInvariant, PTL

-----------------------------------------------------------------------------
(***************************************************************************)
(* GstElement                                                              *)
(***************************************************************************)
\* The units of which every sample has been stamped.
Completed == Len(given) - Len(pending)

\* The element and the base class count the same frames, those of the last units given,
\* and the front one has as many samples left as were not yet stamped from it.
CountInv ==
  /\ Len(pending) <= Len(given) /\ Len(frames) = Len(pending)
  /\ \A i \in 1 .. Len(frames) : frames[i] = given[Completed + i]
  /\ pending # <<>> => anchored < UnitSamples /\ pending[1] = UnitSamples - anchored
  /\ \A i \in 2 .. Len(pending) : pending[i] = UnitSamples
  /\ Len(stamped) = Completed * UnitSamples + anchored

\* Blocks of these sizes have n samples together.
Total(sizes, n) ==
  \E left \in [0 .. Len(sizes) -> Nat] :
    /\ left[0] = n /\ left[Len(sizes)] = 0
    /\ \A i \in 1 .. Len(sizes) : left[i - 1] = sizes[i] + left[i]

\* What waits completes the units that the session has answered, or all and the tail.
AnswerInv ==
  IF given = <<>>
  THEN session \in {None, NewSession} /\ Idle /\ stamped = <<>>
  ELSE /\ session # None /\ ~discont
       /\ IF session.drained
          THEN session.held = 0 /\ Total(blocks, Len(given) * UnitSamples + TailSamples - Len(stamped))
          ELSE /\ session.held = 1 /\ step = None
               /\ Total(blocks, (Len(given) - 1) * UnitSamples - Len(stamped))

GstInv ==
  /\ GstTypeOK /\ stamped \in Seq((1 .. MaxInput \cup {None}) \X Nat)
  /\ \A k \in 1 .. Len(stamped) : stamped[k] = Expected(k)
  /\ stamped # <<>> => hadPcm
  /\ failed => Idle
  /\ ~failed => CountInv /\ AnswerInv

-----------------------------------------------------------------------------
(* Units and samples *)

LEMMA NoBlocks ==
  ASSUME NEW n  PROVE Total(<<>>, n) <=> n = 0
<1>1. ASSUME n = 0  PROVE Total(<<>>, n)
  <2> DEFINE left == [i \in 0 .. 0 |-> 0]
  <2>1. left \in [0 .. Len(<<>>) -> Nat] /\ left[0] = n /\ left[Len(<<>>)] = 0
    BY <1>1
  <2>2. \A i \in 1 .. Len(<<>>) : left[i - 1] = <<>>[i] + left[i]
    OBVIOUS
  <2> HIDE DEF left
  <2>3. QED
    BY <2>1, <2>2 DEF Total
<1>2. QED
  BY <1>1 DEF Total

\* A split of a unit, and what comes after it in a drain.
LEMMA SplitTotal ==
  ASSUME NEW split \in Splits
  PROVE  /\ split \in Seq(Nat \ {0}) /\ Total(split, UnitSamples)
         /\ split \o <<TailSamples>> \in Seq(Nat \ {0})
         /\ Total(split \o <<TailSamples>>, UnitSamples + TailSamples)
<1> DEFINE n == Len(split)
           long == split \o <<TailSamples>>
<1>1. split \in Seq(Nat \ {0}) /\ n \in Nat /\ UnitSamples \in Nat /\ TailSamples \in Nat \ {0}
  BY GstAssumption, LenProperties
<1>2. PICK left \in [0 .. n -> 0 .. UnitSamples] :
        /\ left[0] = UnitSamples /\ left[n] = 0
        /\ \A i \in 1 .. n : left[i - 1] = split[i] + left[i]
  BY GstAssumption DEF AddUp
<1>3. \A i \in 0 .. n : left[i] \in Nat
  BY <1>1, <1>2
<1>4. left \in [0 .. n -> Nat]
  BY <1>2, <1>3
<1>5. Total(split, UnitSamples)
  BY <1>2, <1>4 DEF Total
<1>6. /\ long \in Seq(Nat \ {0}) /\ Len(long) = n + 1
      /\ \A i \in 1 .. n + 1 : long[i] = IF i <= n THEN split[i] ELSE TailSamples
  BY <1>1, AppendProperties, ConcatProperties
<1> HIDE DEF n, long
<1> DEFINE more == [i \in 0 .. n + 1 |-> IF i = n + 1 THEN 0 ELSE left[i] + TailSamples]
<1>7. more \in [0 .. n + 1 -> Nat]
  <2> SUFFICES ASSUME NEW i \in 0 .. n + 1, i # n + 1  PROVE left[i] + TailSamples \in Nat
    BY Zenon
  <2>1. i \in 0 .. n
    BY <1>1
  <2>2. QED
    BY <1>1, <1>3, <2>1
<1>8. more[0] = UnitSamples + TailSamples /\ more[n + 1] = 0
  BY <1>1, <1>2
<1>9. ASSUME NEW i \in 1 .. n + 1  PROVE more[i - 1] = long[i] + more[i]
  <2>1. CASE i = n + 1
    BY <1>1, <1>2, <1>6, <2>1
  <2>2. CASE i # n + 1
    <3>1. i \in 1 .. n /\ i - 1 \in 0 .. n /\ i - 1 # n + 1 /\ i - 1 \in 0 .. n + 1 /\ i \in 0 .. n
      BY <1>1, <2>2
    <3>2. left[i - 1] = split[i] + left[i]
      BY <1>2, <3>1
    <3>8. long[i] = split[i]
      BY <1>1, <1>6, <3>1
    <3>3. split[i] \in Nat /\ left[i] \in Nat
      <4>1. split[i] \in Nat \ {0}
        BY <1>1, <3>1, ElementOfSeq DEF n
      <4>2. QED
        BY <1>3, <3>1, <4>1
    <3>4. more[i - 1] = left[i - 1] + TailSamples /\ more[i] = left[i] + TailSamples
      BY <2>2, <3>1
    <3> HIDE DEF more
    <3>5. more[i - 1] = (split[i] + left[i]) + TailSamples
      BY <3>2, <3>4
    <3>6. more[i - 1] = split[i] + (left[i] + TailSamples)
      BY <1>1, <3>3, <3>5
    <3>7. QED
      BY <3>4, <3>6, <3>8
  <2>3. QED
    BY <2>1, <2>2
<1> HIDE DEF more
<1>10. Total(long, UnitSamples + TailSamples)
  BY <1>6, <1>7, <1>8, <1>9 DEF Total
<1>11. QED
  BY <1>1, <1>5, <1>6, <1>10 DEF long

\* A fragment is taken from the front of the blocks.
LEMMA FragmentTaken ==
  ASSUME NEW q \in Seq(Nat \ {0}), q # <<>>, NEW n, Total(q, n),
         NEW f \in 1 .. Head(q), NEW r,
         r = IF f = Head(q) THEN Tail(q) ELSE <<Head(q) - f>> \o Tail(q)
  PROVE  r \in Seq(Nat \ {0}) /\ Total(r, n - f)
<1> DEFINE m == Len(q)
<1>1. m \in Nat /\ m > 0 /\ Head(q) = q[1] /\ q[1] \in Nat \ {0}
  BY LenProperties, EmptySeq, ElementOfSeq
<1>2. /\ Tail(q) \in Seq(Nat \ {0}) /\ Len(Tail(q)) = m - 1
      /\ \A i \in 1 .. m - 1 : Tail(q)[i] = q[i + 1]
  BY <1>1, HeadTailProperties
<1>3. PICK left \in [0 .. m -> Nat] :
        /\ left[0] = n /\ left[m] = 0
        /\ \A i \in 1 .. m : left[i - 1] = q[i] + left[i]
  BY DEF Total
<1>4. \A i \in 1 .. m : q[i] \in Nat
  BY ElementOfSeq
<1>5. n = q[1] + left[1] /\ left[1] \in Nat
  <2>1. 1 \in 1 .. m /\ 1 - 1 = 0 /\ 1 \in 0 .. m
    BY <1>1
  <2>2. left[1 - 1] = q[1] + left[1]
    BY <1>3, <2>1
  <2>3. QED
    BY <1>3, <2>1, <2>2
<1> HIDE DEF m
<1>6. CASE f = Head(q)
  <2> DEFINE rest == [i \in 0 .. m - 1 |-> left[i + 1]]
  <2>1. r = Tail(q)
    BY <1>6
  <2>2. rest \in [0 .. m - 1 -> Nat]
    BY <1>1, <1>3
  <2>3. rest[0] = n - f /\ rest[m - 1] = 0
    BY <1>1, <1>3, <1>5, <1>6
  <2>4. ASSUME NEW i \in 1 .. m - 1  PROVE rest[i - 1] = Tail(q)[i] + rest[i]
    BY <1>1, <1>2, <1>3
  <2> HIDE DEF rest
  <2>5. \A i \in 1 .. m - 1 : rest[i - 1] = r[i] + rest[i]
    BY <2>1, <2>4
  <2>6. Len(r) = m - 1 /\ r \in Seq(Nat \ {0})
    BY <1>2, <2>1
  <2>7. Total(r, n - f)
    <3> SUFFICES \E some \in [0 .. Len(r) -> Nat] :
          /\ some[0] = n - f /\ some[Len(r)] = 0
          /\ \A i \in 1 .. Len(r) : some[i - 1] = r[i] + some[i]
      BY DEF Total
    <3>1. /\ rest \in [0 .. Len(r) -> Nat] /\ rest[0] = n - f /\ rest[Len(r)] = 0
          /\ \A i \in 1 .. Len(r) : rest[i - 1] = r[i] + rest[i]
      BY <2>2, <2>3, <2>5, <2>6
    <3>2. QED
      BY <3>1
  <2>8. QED
    BY <2>6, <2>7
<1>7. CASE f < Head(q)
  <2> DEFINE rest == [i \in 0 .. m |-> IF i = 0 THEN n - f ELSE left[i]]
             front == <<Head(q) - f>>
  <2>1. r = front \o Tail(q) /\ Head(q) - f \in Nat \ {0}
    BY <1>1, <1>7
  <2>2. front \in Seq(Nat \ {0}) /\ Len(front) = 1 /\ front[1] = Head(q) - f
    BY <2>1
  <2> HIDE DEF front
  <2>3. /\ r \in Seq(Nat \ {0}) /\ Len(r) = 1 + (m - 1)
        /\ \A i \in 1 .. 1 + (m - 1) : r[i] = IF i <= 1 THEN front[i] ELSE Tail(q)[i - 1]
    <3>1. /\ front \o Tail(q) \in Seq(Nat \ {0})
          /\ Len(front \o Tail(q)) = Len(front) + Len(Tail(q))
          /\ \A i \in 1 .. Len(front) + Len(Tail(q)) : (front \o Tail(q))[i] =
                IF i <= Len(front) THEN front[i] ELSE Tail(q)[i - Len(front)]
      BY <1>2, <2>2, ConcatProperties, ZenonT(30)
    <3>2. QED
      BY <1>2, <2>1, <2>2, <3>1
  <2>4. Len(r) = m /\ \A i \in 1 .. m : r[i] = IF i = 1 THEN Head(q) - f ELSE q[i]
    BY <1>1, <1>2, <2>2, <2>3
  <2>5. rest \in [0 .. m -> Nat] /\ rest[0] = n - f /\ rest[m] = 0
    BY <1>1, <1>3, <1>5, <1>7, SMTT(30)
  <2>6. ASSUME NEW i \in 1 .. m  PROVE rest[i - 1] = r[i] + rest[i]
    <3>1. CASE i = 1
      <4>1. rest[0] = n - f /\ rest[1] = left[1] /\ r[1] = q[1] - f
        BY <1>1, <2>4
      <4>2. QED
        BY <1>1, <1>5, <1>7, <3>1, <4>1
    <3>2. CASE i > 1
      <4>1. rest[i - 1] = left[i - 1] /\ rest[i] = left[i]
        BY <1>1, <3>2
      <4>2. r[i] = q[i]
        BY <1>1, <2>4, <3>2
      <4>3. left[i - 1] = q[i] + left[i]
        BY <1>3
      <4> HIDE DEF rest
      <4>4. QED
        BY <4>1, <4>2, <4>3
    <3>3. i = 1 \/ i > 1
      BY <1>1
    <3> HIDE DEF rest
    <3>4. QED
      BY <3>1, <3>2, <3>3
  <2> HIDE DEF rest
  <2>7. Total(r, n - f)
    <3> SUFFICES \E some \in [0 .. Len(r) -> Nat] :
          /\ some[0] = n - f /\ some[Len(r)] = 0
          /\ \A i \in 1 .. Len(r) : some[i - 1] = r[i] + some[i]
      BY DEF Total
    <3>1. /\ rest \in [0 .. Len(r) -> Nat] /\ rest[0] = n - f /\ rest[Len(r)] = 0
          /\ \A i \in 1 .. Len(r) : rest[i - 1] = r[i] + rest[i]
      BY <2>4, <2>5, <2>6
    <3>2. QED
      BY <3>1
  <2>8. QED
    BY <2>3, <2>7
<1>8. f = Head(q) \/ f < Head(q)
  BY <1>1
<1>9. QED
  BY <1>6, <1>7, <1>8

LEMMA BlocksPositive ==
  ASSUME NEW q \in Seq(Nat \ {0}), q # <<>>, NEW n \in Int, Total(q, n)
  PROVE  n >= Head(q) /\ Head(q) \in Nat \ {0}
<1>1. Len(q) \in Nat /\ Len(q) > 0 /\ q[1] \in Nat \ {0} /\ Head(q) = q[1]
  BY LenProperties, EmptySeq, ElementOfSeq
<1>2. PICK left \in [0 .. Len(q) -> Nat] :
        /\ left[0] = n /\ left[Len(q)] = 0
        /\ \A i \in 1 .. Len(q) : left[i - 1] = q[i] + left[i]
  BY DEF Total
<1>3. 1 \in 1 .. Len(q) /\ 1 \in 0 .. Len(q) /\ 1 - 1 = 0
  BY <1>1
<1>4. left[1 - 1] = q[1] + left[1] /\ left[1] \in Nat
  BY <1>2, <1>3
<1>5. QED
  BY <1>1, <1>2, <1>3, <1>4

\* The place of a sample of the d-th unit, from 0, and of one behind it.
LEMMA UnitOfSample ==
  ASSUME NEW d \in Nat, NEW u \in Nat \ {0}, NEW r \in 0 .. u - 1
  PROVE  (d * u + r) \div u = d /\ (d * u + r) % u = r
<1> DEFINE k == d * u + r
           q == k \div u
           m == k % u
           a == d - q
<1>1. d * u \in Nat /\ k \in Nat
  OBVIOUS
<1>2. q \in Int /\ m \in 0 .. u - 1 /\ k = u * q + m
  BY <1>1
<1>3. a \in Int /\ a * u = d * u - u * q /\ u * q \in Int
  BY <1>2
<1> HIDE DEF q, m, a
<1>4. a * u = m - r
  BY <1>1, <1>2, <1>3
<1>5. CASE a >= 1
  <2>1. a * u >= u
    BY <1>3, <1>5, Z3
  <2>2. QED
    BY <1>2, <1>4, <2>1
<1>6. CASE a <= -1
  <2>1. a * u <= -u
    BY <1>3, <1>6, Z3
  <2>2. QED
    BY <1>2, <1>4, <2>1
<1>7. CASE a = 0
  <2>1. q = d
    BY <1>2, <1>7 DEF a
  <2>2. m = r
    BY <1>2, <1>3, <1>4, <1>7
  <2>3. QED
    BY <2>1, <2>2 DEF q, m
<1>8. QED
  BY <1>3, <1>5, <1>6, <1>7

LEMMA UnitBounds ==
  ASSUME NEW d \in Nat, NEW u \in Nat \ {0}, NEW k \in Nat
  PROVE  /\ k < d * u => k \div u \in 0 .. d - 1
         /\ k >= d * u => k \div u >= d
<1> DEFINE q == k \div u
           m == k % u
<1>1. q \in Int /\ m \in 0 .. u - 1 /\ k = q * u + m /\ q * u \in Int /\ d * u \in Nat
  OBVIOUS
<1> HIDE DEF q, m
<1>2. CASE q < 0
  <2>1. q * u <= -u
    BY <1>1, <1>2, Z3
  <2>2. QED
    BY <1>1, <2>1
<1>3. ASSUME k < d * u, q >= d  PROVE FALSE
  <2>1. q * u >= d * u
    BY <1>1, <1>3, Z3
  <2>2. QED
    BY <1>1, <1>3, <2>1
<1>4. ASSUME k >= d * u, q < d  PROVE FALSE
  <2>1. q * u + u <= d * u
    BY <1>1, <1>4, Z3
  <2>2. QED
    BY <1>1, <1>4, <2>1
<1>5. QED
  BY <1>1, <1>2, <1>3, <1>4 DEF q

LEMMA OneMoreUnit ==
  ASSUME NEW d \in Int, NEW u \in Nat
  PROVE  d * u \in Int /\ (d + 1) * u = d * u + u /\ (d - 1) * u = d * u - u /\ 0 * u = 0
OBVIOUS

\* What the k-th sample of a segment should carry: a sample of the d-th unit from 0, a
\* sample of the tail, and any sample of a unit given when one more is.
LEMMA ExpectedInUnit ==
  ASSUME given \in Seq(1 .. MaxInput), NEW d \in Nat, d < Len(given),
         NEW r \in 0 .. UnitSamples - 1, NEW k, k = d * UnitSamples + r + 1
  PROVE  Expected(k) = <<given[d + 1], r + 1>>
<1>1. UnitSamples \in Nat \ {0} /\ Len(given) \in Nat
  BY GstAssumption, LenProperties
<1>2. d * UnitSamples \in Nat
  BY <1>1
<1>3. k - 1 = d * UnitSamples + r
  BY <1>1, <1>2
<1>4. (k - 1) \div UnitSamples = d /\ (k - 1) % UnitSamples = r
  BY <1>1, <1>3, UnitOfSample
<1>5. d + 1 <= Len(given)
  BY <1>1
<1>6. QED
  BY <1>4, <1>5 DEF Expected

LEMMA ExpectedInTail ==
  ASSUME given \in Seq(1 .. MaxInput), NEW k \in Nat, k > Len(given) * UnitSamples
  PROVE  Expected(k) = <<None, k - Len(given) * UnitSamples>>
<1>1. UnitSamples \in Nat \ {0} /\ Len(given) \in Nat
  BY GstAssumption, LenProperties
<1>2. Len(given) * UnitSamples \in Nat
  BY <1>1
<1>3. k - 1 \in Nat /\ k - 1 >= Len(given) * UnitSamples
  BY <1>2
<1> DEFINE d == (k - 1) \div UnitSamples
<1>4. d >= Len(given)
  BY <1>1, <1>3, UnitBounds
<1>5. d \in Int
  BY <1>1, <1>3
<1>6. ~(d + 1 <= Len(given))
  BY <1>1, <1>4, <1>5
<1>7. QED
  BY <1>6 DEF Expected

LEMMA ExpectedKept ==
  ASSUME given \in Seq(1 .. MaxInput), NEW u \in 1 .. MaxInput, given' = Append(given, u),
         NEW k \in Nat \ {0}, k <= Len(given) * UnitSamples
  PROVE  Expected(k)' = Expected(k)
<1>1. UnitSamples \in Nat \ {0} /\ Len(given) \in Nat
  BY GstAssumption, LenProperties
<1>2. Len(given) * UnitSamples \in Nat
  BY <1>1
<1>3. k - 1 \in Nat /\ k - 1 < Len(given) * UnitSamples
  BY <1>2
<1> DEFINE d == (k - 1) \div UnitSamples
<1>4. d \in 0 .. Len(given) - 1
  BY <1>1, <1>3, UnitBounds
<1>5. Len(given') = Len(given) + 1 /\ \A i \in 1 .. Len(given) : given'[i] = given[i]
  BY AppendProperties
<1> HIDE DEF d
<1>6. /\ d + 1 \in 1 .. Len(given) /\ d + 1 <= Len(given) /\ d + 1 <= Len(given')
      /\ given'[d + 1] = given[d + 1]
  BY <1>1, <1>4, <1>5
<1>7. QED
  BY <1>6 DEF Expected, d

-----------------------------------------------------------------------------
(* The inductive step, action by action *)

LEMMA GstInitInv ==
  ASSUME GstInit  PROVE GstInv
<1>1. GstTypeOK
  <2>1. session \in {None} \cup [held : 0 .. 1, drained : BOOLEAN]
    BY DEF GstInit, NewSession
  <2>2. /\ pending \in Seq(1 .. UnitSamples) /\ frames \in Seq(1 .. MaxInput)
        /\ blocks \in Seq(Nat \ {0}) /\ given \in Seq(1 .. MaxInput)
    BY EmptySeq DEF GstInit
  <2>3. next \in 1 .. MaxInput + 1 /\ segment \in 0 .. MaxSegment /\ anchored \in Nat
    BY GstAssumption DEF GstInit
  <2>4. QED
    BY <2>1, <2>2, <2>3 DEF GstInit, GstTypeOK
<1>2. Len(stamped) = 0 /\ Len(pending) = 0 /\ Len(frames) = 0 /\ Len(given) = 0
  BY DEF GstInit
<1>3. CountInv
  BY <1>2, GstAssumption DEF GstInit, CountInv, Completed
<1>4. AnswerInv
  BY DEF GstInit, AnswerInv, Idle
<1>5. QED
  BY <1>1, <1>2, <1>3, <1>4 DEF GstInit, GstInv

\* A segment begins with nothing counted.
LEMMA FreshSegment ==
  ASSUME GstTypeOK', NewSegment, pending' = <<>>, frames' = <<>>, anchored' = 0,
         session' \in {None, NewSession}, Idle'
  PROVE  GstInv'
<1>1. Len(stamped') = 0 /\ Len(pending') = 0 /\ Len(frames') = 0 /\ Len(given') = 0
  BY DEF NewSegment
<1>2. CountInv'
  BY <1>1, GstAssumption DEF NewSegment, CountInv, Completed
<1>3. AnswerInv'
  BY DEF NewSegment, AnswerInv, NewSession
<1>4. QED
  BY <1>1, <1>2, <1>3 DEF NewSegment, GstInv

\* The unit is counted at the end, and what it answers is a unit that was held before.
LEMMA HandleFrameStep ==
  ASSUME GstInv, NEW split \in Splits, HandleFrame(split)
  PROVE  GstInv'
<1> DEFINE G == Len(given)
           P == Len(pending)
           n == Len(stamped)
<1>1. /\ CountInv /\ AnswerInv /\ Idle /\ ~failed /\ blocks = <<>> /\ step = None
      /\ stamped \in Seq((1 .. MaxInput \cup {None}) \X Nat)
      /\ stamped' = stamped /\ failed' = failed /\ step' = step /\ hadPcm' = hadPcm
  BY DEF GstInv, HandleFrame, Idle
<1>2. /\ pending \in Seq(1 .. UnitSamples) /\ frames \in Seq(1 .. MaxInput) /\ anchored \in Nat
      /\ given \in Seq(1 .. MaxInput) /\ next \in 1 .. MaxInput + 1
      /\ UnitSamples \in Nat \ {0} /\ MaxInput \in Nat
  BY GstAssumption DEF GstInv, GstTypeOK
<1>3. G \in Nat /\ P \in Nat /\ n \in Nat /\ P <= G /\ Len(frames) = P
  BY <1>1, <1>2, LenProperties DEF CountInv
<1>4. /\ next \in 1 .. MaxInput /\ UnitSamples \in 1 .. UnitSamples
      /\ given' = Append(given, next) /\ frames' = Append(frames, next)
      /\ pending' = Append(pending, UnitSamples) /\ anchored' = anchored
  BY <1>2 DEF HandleFrame
<1>5. /\ given' \in Seq(1 .. MaxInput) /\ Len(given') = G + 1
      /\ \A i \in 1 .. G : given'[i] = given[i]
      /\ given'[G + 1] = next
  BY <1>2, <1>4, AppendProperties
<1>6. /\ frames' \in Seq(1 .. MaxInput) /\ Len(frames') = P + 1
      /\ \A i \in 1 .. P : frames'[i] = frames[i]
      /\ frames'[P + 1] = next
  BY <1>2, <1>3, <1>4, AppendProperties
<1>7. /\ pending' \in Seq(1 .. UnitSamples) /\ Len(pending') = P + 1
      /\ \A i \in 1 .. P : pending'[i] = pending[i]
      /\ pending'[P + 1] = UnitSamples
  BY <1>2, <1>4, AppendProperties
<1>8. /\ G * UnitSamples \in Nat /\ (G - 1) * UnitSamples = G * UnitSamples - UnitSamples
      /\ 0 * UnitSamples = 0
  BY <1>2, <1>3
<1>9. IF given = <<>> THEN n = 0 /\ G = 0 /\ HeldUnits = 0
      ELSE n = (G - 1) * UnitSamples /\ HeldUnits = 1
  <2>1. CASE given = <<>>
    BY <1>1, <2>1 DEF AnswerInv, HeldUnits, NewSession
  <2>2. CASE given # <<>>
    <3>1. session # None /\ ~discont /\ ~session.drained
      BY <1>1, <2>2 DEF AnswerInv, HandleFrame
    <3>2. session.held = 1 /\ Total(<<>>, (G - 1) * UnitSamples - n)
      BY <1>1, <2>2, <3>1 DEF AnswerInv
    <3>3. (G - 1) * UnitSamples - n = 0
      BY <3>2, NoBlocks
    <3>4. HeldUnits = 1
      BY <3>1, <3>2 DEF HeldUnits
    <3>5. (G - 1) * UnitSamples \in Int
      BY <1>2, <1>8
    <3> DEFINE a == (G - 1) * UnitSamples
    <3>6. n = a
      <4>1. a - n = 0 /\ a \in Int
        BY <3>3, <3>5
      <4> HIDE DEF a
      <4>2. QED
        BY <1>3, <4>1
    <3>7. QED
      BY <2>2, <3>4, <3>6
  <2>3. QED
    BY <2>1, <2>2
<1>10. n <= G * UnitSamples
  BY <1>2, <1>3, <1>8, <1>9
<1>11. split \in Seq(Nat \ {0}) /\ Total(split, UnitSamples)
  BY SplitTotal
<1>12. /\ session' = [held |-> 1, drained |-> FALSE] /\ discont' = FALSE
       /\ blocks' = IF given = <<>> THEN <<>> ELSE split
  BY <1>9 DEF HandleFrame, Answer
<1>13. session' # None /\ session'.held = 1 /\ ~session'.drained
  <2>1. session' \in [held : Nat, drained : BOOLEAN]
    BY <1>12
  <2>2. session'.held = 1 /\ ~session'.drained
    BY <1>12
  <2>3. QED
    BY <2>1, <2>2, GstAssumption, Zenon
<1>14. GstTypeOK'
  <2>1. blocks' \in Seq(Nat \ {0})
    BY <1>11, <1>12, EmptySeq
  <2>2. next' \in 1 .. MaxInput + 1
    BY <1>2, <1>4 DEF HandleFrame
  <2>3. session' \in {None} \cup [held : 0 .. 1, drained : BOOLEAN]
    BY <1>12
  <2>4. QED
    BY <1>5, <1>6, <1>7, <1>12, <2>1, <2>2, <2>3 DEF GstInv, GstTypeOK, HandleFrame
<1>15. ASSUME NEW k \in 1 .. Len(stamped')  PROVE (stamped[k] = Expected(k))'
  <2>1. k \in Nat \ {0} /\ k <= G * UnitSamples /\ k \in 1 .. Len(stamped)
    BY <1>1, <1>3, <1>8, <1>10
  <2>2. Expected(k)' = Expected(k)
    BY <1>2, <1>4, <2>1, ExpectedKept
  <2>3. stamped[k] = Expected(k)
    BY <2>1 DEF GstInv
  <2>4. QED
    BY <1>1, <2>2, <2>3
<1>16. CountInv'
  <2>1. Completed' = Completed /\ Completed = G - P
    BY <1>3, <1>5, <1>7 DEF Completed
  <2>2. P = 0 => anchored = 0
    <3>1. n = Completed * UnitSamples + anchored
      BY <1>1 DEF CountInv
    <3>2. SUFFICES ASSUME P = 0  PROVE anchored = 0
      OBVIOUS
    <3>3. Completed = G
      BY <1>3, <2>1, <3>2
    <3>4. n = G * UnitSamples + anchored
      BY <3>1, <3>3
    <3>5. QED
      BY <1>2, <1>3, <1>8, <1>9, <3>4
  <2>3. anchored' < UnitSamples /\ pending'[1] = UnitSamples - anchored'
    <3>1. CASE P = 0
      BY <1>2, <1>4, <1>7, <2>2, <3>1
    <3>2. CASE P > 0
      <4>1. pending # <<>>
        BY <3>2
      <4>2. anchored < UnitSamples /\ pending[1] = UnitSamples - anchored
        BY <1>1, <4>1 DEF CountInv
      <4>3. QED
        BY <1>3, <1>4, <1>7, <3>2, <4>2
    <3>3. QED
      BY <1>3, <3>1, <3>2
  <2>4. \A i \in 2 .. Len(pending') : pending'[i] = UnitSamples
    <3> SUFFICES ASSUME NEW i \in 2 .. P + 1  PROVE pending'[i] = UnitSamples
      BY <1>7
    <3>1. CASE i = P + 1
      BY <1>7, <3>1
    <3>2. CASE i # P + 1
      <4>1. i \in 2 .. P /\ i \in 1 .. P
        BY <1>3, <3>2
      <4>2. pending[i] = UnitSamples
        BY <1>1, <4>1 DEF CountInv
      <4>3. QED
        BY <1>7, <4>1, <4>2
    <3>3. QED
      BY <3>1, <3>2
  <2>5. \A i \in 1 .. Len(frames') : frames'[i] = given'[Completed + i]
    <3> SUFFICES ASSUME NEW i \in 1 .. P + 1  PROVE frames'[i] = given'[Completed + i]
      BY <1>6
    <3>1. CASE i = P + 1
      BY <1>3, <1>5, <1>6, <2>1, <3>1
    <3>2. CASE i # P + 1
      <4>1. i \in 1 .. P /\ Completed + i \in 1 .. G
        BY <1>3, <2>1, <3>2
      <4>2. frames[i] = given[Completed + i]
        BY <1>1, <1>3, <4>1 DEF CountInv
      <4>3. QED
        BY <1>5, <1>6, <4>1, <4>2
    <3>3. QED
      BY <3>1, <3>2
  <2>6. Len(stamped') = Completed' * UnitSamples + anchored'
    BY <1>1, <1>4, <2>1 DEF CountInv
  <2>7. QED
    BY <1>3, <1>5, <1>6, <1>7, <2>1, <2>3, <2>4, <2>5, <2>6 DEF CountInv
<1>17. AnswerInv'
  <2>1. given' # <<>>
    BY <1>3, <1>5
  <2>2. Total(blocks', (Len(given') - 1) * UnitSamples - Len(stamped'))
    <3>1. (Len(given') - 1) * UnitSamples = G * UnitSamples
      BY <1>3, <1>5
    <3>2. CASE given = <<>>
      <4>1. blocks' = <<>> /\ G * UnitSamples - n = 0
        BY <1>8, <1>9, <1>12, <3>2
      <4>2. QED
        BY <1>1, <3>1, <4>1, NoBlocks
    <3>3. CASE given # <<>>
      <4>1. blocks' = split
        BY <1>12, <3>3
      <4>2. n = G * UnitSamples - UnitSamples
        BY <1>8, <1>9, <3>3
      <4>3. G * UnitSamples - n = UnitSamples
        BY <1>2, <1>8, <4>2
      <4>4. QED
        BY <1>1, <1>11, <3>1, <4>1, <4>3
    <3>4. QED
      BY <3>2, <3>3
  <2>3. QED
    BY <1>1, <1>12, <1>13, <2>1, <2>2 DEF AnswerInv
<1>18. QED
  BY <1>1, <1>14, <1>15, <1>16, <1>17 DEF GstInv

\* The samples of a fragment are stamped after those before it.
LEMMA StampsAdded ==
  ASSUME GstInv, NEW f \in Nat, stamped' = stamped \o Stamps(f)
  PROVE  /\ stamped' \in Seq((1 .. MaxInput \cup {None}) \X Nat)
         /\ Len(stamped') = Len(stamped) + f /\ Len(stamped) \in Nat
         /\ \A k \in 1 .. Len(stamped) : stamped'[k] = stamped[k]
         /\ \A i \in 1 .. f : stamped'[Len(stamped) + i] =
              IF frames = <<>> THEN <<None, anchored + i>> ELSE <<frames[1], anchored + i>>
<1> DEFINE S == (1 .. MaxInput \cup {None}) \X Nat
           n == Len(stamped)
           more == Stamps(f)
<1>1. stamped \in Seq(S) /\ n \in Nat /\ anchored \in Nat /\ frames \in Seq(1 .. MaxInput)
  BY LenProperties DEF GstInv, GstTypeOK
<1>2. frames # <<>> => Head(frames) = frames[1] /\ frames[1] \in 1 .. MaxInput
  <2>1. frames # <<>> => Len(frames) \in Nat \ {0}
    BY <1>1, EmptySeq
  <2>2. ASSUME frames # <<>>  PROVE Head(frames) = frames[1] /\ frames[1] \in 1 .. MaxInput
    <3>1. 1 \in 1 .. Len(frames)
      BY <2>1, <2>2
    <3>2. frames[1] \in 1 .. MaxInput
      BY <1>1, <3>1, ElementOfSeq, Zenon
    <3>3. QED
      BY <1>1, <2>2, <3>2
  <2>3. QED
    BY <2>2
<1>3. more = [i \in 1 .. f |-> IF frames = <<>> THEN <<None, anchored + i>>
                               ELSE <<frames[1], anchored + i>>]
  BY <1>2 DEF Stamps
<1> HIDE DEF more
<1>4. ASSUME NEW i \in 1 .. f  PROVE more[i] \in S
  BY <1>1, <1>2, <1>3
<1>5. more \in [1 .. f -> S]
  BY <1>3, <1>4
<1> HIDE DEF S
<1>6. more \in Seq(S) /\ Len(more) = f
  BY <1>5
<1>7. /\ stamped \o more \in Seq(S)
      /\ Len(stamped \o more) = n + Len(more)
      /\ \A i \in 1 .. n + Len(more) : (stamped \o more)[i] =
           IF i <= n THEN stamped[i] ELSE more[i - n]
  BY <1>1, <1>6, ConcatProperties
<1>8. ASSUME NEW i \in 1 .. f  PROVE stamped'[n + i] = more[i]
  <2>1. n + i \in 1 .. n + Len(more) /\ ~(n + i <= n) /\ (n + i) - n = i
    BY <1>1, <1>6
  <2>2. QED
    BY <1>7, <2>1 DEF more
<1>9. ASSUME NEW k \in 1 .. n  PROVE stamped'[k] = stamped[k]
  <2>1. k \in 1 .. n + Len(more) /\ k <= n
    BY <1>1, <1>6
  <2>2. QED
    BY <1>7, <2>1 DEF more
<1>10. stamped' = stamped \o more
  BY DEF more
<1>11. QED
  BY <1>1, <1>3, <1>6, <1>7, <1>8, <1>9, <1>10 DEF S

\* What is left of the blocks, and that it answers what is left to stamp.
LEMMA RestAnswers ==
  ASSUME GstInv, blocks # <<>>
  PROVE  /\ ~failed /\ given # <<>> /\ CountInv /\ AnswerInv /\ session # None /\ ~discont
         /\ session.drained \/ pending # <<>>
         /\ Fragment \in Nat \ {0} /\ Fragment <= Head(blocks) /\ Rest \in Seq(Nat \ {0})
         /\ \A total \in Int : Total(blocks, total) => Total(Rest, total - Fragment)
<1> DEFINE n == Len(stamped)
           G == Len(given)
<1>1. ~failed /\ given # <<>> /\ CountInv /\ AnswerInv
  BY DEF GstInv, AnswerInv, Idle
<1>2. session # None /\ ~discont
  BY <1>1 DEF AnswerInv
<1>3. /\ blocks \in Seq(Nat \ {0}) /\ pending \in Seq(1 .. UnitSamples) /\ anchored \in Nat
      /\ n \in Nat /\ G \in Nat /\ UnitSamples \in Nat \ {0}
  BY GstAssumption, LenProperties DEF GstInv, GstTypeOK
<1>4. Head(blocks) \in Nat \ {0}
  BY <1>3, HeadTailProperties
<1>5. pending # <<>> => Head(pending) \in 1 .. UnitSamples
  BY <1>3, HeadTailProperties
<1>6. Fragment \in Nat \ {0} /\ Fragment <= Head(blocks)
  BY <1>3, <1>4, <1>5 DEF Fragment, Least
<1>7. /\ Rest \in Seq(Nat \ {0})
      /\ \A total \in Int : Total(blocks, total) => Total(Rest, total - Fragment)
  <2>1. Rest \in Seq(Nat \ {0})
    <3>1. Tail(blocks) \in Seq(Nat \ {0})
      BY <1>3, HeadTailProperties
    <3>2. Fragment < Head(blocks) => <<Head(blocks) - Fragment>> \in Seq(Nat \ {0})
      BY <1>4, <1>6
    <3>3. CASE Fragment = Head(blocks)
      BY <3>1, <3>3 DEF Rest
    <3>4. CASE Fragment # Head(blocks)
      <4>1. Fragment < Head(blocks)
        BY <1>4, <1>6, <3>4
      <4> DEFINE front == <<Head(blocks) - Fragment>>
      <4>2. Rest = front \o Tail(blocks)
        BY <3>4 DEF Rest
      <4>3. front \in Seq(Nat \ {0})
        BY <3>2, <4>1
      <4> HIDE DEF front
      <4>4. QED
        BY <3>1, <4>2, <4>3, ConcatProperties
    <3>5. QED
      BY <3>3, <3>4
  <2>2. ASSUME NEW total \in Int, Total(blocks, total)  PROVE Total(Rest, total - Fragment)
    <3>1. Fragment \in 1 .. Head(blocks)
      BY <1>4, <1>6
    <3>2. Rest = IF Fragment = Head(blocks) THEN Tail(blocks)
                 ELSE <<Head(blocks) - Fragment>> \o Tail(blocks)
      BY DEF Rest
    <3> HIDE DEF Rest
    <3>3. QED
      BY <1>3, <2>2, <3>1, <3>2, FragmentTaken, Zenon
  <2>3. QED
    BY <2>1, <2>2
<1>8. ASSUME ~session.drained, pending = <<>>  PROVE FALSE
  <2>1. Total(blocks, (G - 1) * UnitSamples - n)
    BY <1>1, <1>8 DEF AnswerInv
  <2>2. Len(pending) = 0 /\ Completed = G
    BY <1>3, <1>8 DEF Completed
  <2>3. n = G * UnitSamples + anchored
    BY <1>1, <2>2 DEF CountInv
  <2>4. G * UnitSamples \in Nat /\ (G - 1) * UnitSamples = G * UnitSamples - UnitSamples
    BY <1>3
  <2>5. (G - 1) * UnitSamples - n < 0 /\ (G - 1) * UnitSamples - n \in Int
    BY <1>3, <2>3, <2>4
  <2>6. (G - 1) * UnitSamples - n >= Head(blocks)
    BY <1>3, <2>1, <2>5, BlocksPositive
  <2>7. QED
    BY <1>4, <2>5, <2>6
<1>9. QED
  BY <1>1, <1>2, <1>6, <1>7, <1>8

\* The session, and what waits, after a fragment.
LEMMA FragmentAnswered ==
  ASSUME GstInv, blocks # <<>>, blocks' = Rest, stamped' = stamped \o Stamps(Fragment),
         session' = session, discont' = discont, step' = step, given' = given
  PROVE  AnswerInv'
<1> DEFINE n == Len(stamped)
           G == Len(given)
           total == IF session.drained THEN G * UnitSamples + TailSamples - n
                    ELSE (G - 1) * UnitSamples - n
<1>1. /\ given # <<>> /\ session # None /\ ~discont /\ AnswerInv /\ Fragment \in Nat
      /\ \A t \in Int : Total(blocks, t) => Total(Rest, t - Fragment)
  BY RestAnswers
<1>2. G \in Nat /\ n \in Nat /\ UnitSamples \in Nat /\ TailSamples \in Nat
  BY GstAssumption, LenProperties DEF GstInv, GstTypeOK
<1>3. Len(stamped') = n + Fragment
  BY <1>1, StampsAdded
<1>4. G * UnitSamples \in Int /\ (G - 1) * UnitSamples \in Int
  BY <1>2
<1>5. total \in Int /\ Total(blocks, total)
  BY <1>1, <1>2, <1>4 DEF AnswerInv
<1>6. Total(blocks', total - Fragment)
  BY <1>1, <1>5
<1>7. CASE session.drained
  <2>1. total - Fragment = G * UnitSamples + TailSamples - Len(stamped')
    BY <1>1, <1>2, <1>3, <1>4, <1>7
  <2>2. QED
    BY <1>1, <1>6, <1>7, <2>1 DEF AnswerInv
<1>8. CASE ~session.drained
  <2>1. total - Fragment = (G - 1) * UnitSamples - Len(stamped')
    BY <1>1, <1>2, <1>3, <1>4, <1>8
  <2>2. QED
    BY <1>1, <1>6, <1>8, <2>1 DEF AnswerInv
<1>9. QED
  BY <1>7, <1>8

\* A fragment of the front unit, or its last.
LEMMA PushFragmentStep ==
  ASSUME GstInv, PushFragment
  PROVE  GstInv'
<1> DEFINE G == Len(given)
           P == Len(pending)
           n == Len(stamped)
           f == Fragment
           D == Completed
<1>1. /\ blocks # <<>> /\ pending # <<>> /\ blocks' = Rest /\ stamped' = stamped \o Stamps(f)
      /\ hadPcm' = TRUE
      /\ session' = session /\ auto' = auto /\ discont' = discont /\ step' = step
      /\ failed' = failed /\ next' = next /\ segment' = segment /\ given' = given
  BY DEF PushFragment
<1>2. /\ ~failed /\ CountInv /\ f \in Nat \ {0} /\ Rest \in Seq(Nat \ {0})
  BY <1>1, RestAnswers
<1>3. /\ pending \in Seq(1 .. UnitSamples) /\ frames \in Seq(1 .. MaxInput) /\ anchored \in Nat
      /\ given \in Seq(1 .. MaxInput) /\ UnitSamples \in Nat \ {0}
  BY GstAssumption DEF GstInv, GstTypeOK
<1>4. /\ G \in Nat /\ P \in Nat \ {0} /\ n \in Nat /\ P <= G /\ Len(frames) = P
      /\ D = G - P /\ n = D * UnitSamples + anchored
  BY <1>1, <1>2, <1>3, LenProperties, EmptySeq DEF CountInv, Completed, GstInv
<1>5. anchored < UnitSamples /\ pending[1] = UnitSamples - anchored /\ Head(pending) = pending[1]
  BY <1>1, <1>2, <1>3 DEF CountInv
<1>6. f <= UnitSamples - anchored
  <2>1. Head(blocks) \in Nat \ {0}
    BY <1>1, HeadTailProperties DEF GstInv, GstTypeOK
  <2>2. QED
    BY <1>1, <1>3, <1>5, <2>1 DEF Fragment, Least
<1> HIDE DEF f, D
<1>7. frames # <<>> /\ frames[1] = given[D + 1] /\ D \in Nat /\ D < G
  <2>1. frames # <<>> /\ 1 \in 1 .. Len(frames)
    BY <1>4
  <2>2. QED
    BY <1>2, <1>4, <2>1 DEF CountInv, D
<1>8. /\ stamped' \in Seq((1 .. MaxInput \cup {None}) \X Nat)
      /\ Len(stamped') = n + f
      /\ \A k \in 1 .. n : stamped'[k] = stamped[k]
      /\ \A i \in 1 .. f : stamped'[n + i] = <<frames[1], anchored + i>>
  BY <1>1, <1>2, <1>7, StampsAdded
<1>9. ASSUME NEW k \in 1 .. Len(stamped')  PROVE (stamped[k] = Expected(k))'
  <2>1. Expected(k)' = Expected(k)
    BY <1>1 DEF Expected
  <2>2. CASE k <= n
    <3>1. k \in 1 .. n
      BY <1>2, <1>4, <1>8, <2>2
    <3>2. stamped[k] = Expected(k)
      BY <3>1 DEF GstInv
    <3>3. QED
      BY <1>8, <2>1, <3>1, <3>2
  <2>3. CASE ~(k <= n)
    <3> DEFINE i == k - n
               r == anchored + i - 1
    <3>1. i \in 1 .. f /\ n + i = k
      BY <1>2, <1>4, <1>8, <2>3
    <3>2. r \in 0 .. UnitSamples - 1 /\ r + 1 = anchored + i
      BY <1>2, <1>3, <1>6, <3>1
    <3>3. D * UnitSamples \in Nat
      BY <1>3, <1>7
    <3>4. k = D * UnitSamples + r + 1
      BY <1>3, <1>4, <3>1, <3>3
    <3>5. stamped'[k] = <<frames[1], anchored + i>>
      BY <1>8, <3>1
    <3> HIDE DEF i, r
    <3>6. Expected(k) = <<given[D + 1], r + 1>>
      BY <1>3, <1>7, <3>2, <3>4, ExpectedInUnit
    <3>7. QED
      BY <1>7, <2>1, <3>2, <3>5, <3>6
  <2>4. QED
    BY <2>2, <2>3
<1>10. AnswerInv'
  BY <1>1, FragmentAnswered DEF f
<1>11. CASE f = Head(pending)
  <2>1. pending' = Tail(pending) /\ frames' = Tail(frames) /\ anchored' = 0
    BY <1>11 DEF PushFragment, f
  <2>2. /\ pending' \in Seq(1 .. UnitSamples) /\ Len(pending') = P - 1
        /\ \A i \in 1 .. P - 1 : pending'[i] = pending[i + 1]
    BY <1>1, <1>3, <2>1, HeadTailProperties
  <2>3. /\ frames' \in Seq(1 .. MaxInput) /\ Len(frames') = P - 1
        /\ \A i \in 1 .. P - 1 : frames'[i] = frames[i + 1]
    BY <1>3, <1>4, <1>7, <2>1, HeadTailProperties
  <2>4. GstTypeOK'
    BY <1>1, <1>2, <2>1, <2>2, <2>3 DEF GstInv, GstTypeOK
  <2>5. CountInv'
    <3>1. Completed' = D + 1 /\ P - 1 <= G
      BY <1>1, <1>4, <2>2 DEF Completed
    <3>2. ASSUME NEW i \in 1 .. P - 1  PROVE frames'[i] = given[D + 1 + i]
      <4>1. i + 1 \in 1 .. P /\ D + (i + 1) = D + 1 + i
        BY <1>4, <1>7
      <4>2. frames[i + 1] = given[D + (i + 1)]
        BY <1>2, <1>4, <4>1 DEF CountInv, D
      <4>3. QED
        BY <2>3, <4>1, <4>2
    <3>3. ASSUME NEW i \in 1 .. P - 1  PROVE pending'[i] = UnitSamples
      <4>1. i + 1 \in 2 .. P
        BY <1>4
      <4>2. QED
        BY <1>2, <2>2, <4>1 DEF CountInv
    <3>4. pending' # <<>> => anchored' < UnitSamples /\ pending'[1] = UnitSamples - anchored'
      <4>1. SUFFICES ASSUME pending' # <<>>  PROVE pending'[1] = UnitSamples
        BY <1>3, <2>1
      <4>2. P - 1 > 0
        <5>1. Len(pending') \in Nat \ {0}
          BY <2>2, <4>1, EmptySeq
        <5>2. QED
          BY <2>2, <5>1
      <4>3. 1 \in 1 .. P - 1
        BY <1>4, <4>2
      <4>4. QED
        BY <3>3, <4>3
    <3>5. Len(stamped') = (D + 1) * UnitSamples + 0
      <4>1. D * UnitSamples \in Nat /\ (D + 1) * UnitSamples = D * UnitSamples + UnitSamples
        BY <1>3, <1>7
      <4>2. n + f = (D * UnitSamples + anchored) + (UnitSamples - anchored)
        BY <1>4, <1>5, <1>11
      <4>3. QED
        BY <1>3, <1>8, <4>1, <4>2
    <3>6. QED
      BY <1>1, <2>1, <2>2, <2>3, <3>1, <3>2, <3>3, <3>4, <3>5 DEF CountInv
  <2>6. QED
    BY <1>1, <1>2, <1>8, <1>9, <1>10, <2>4, <2>5 DEF GstInv
<1>12. CASE f # Head(pending)
  <2>1. pending' = [pending EXCEPT ![1] = @ - f] /\ frames' = frames /\ anchored' = anchored + f
    BY <1>12 DEF PushFragment, f
  <2>2. f < UnitSamples - anchored /\ 1 \in 1 .. P /\ pending[1] - f \in 1 .. UnitSamples
    BY <1>2, <1>3, <1>4, <1>5, <1>6, <1>12
  <2>3. /\ pending' \in Seq(1 .. UnitSamples) /\ Len(pending') = P
        /\ \A i \in 1 .. P : pending'[i] = IF i = 1 THEN pending[1] - f ELSE pending[i]
    <3>1. pending' = [pending EXCEPT ![1] = pending[1] - f]
      BY <2>1
    <3>2. QED
      BY <1>3, <2>2, <3>1, ExceptSeq
  <2>4. GstTypeOK'
    BY <1>1, <1>2, <1>3, <2>1, <2>3 DEF GstInv, GstTypeOK
  <2>5. CountInv'
    <3>1. Completed' = D
      BY <1>1, <1>4, <2>3 DEF Completed
    <3>2. anchored' < UnitSamples /\ pending'[1] = UnitSamples - anchored'
      BY <1>2, <1>3, <1>5, <2>1, <2>2, <2>3
    <3>3. \A i \in 2 .. P : pending'[i] = UnitSamples
      <4> SUFFICES ASSUME NEW i \in 2 .. P  PROVE pending'[i] = UnitSamples
        OBVIOUS
      <4>1. i \in 1 .. P /\ i # 1
        BY <1>4
      <4>2. QED
        BY <1>2, <2>3, <4>1 DEF CountInv
    <3>4. \A i \in 1 .. P : frames'[i] = given'[D + i]
      BY <1>1, <1>2, <1>4, <2>1 DEF CountInv, D
    <3>5. Len(stamped') = D * UnitSamples + anchored'
      <4>1. D * UnitSamples \in Nat
        BY <1>3, <1>7
      <4>2. QED
        BY <1>2, <1>3, <1>4, <1>8, <2>1, <4>1, SMTT(30)
    <3>6. QED
      BY <1>1, <1>4, <2>1, <2>3, <3>1, <3>2, <3>3, <3>4, <3>5 DEF CountInv
  <2>6. QED
    BY <1>1, <1>2, <1>8, <1>9, <1>10, <2>4, <2>5 DEF GstInv
<1>13. QED
  BY <1>11, <1>12

\* The tail, when every unit is complete.
LEMMA PushTailStep ==
  ASSUME GstInv, PushTail
  PROVE  GstInv'
<1> DEFINE G == Len(given)
           n == Len(stamped)
           f == Fragment
<1>1. /\ blocks # <<>> /\ pending = <<>> /\ blocks' = Rest /\ stamped' = stamped \o Stamps(f)
      /\ hadPcm' = TRUE /\ frames' = <<>>
      /\ session' = session /\ auto' = auto /\ discont' = discont /\ pending' = pending
      /\ step' = step /\ failed' = failed /\ next' = next /\ segment' = segment
      /\ given' = given
  BY DEF PushTail, elementVars, gstHistory
<1>2. ~failed /\ CountInv /\ f \in Nat \ {0} /\ Rest \in Seq(Nat \ {0})
  BY <1>1, RestAnswers
<1>3. /\ frames \in Seq(1 .. MaxInput) /\ anchored \in Nat
      /\ given \in Seq(1 .. MaxInput) /\ UnitSamples \in Nat \ {0}
  BY GstAssumption DEF GstInv, GstTypeOK
<1>4. Len(pending) = 0 /\ Len(frames) = 0 /\ frames = <<>>
  <2>1. Len(pending) = 0 /\ Len(frames) = 0
    BY <1>1, <1>2 DEF CountInv
  <2>2. QED
    BY <1>3, <2>1, EmptySeq
<1>5. G \in Nat /\ n \in Nat /\ Completed = G /\ n = G * UnitSamples + anchored
  <2>1. G \in Nat /\ n \in Nat
    BY <1>3, LenProperties DEF GstInv
  <2>2. Completed = G
    BY <1>4, <2>1 DEF Completed
  <2>3. QED
    BY <1>2, <2>1, <2>2 DEF CountInv
<1> HIDE DEF f
<1>6. anchored' = anchored + f
  BY <1>4 DEF PushTail, f
<1>7. /\ stamped' \in Seq((1 .. MaxInput \cup {None}) \X Nat)
      /\ Len(stamped') = n + f
      /\ \A k \in 1 .. n : stamped'[k] = stamped[k]
      /\ \A i \in 1 .. f : stamped'[n + i] = <<None, anchored + i>>
  BY <1>1, <1>2, <1>4, StampsAdded
<1>8. ASSUME NEW k \in 1 .. Len(stamped')  PROVE (stamped[k] = Expected(k))'
  <2>1. Expected(k)' = Expected(k)
    BY <1>1 DEF Expected
  <2>2. CASE k <= n
    <3>1. k \in 1 .. n
      BY <1>2, <1>5, <1>7, <2>2
    <3>2. stamped[k] = Expected(k)
      BY <3>1 DEF GstInv
    <3>3. QED
      BY <1>7, <2>1, <3>1, <3>2
  <2>3. CASE ~(k <= n)
    <3> DEFINE i == k - n
    <3>1. i \in 1 .. f /\ n + i = k /\ k \in Nat
      BY <1>2, <1>5, <1>7, <2>3
    <3>2. G * UnitSamples \in Nat
      BY <1>3, <1>5
    <3>3. k > G * UnitSamples /\ k - G * UnitSamples = anchored + i
      BY <1>3, <1>5, <3>1, <3>2
    <3>4. stamped'[k] = <<None, anchored + i>>
      BY <1>7, <3>1
    <3> HIDE DEF i
    <3>5. Expected(k) = <<None, k - G * UnitSamples>>
      BY <1>3, <3>1, <3>3, ExpectedInTail
    <3>6. QED
      BY <2>1, <3>3, <3>4, <3>5
  <2>4. QED
    BY <2>2, <2>3
<1>9. AnswerInv'
  BY <1>1, FragmentAnswered DEF f
<1>10. GstTypeOK'
  <2>1. frames' \in Seq(1 .. MaxInput) /\ anchored' \in Nat
    BY <1>1, <1>2, <1>3, <1>6, EmptySeq
  <2>2. QED
    BY <1>1, <1>2, <2>1 DEF GstInv, GstTypeOK
<1>11. CountInv'
  <2>1. Completed' = G /\ Len(frames') = 0 /\ Len(pending') = 0
    BY <1>1, <1>4, <1>5 DEF Completed
  <2>2. Len(stamped') = G * UnitSamples + anchored'
    <3>1. G * UnitSamples \in Nat
      BY <1>3, <1>5
    <3>2. QED
      BY <1>2, <1>3, <1>5, <1>6, <1>7, <3>1, SMTT(30)
  <2>3. QED
    BY <1>1, <1>5, <2>1, <2>2 DEF CountInv
<1>12. QED
  BY <1>1, <1>2, <1>7, <1>8, <1>9, <1>10, <1>11 DEF GstInv

\* After a failure only the types and what was stamped before it are left to show.
LEMMA RefuseStep ==
  ASSUME GstInv, RefuseFrame \/ RefusePcm \/ FailDrain \/ RefuseFormat
  PROVE  GstInv'
<1>1. failed' = TRUE /\ given' = given /\ stamped' = stamped /\ Idle' /\ (stamped # <<>> => hadPcm')
  <2>1. CASE RefuseFrame
    BY <2>1 DEF RefuseFrame, Idle, gstHistory, GstInv
  <2>2. CASE RefusePcm
    <3>1. stamped # <<>> => hadPcm'
      <4>1. (stamped # <<>> => hadPcm) /\ (hadPcm' = hadPcm \/ hadPcm' = TRUE)
        BY <2>2 DEF RefusePcm, GstInv
      <4>2. CASE hadPcm' = hadPcm
        BY <4>1, <4>2, Zenon
      <4>3. CASE hadPcm' = TRUE
        BY <4>3
      <4>4. QED
        BY <4>1, <4>2, <4>3
    <3>2. failed' = TRUE /\ given' = given /\ stamped' = stamped /\ Idle'
      BY <2>2 DEF RefusePcm, Idle, gstHistory
    <3>3. QED
      BY <3>1, <3>2
  <2>3. CASE FailDrain
    BY <2>3 DEF FailDrain, Idle, gstHistory, baseVars, GstInv
  <2>4. CASE RefuseFormat
    BY <2>4 DEF RefuseFormat, Idle, gstHistory, GstInv
  <2>5. QED
    BY <2>1, <2>2, <2>3, <2>4
<1>2. GstTypeOK'
  <2>1. CASE RefuseFrame
    <3>1. next \in 1 .. MaxInput /\ next' \in 1 .. MaxInput + 1
      BY <2>1, GstAssumption DEF RefuseFrame, GstInv, GstTypeOK
    <3>2. frames' \in Seq(1 .. MaxInput)
      BY <2>1, <3>1, AppendProperties DEF RefuseFrame, GstInv, GstTypeOK
    <3>3. QED
      BY <2>1, <3>1, <3>2 DEF RefuseFrame, GstInv, GstTypeOK, elementVars, gstHistory
  <2>2. CASE RefusePcm
    <3>1. blocks' \in Seq(Nat \ {0}) /\ step' \in {None, "discont"}
      BY <2>2, EmptySeq DEF RefusePcm
    <3>2. hadPcm' \in BOOLEAN
      BY <2>2 DEF RefusePcm, GstInv, GstTypeOK
    <3>3. QED
      BY <2>2, <3>1, <3>2 DEF RefusePcm, GstInv, GstTypeOK, elementVars, gstHistory
  <2>3. CASE FailDrain
    BY <2>3 DEF FailDrain, GstInv, GstTypeOK, baseVars, gstHistory
  <2>4. CASE RefuseFormat
    <3>1. frames' \in Seq(1 .. MaxInput) /\ anchored' \in Nat
      <4>1. CASE UNCHANGED <<frames, anchored>>
        BY <4>1 DEF GstInv, GstTypeOK
      <4>2. CASE frames' = SubSeq(frames, Len(pending) + 1, Len(frames)) /\ anchored' = 0
        <5>1. Len(frames) = Len(pending) /\ Len(frames) \in Nat
          BY <2>4, LenProperties DEF RefuseFormat, GstInv, GstTypeOK, CountInv
        <5>2. frames' = <<>>
          BY <4>2, <5>1, SubSeqEmpty
        <5>3. QED
          BY <4>2, <5>2, EmptySeq
      <4>3. QED
        BY <2>4, <4>1, <4>2 DEF RefuseFormat
    <3>2. QED
      BY <2>4, <3>1 DEF RefuseFormat, GstInv, GstTypeOK, elementVars, gstHistory
  <2>5. QED
    BY <2>1, <2>2, <2>3, <2>4
<1>3. \A k \in 1 .. Len(stamped') : (stamped[k] = Expected(k))'
  BY <1>1 DEF GstInv, Expected
<1>4. QED
  BY <1>1, <1>2, <1>3 DEF GstInv

\* A drain gives the unit held and the tail, once.
LEMMA DrainStep ==
  ASSUME GstInv, NEW split \in Splits, EndOfStream(split) \/ Discont(split)
  PROVE  GstInv'
<1> DEFINE G == Len(given)
           n == Len(stamped)
<1>1. /\ Idle /\ ~failed /\ given # <<>> /\ CountInv /\ AnswerInv /\ HandleDrain(split)
      /\ auto' = auto /\ discont' = discont /\ pending' = pending /\ frames' = frames
      /\ anchored' = anchored /\ hadPcm' = hadPcm /\ failed' = failed /\ next' = next
      /\ segment' = segment /\ given' = given /\ stamped' = stamped
      /\ step' \in {None, "discont"}
  BY DEF EndOfStream, Discont, GstInv, Idle, baseVars, gstHistory
<1>2. session # None /\ ~discont /\ blocks = <<>>
  BY <1>1 DEF AnswerInv, Idle
<1>3. G \in Nat /\ n \in Nat /\ UnitSamples \in Nat \ {0} /\ TailSamples \in Nat \ {0}
  BY GstAssumption, LenProperties DEF GstInv, GstTypeOK
<1>4. CASE session.drained
  <2>1. session' = session /\ blocks' = blocks
    BY <1>1, <1>4 DEF HandleDrain
  <2>2. GstTypeOK'
    BY <1>1, <2>1 DEF GstInv, GstTypeOK
  <2>3. CountInv'
    BY <1>1 DEF CountInv, Completed
  <2>4. AnswerInv'
    BY <1>1, <1>4, <2>1 DEF AnswerInv
  <2>5. \A k \in 1 .. Len(stamped') : (stamped[k] = Expected(k))'
    BY <1>1 DEF GstInv, Expected
  <2>6. QED
    BY <1>1, <2>2, <2>3, <2>4, <2>5 DEF GstInv
<1>5. CASE ~session.drained
  <2>1. session.held = 1 /\ Total(<<>>, (G - 1) * UnitSamples - n)
    BY <1>1, <1>2, <1>5 DEF AnswerInv
  <2>2. blocks' = split \o <<TailSamples>> /\ session' = [held |-> 0, drained |-> TRUE]
    BY <1>1, <1>2, <1>5, <2>1 DEF HandleDrain, DrainBlocks
  <2>3. /\ blocks' \in Seq(Nat \ {0}) /\ Total(blocks', UnitSamples + TailSamples)
    BY <2>2, SplitTotal
  <2>4. G * UnitSamples + TailSamples - n = UnitSamples + TailSamples
    <3>1. (G - 1) * UnitSamples - n = 0
      BY <2>1, NoBlocks
    <3>2. (G - 1) * UnitSamples = G * UnitSamples - UnitSamples /\ G * UnitSamples \in Nat
      BY <1>3
    <3>3. (G * UnitSamples - UnitSamples) - n = 0
      BY <3>1, <3>2
    <3>4. QED
      BY <1>3, <3>2, <3>3
  <2>5. GstTypeOK'
    BY <1>1, <2>2, <2>3 DEF GstInv, GstTypeOK
  <2>6. CountInv'
    BY <1>1 DEF CountInv, Completed
  <2>7. session' # None /\ session'.held = 0 /\ session'.drained
    <3>1. session' \in [held : Nat, drained : BOOLEAN]
      BY <2>2
    <3>2. session'.held = 0 /\ session'.drained
      BY <2>2
    <3>3. QED
      BY <3>1, <3>2, GstAssumption, Zenon
  <2>8. AnswerInv'
    BY <1>1, <1>2, <2>3, <2>4, <2>7 DEF AnswerInv
  <2>9. \A k \in 1 .. Len(stamped') : (stamped[k] = Expected(k))'
    BY <1>1 DEF GstInv, Expected
  <2>10. QED
    BY <1>1, <2>5, <2>6, <2>8, <2>9 DEF GstInv
<1>6. QED
  BY <1>4, <1>5

\* The types after a reset.
LEMMA ResetType ==
  ASSUME GstTypeOK, NewSegment, session' \in {None, NewSession}, pending' = <<>>,
         frames' = <<>>, anchored' = 0, auto' = auto, discont' \in BOOLEAN,
         hadPcm' \in BOOLEAN, failed' \in BOOLEAN, blocks' = <<>>, step' = None, next' = next
  PROVE  GstTypeOK'
<1>1. session' \in {None} \cup [held : 0 .. 1, drained : BOOLEAN]
  <2>1. NewSession \in [held : 0 .. 1, drained : BOOLEAN]
    BY DEF NewSession
  <2>2. QED
    BY <2>1
<1>2. /\ pending' \in Seq(1 .. UnitSamples) /\ frames' \in Seq(1 .. MaxInput)
      /\ blocks' \in Seq(Nat \ {0}) /\ given' \in Seq(1 .. MaxInput)
  BY EmptySeq DEF NewSegment
<1>3. segment' \in 0 .. MaxSegment
  BY GstAssumption DEF NewSegment, GstTypeOK
<1>4. QED
  BY <1>1, <1>2, <1>3 DEF GstTypeOK

\* Before a segment ends with a flagged buffer everything has come out: no drain of units
\* is without PCM, so that the base class calls flush.
LEMMA AfterDrainStep ==
  ASSUME GstInv, AfterDrain
  PROVE  GstInv'
<1> DEFINE G == Len(given)
           n == Len(stamped)
<1>1. /\ step = "discont" /\ blocks = <<>> /\ step' = None /\ blocks' = blocks /\ FlushIfStarted
      /\ frames' = <<>> /\ anchored' = 0 /\ NewSegment
      /\ auto' = auto /\ hadPcm' = hadPcm /\ failed' = failed /\ next' = next
  BY DEF AfterDrain
<1>2. "discont" # None
  BY GstAssumption
<1>3. given # <<>> /\ session # None /\ session.drained /\ AnswerInv
  BY <1>1, <1>2 DEF GstInv, AnswerInv, Idle
<1>4. G \in Nat /\ n \in Nat /\ UnitSamples \in Nat /\ TailSamples \in Nat \ {0}
  BY GstAssumption, LenProperties DEF GstInv, GstTypeOK
<1>5. n > 0
  <2>1. G * UnitSamples + TailSamples - n = 0
    BY <1>1, <1>3, NoBlocks DEF AnswerInv
  <2>2. G * UnitSamples \in Nat
    BY <1>4
  <2>3. QED
    BY <1>4, <2>1, <2>2
<1>6. hadPcm
  <2>1. stamped # <<>>
    BY <1>5
  <2>2. QED
    BY <2>1 DEF GstInv
<1>7. session' = NewSession /\ discont' = TRUE /\ pending' = <<>>
  BY <1>1, <1>3, <1>6 DEF FlushIfStarted, FlushElement, Flushed
<1>8. GstTypeOK /\ hadPcm \in BOOLEAN /\ failed \in BOOLEAN
  BY DEF GstInv, GstTypeOK
<1>9. GstTypeOK'
  BY <1>1, <1>7, <1>8, ResetType
<1>10. Idle'
  BY <1>1 DEF Idle
<1>11. QED
  BY <1>1, <1>7, <1>9, <1>10, FreshSegment

LEMMA ResetStep ==
  ASSUME GstInv, FlushStop \/ SetFormat \/ Restart
  PROVE  GstInv'
<1>1. /\ NewSegment /\ session' \in {None, NewSession} /\ pending' = <<>>
      /\ anchored' = 0 /\ auto' = auto /\ discont' \in BOOLEAN /\ failed' \in BOOLEAN
      /\ hadPcm' \in BOOLEAN /\ blocks' = <<>> /\ step' = None /\ next' = next
  BY DEF GstInv, GstTypeOK, FlushStop, FlushAlways, FlushElement, Flushed, SetFormat, Restart, Idle
<1>2. frames' = <<>>
  <2>1. CASE SetFormat
    <3>1. Len(frames) = Len(pending) /\ Len(frames) \in Nat
      BY <2>1, LenProperties DEF SetFormat, GstInv, GstTypeOK, CountInv
    <3>2. frames' = SubSeq(frames, Len(frames) + 1, Len(frames))
      BY <2>1, <3>1 DEF SetFormat
    <3>3. QED
      BY <3>1, <3>2, SubSeqEmpty
  <2>2. CASE FlushStop \/ Restart
    BY <2>2 DEF FlushStop, Restart
  <2>3. QED
    BY <2>1, <2>2
<1>3. Idle' /\ GstTypeOK
  BY <1>1 DEF Idle, GstInv
<1>4. GstTypeOK'
  BY <1>1, <1>2, <1>3, ResetType
<1>5. QED
  BY <1>1, <1>2, <1>3, <1>4, FreshSegment

LEMMA GstInvStep ==
  ASSUME GstInv, [GstNext]_gstVars
  PROVE  GstInv'
<1>1. ASSUME NEW split \in Splits, HandleFrame(split)  PROVE GstInv'
  BY <1>1, HandleFrameStep
<1>2. ASSUME NEW split \in Splits, EndOfStream(split) \/ Discont(split)  PROVE GstInv'
  BY <1>2, DrainStep
<1>3. CASE RefuseFrame \/ RefusePcm \/ FailDrain \/ RefuseFormat
  BY <1>3, RefuseStep
<1>4. CASE PushFragment
  BY <1>4, PushFragmentStep
<1>5. CASE PushTail
  BY <1>5, PushTailStep
<1>6. CASE AfterDrain
  BY <1>6, AfterDrainStep
<1>7. CASE FlushStop \/ SetFormat \/ Restart
  BY <1>7, ResetStep
<1>8. CASE UNCHANGED gstVars
  BY <1>8 DEF gstVars, elementVars, baseVars, gstHistory, GstInv, GstTypeOK, CountInv, AnswerInv,
     Completed, Expected, Idle
<1>9. QED
  BY <1>1, <1>2, <1>3, <1>4, <1>5, <1>6, <1>7, <1>8 DEF GstNext

-----------------------------------------------------------------------------
(* The results *)

\* The invariant of the element, for every number of buffers and of resets, every size of
\* a unit and of a tail, and every way of cutting them into blocks.
THEOREM GstInvariant == GstSpec => []GstInv
<1>1. GstInit => GstInv
  BY GstInitInv
<1>2. GstInv /\ [GstNext]_gstVars => GstInv'
  BY GstInvStep
<1>3. QED
  BY <1>1, <1>2, PTL DEF GstSpec

\* The values are of the kinds the element and the base class keep.
THEOREM GstTypeCorrect == GstSpec => []GstTypeOK
<1>1. GstInv => GstTypeOK
  BY DEF GstInv
<1>2. QED
  BY <1>1, GstInvariant, PTL

\* plugin.rs, push_frames and flush: every sample carries the time of the unit it came
\* from, the tail that of what follows the last, and between calls the element and the
\* base class count the same frames.
THEOREM PcmKeepsItsTimeHolds == GstSpec => []PcmKeepsItsTime
<1>1. GstInv => PcmKeepsItsTime
  BY DEF GstInv, PcmKeepsItsTime, CountInv
<1>2. QED
  BY <1>1, GstInvariant, PTL
=============================================================================
