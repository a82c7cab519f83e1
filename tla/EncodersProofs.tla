---------------------------- MODULE EncodersProofs ----------------------------
(***************************************************************************)
(* Proofs about Encoders, for every set of files, every delay of the       *)
(* encoder and any number of copies.                                       *)
(***************************************************************************)
EXTENDS Encoders, SequenceTheorems, TLAPS

EncPcs    == {"open", "read", "drain", "done", "failed", "crashed"}
Times     == Nat \union {NoPts}
EncFrames == [frame : Nat, pts : Times]

TypeOK ==
    /\ job \in Jobs /\ file \in File /\ delay \in Nat /\ (job = "picture" => delay = 0)
    /\ pc \in EncPcs /\ fed \in Nat /\ frame_cnt \in Nat
    /\ packet \in {"null", "room", "wild"} /\ pts \in Times
    /\ held \in Seq(EncFrames) /\ written \in Seq(EncFrames)
    /\ failed \in BOOLEAN

\* Everything the encoder was given, by when it leaves.
Everything == written \o held

\* The frame that comes out when x goes in, and those that stay.
Leaves(h, x) == Head(Append(h, x))
Stay(h, x)   == Tail(Append(h, x))

\* A packet that comes out moves its frame; nothing is lost on the way.
LEMMA OneComesOut ==
    ASSUME NEW S, NEW w \in Seq(S), NEW h \in Seq(S), NEW x \in S
    PROVE  /\ Append(h, x) \in Seq(S) /\ Stay(h, x) \in Seq(S)
           /\ Append(w, Leaves(h, x)) \in Seq(S)
           /\ Append(w, Leaves(h, x)) \o Stay(h, x) = Append(w \o h, x)
           /\ w \o Append(h, x) = Append(w \o h, x)
           /\ Len(Append(h, x)) = Len(h) + 1
           /\ Len(Stay(h, x)) = Len(h)
<1>. DEFINE q == Append(h, x)
<1>1. q \in Seq(S) /\ q # <<>> /\ q = h \o <<x>> /\ Len(q) = Len(h) + 1 /\ <<x>> \in Seq(S)
  BY AppendProperties, AppendIsConcat
<1>. HIDE DEF q
<1>2. Head(q) \in S /\ Tail(q) \in Seq(S) /\ <<Head(q)>> \in Seq(S) /\ q = <<Head(q)>> \o Tail(q)
      /\ Len(Tail(q)) = Len(q) - 1
  BY <1>1, HeadTailProperties
<1>3. Append(w, Head(q)) = w \o <<Head(q)>> /\ Append(w, Head(q)) \in Seq(S)
  BY <1>2, AppendIsConcat, AppendProperties
<1>4. (w \o <<Head(q)>>) \o Tail(q) = w \o q BY <1>2, ConcatAssociative
<1>5. w \o q = (w \o h) \o <<x>> BY <1>1, ConcatAssociative
<1>6. (w \o h) \o <<x>> = Append(w \o h, x) /\ Len(h) \in Nat
  <2>1. w \o h \in Seq(S) BY ConcatProperties
  <2>. QED BY <2>1, AppendIsConcat, LenProperties
<1>7. Len(Tail(q)) = Len(h)
  <2>1. \A n \in Nat : (n + 1) - 1 = n OBVIOUS
  <2>. QED BY <1>1, <1>2, <1>6, <2>1
<1>. QED BY <1>1, <1>2, <1>3, <1>4, <1>5, <1>6, <1>7 DEF q, Leaves, Stay


\* What goes in when a frame is read, and when the drain feeds pFrame again.
ReadFrame  == [frame |-> fed + 1, pts |-> IF job = "picture" THEN 1 ELSE frame_cnt]
DrainFrame == [frame |-> fed, pts |-> pts]

LEMMA ReadTakes ==
    ASSUME TypeOK, KeptBack \/ Encoded
    PROVE  /\ pc = "read" /\ pc' = "read" /\ fed < Frames /\ fed' = fed + 1 /\ UNCHANGED <<input, failed>>
           /\ ReadFrame \in EncFrames /\ pts' = ReadFrame.pts /\ ReadFrame.frame = fed + 1
           /\ Everything' = Append(Everything, ReadFrame)
           /\ held' \in Seq(EncFrames) /\ written' \in Seq(EncFrames)
           /\ Len(held') = (IF Len(held) < delay THEN Len(held) + 1 ELSE Len(held))
<1>. DEFINE x == ReadFrame
<1>1. x \in EncFrames /\ held \in Seq(EncFrames) /\ written \in Seq(EncFrames) /\ Len(held) \in Nat /\ delay \in Nat
  BY LenProperties DEF TypeOK, EncFrames, ReadFrame, Times
<1>2. /\ pc = "read" /\ pc' = "read" /\ fed < Frames /\ fed' = fed + 1 /\ UNCHANGED <<input, failed>>
      /\ pts' = (IF job = "picture" THEN 1 ELSE frame_cnt)
  BY DEF KeptBack, Encoded, Reads
<1>3. Frame = x /\ pts' = x.pts /\ x.frame = fed + 1 BY <1>2 DEF Frame, ReadFrame
<1>. HIDE DEF x
<1>4. CASE KeptBack
  <2>1. held' = Append(held, x) /\ written' = written /\ Len(held) < delay
    BY <1>3, <1>4 DEF KeptBack
  <2>2. /\ Everything' = Append(Everything, x)
        /\ held' \in Seq(EncFrames) /\ written' \in Seq(EncFrames)
        /\ Len(held') = (IF Len(held) < delay THEN Len(held) + 1 ELSE Len(held))
    BY <1>1, <2>1, OneComesOut DEF Everything
  <2>. QED BY <1>1, <1>2, <1>3, <2>2 DEF x
<1>5. CASE Encoded
  <2>1. held' = Stay(held, x) /\ written' = Append(written, Leaves(held, x))
        /\ Len(held) >= delay
    BY <1>3, <1>5 DEF Encoded, Leaves, Stay
  <2>2. ~(Len(held) < delay) BY <1>1, <2>1
  <2>3. /\ Everything' = Append(Everything, x)
        /\ held' \in Seq(EncFrames) /\ written' \in Seq(EncFrames)
        /\ Len(held') = (IF Len(held) < delay THEN Len(held) + 1 ELSE Len(held))
    <3>1. /\ Stay(held, x) \in Seq(EncFrames) /\ Append(written, Leaves(held, x)) \in Seq(EncFrames)
          /\ Append(written, Leaves(held, x)) \o Stay(held, x) = Append(written \o held, x)
          /\ Len(Stay(held, x)) = Len(held)
      BY <1>1, OneComesOut
    <3>2. Everything' = written' \o held' /\ Everything = written \o held BY DEF Everything
    <3>. QED BY <2>1, <2>2, <3>1, <3>2
  <2>. QED BY <1>1, <1>2, <1>3, <2>3 DEF x
<1>. QED BY <1>4, <1>5

LEMMA DrainTakes ==
    ASSUME TypeOK, DrainKeptBack \/ DrainEncoded
    PROVE  /\ pc = "drain" /\ pc' = "drain" /\ UNCHANGED <<input, fed, frame_cnt, pts, failed>>
           /\ DrainFrame \in EncFrames /\ DrainFrame.frame = fed /\ DrainFrame.pts = pts
           /\ Everything' = Append(Everything, DrainFrame)
           /\ held' \in Seq(EncFrames) /\ written' \in Seq(EncFrames)
<1>. DEFINE x == DrainFrame
<1>1. x \in EncFrames /\ held \in Seq(EncFrames) /\ written \in Seq(EncFrames) /\ x.frame = fed /\ x.pts = pts
  BY DEF TypeOK, EncFrames, DrainFrame, Times
<1>2. pc = "drain" /\ pc' = "drain" /\ UNCHANGED <<input, fed, frame_cnt, pts, failed>>
  BY DEF DrainKeptBack, DrainEncoded, Goto
<1>3. Frame = x BY <1>2 DEF Frame, DrainFrame
<1>. HIDE DEF x
<1>4. CASE DrainKeptBack
  <2>1. held' = Append(held, x) /\ written' = written
    BY <1>3, <1>4 DEF DrainKeptBack
  <2>2. Everything' = Append(Everything, x) /\ held' \in Seq(EncFrames) /\ written' \in Seq(EncFrames)
    BY <1>1, <2>1, OneComesOut DEF Everything
  <2>. QED BY <1>1, <1>2, <2>2 DEF x
<1>5. CASE DrainEncoded
  <2>1. held' = Stay(held, x) /\ written' = Append(written, Leaves(held, x))
    BY <1>3, <1>5 DEF DrainEncoded, Leaves, Stay
  <2>2. Everything' = Append(Everything, x) /\ held' \in Seq(EncFrames) /\ written' \in Seq(EncFrames)
    <3>1. /\ Stay(held, x) \in Seq(EncFrames) /\ Append(written, Leaves(held, x)) \in Seq(EncFrames)
          /\ Append(written, Leaves(held, x)) \o Stay(held, x) = Append(written \o held, x)
          /\ Len(Stay(held, x)) = Len(held)
      BY <1>1, OneComesOut
    <3>2. Everything' = written' \o held' /\ Everything = written \o held BY DEF Everything
    <3>. QED BY <2>1, <3>1, <3>2
  <2>. QED BY <1>1, <1>2, <2>2 DEF x
<1>. QED BY <1>4, <1>5

\* The steps that take nothing.
Other == OpenFails \/ Open \/ EncodeFails \/ WildPacket \/ EndOfFile \/ DrainFails

LEMMA OtherTakesNothing == ASSUME Other PROVE UNCHANGED <<input, held, written>> /\ Everything' = Everything
BY DEF Other, OpenFails, Open, EncodeFails, WildPacket, EndOfFile, DrainFails, Everything

LEMMA InitType == Init => TypeOK
<1>. SUFFICES ASSUME Init PROVE TypeOK
  OBVIOUS
<1>1. <<>> \in Seq(EncFrames) OBVIOUS
<1>. QED BY <1>1, FilesAssumption, BoundsAssumption DEF Init, TypeOK, EncPcs, Times

LEMMA NextType == ASSUME TypeOK, [Next]_vars PROVE TypeOK'
<1>1. CASE KeptBack \/ Encoded
  <2>1. frame_cnt' \in Nat /\ packet' \in {"null", "room", "wild"}
    BY <1>1 DEF KeptBack, Encoded, Counts, PacketAfter, TypeOK
  <2>2. pts' \in Times
    <3>. DEFINE x == ReadFrame
    <3>1. x \in EncFrames /\ pts' = x.pts BY <1>1, ReadTakes
    <3>. HIDE DEF x
    <3>2. x.pts \in Times BY <3>1 DEF EncFrames
    <3>. QED BY <3>1, <3>2
  <2>. QED BY <1>1, <2>1, <2>2, ReadTakes DEF TypeOK, input, EncPcs
<1>2. CASE DrainKeptBack \/ DrainEncoded
  <2>1. packet' \in {"null", "room", "wild"}
    BY <1>2 DEF DrainKeptBack, DrainEncoded, PacketAfter
  <2>. QED BY <1>2, <2>1, DrainTakes DEF TypeOK, input, EncPcs
<1>3. CASE Other
  <2>. USE DEF OpenFails, Open, EncodeFails, WildPacket, EndOfFile, DrainFails, Goto, TypeOK
  <2>0. pc' \in EncPcs BY <1>3 DEF Other, EncPcs
  <2>1. fed' \in {fed, fed + 1} /\ failed' \in {failed, TRUE}
    BY <1>3 DEF Other, Reads
  <2>2. frame_cnt' \in Nat BY <1>3 DEF Other, Counts
  <2>3. packet' \in {"null", "room", "wild"} BY <1>3 DEF Other, PacketAfter
  <2>4. fed' \in Nat BY <2>1
  <2>6. failed' \in BOOLEAN BY <2>1
  <2>7. pts' \in Times
    <3>1. pts' = pts \/ pts' = 1 \/ pts' = frame_cnt BY <1>3 DEF Other, Reads
    <3>2. pts \in Times /\ 1 \in Times /\ frame_cnt \in Times BY DEF Times
    <3>. QED BY <3>1, <3>2
  <2>5. UNCHANGED <<job, file, delay, held, written>> BY <1>3, OtherTakesNothing DEF input
  <2>. QED BY <2>0, <2>2, <2>3, <2>4, <2>5, <2>6, <2>7
<1>4. CASE UNCHANGED vars BY <1>4 DEF vars, input, TypeOK
<1>. QED BY <1>1, <1>2, <1>3, <1>4 DEF Next, Other

\* Type correctness of the encoding jobs.
THEOREM EncodersTypeCorrect == Spec => []TypeOK
BY InitType, NextType, PTL DEF Spec

(***************************************************************************)
(* The numbers of the frames.  While the file is read, everything is one   *)
(* frame for each that was fed; the loop that ends by an error has one less*)
(* than it fed; the drain adds copies of the last one.  The encoder fills  *)
(* up to its delay and stays there until the loop ends.                    *)
(***************************************************************************)
Number(i) == IF i < fed THEN i ELSE fed
Numbered  == \A i \in 1 .. Len(Everything) : Everything[i].frame = Number(i)
Enough ==
    /\ pc \in {"open", "read"} => ~failed /\ Len(Everything) = fed
    /\ Len(Everything) + 1 >= fed
    /\ ~failed => Len(Everything) >= fed
Finished ==
    pc = "done" /\ ~failed => fed = file.n + 1 \/ (job = "picture" /\ fed = 1)
Inside ==
    /\ pc = "open" => fed = 0 /\ Len(held) = 0
    /\ pc = "read" \/ (pc = "done" /\ ~failed) => Len(held) = (IF fed < delay THEN fed ELSE delay)
FramesInv == Numbered /\ Enough /\ Finished /\ Inside

\* What one frame more does to everything.
LEMMA OneMore ==
    ASSUME NEW S, NEW l \in Seq(S), NEW x \in S
    PROVE  /\ Append(l, x) \in Seq(S) /\ Len(Append(l, x)) = Len(l) + 1 /\ Len(l) \in Nat
           /\ Append(l, x)[Len(l) + 1] = x
           /\ \A i \in 1 .. Len(l) : Append(l, x)[i] = l[i] /\ i \in Nat /\ 1 <= i /\ i <= Len(l)
           /\ \A i \in 1 .. Len(l) + 1 : i \in 1 .. Len(l) \/ i = Len(l) + 1
BY AppendProperties, LenProperties

LEMMA EverythingType == ASSUME TypeOK PROVE Everything \in Seq(EncFrames) /\ Len(Everything) \in Nat
                                          /\ DOMAIN Everything = 1 .. Len(Everything)
BY ConcatProperties, LenProperties DEF TypeOK, Everything

LEMMA InitFrames == Init => FramesInv
<1>. SUFFICES ASSUME Init PROVE FramesInv
  OBVIOUS
<1>1. Everything = <<>> /\ Len(Everything) = 0 /\ fed = 0 /\ pc = "open" /\ failed = FALSE /\ Len(held) = 0
  BY ConcatEmptySeq DEF Init, Everything
<1>. QED BY <1>1 DEF FramesInv, Numbered, Enough, Finished, Inside

\* The encoder holds one frame more until it is full.
LEMMA Fills ==
    ASSUME NEW d \in Nat, NEW f \in Nat, NEW n \in Nat, NEW m,
           n = (IF f < d THEN f ELSE d), m = (IF n < d THEN n + 1 ELSE n)
    PROVE  m = (IF f + 1 < d THEN f + 1 ELSE d)
OBVIOUS

LEMMA NextFrames == ASSUME TypeOK, FramesInv, [Next]_vars PROVE FramesInv'
<1>0. /\ Everything \in Seq(EncFrames) /\ Len(Everything) \in Nat /\ fed \in Nat /\ delay \in Nat
      /\ Len(held) \in Nat
  BY EverythingType, LenProperties DEF TypeOK
<1>1. CASE KeptBack \/ Encoded
  <2>. DEFINE x == ReadFrame
  <2>1. pc = "read" /\ pc' = "read" /\ fed' = fed + 1 /\ failed' = failed /\ x \in EncFrames
        /\ Everything' = Append(Everything, x) /\ x.frame = fed + 1 /\ delay' = delay
        /\ Len(held') = (IF Len(held) < delay THEN Len(held) + 1 ELSE Len(held))
    BY <1>1, ReadTakes DEF input
  <2>2. ~failed /\ Len(Everything) = fed BY <2>1 DEF FramesInv, Enough
  <2>. HIDE DEF x
  <2>3. Len(Everything') = fed + 1 BY <1>0, <2>1, <2>2, OneMore
  <2>4. Numbered'
    <3>. SUFFICES ASSUME NEW i \in 1 .. fed + 1 PROVE Everything'[i].frame = Number(i)'
      BY <2>3 DEF Numbered
    <3>1. CASE i = fed + 1 BY <1>0, <2>1, <2>2, <3>1, OneMore DEF Number
    <3>2. CASE i \in 1 .. fed
      <4>1. Everything'[i] = Everything[i] BY <1>0, <2>1, <2>2, <3>2, OneMore
      <4>2. Everything[i].frame = Number(i) BY <2>2, <3>2 DEF FramesInv, Numbered
      <4>. QED BY <1>0, <2>1, <3>2, <4>1, <4>2 DEF Number
    <3>. QED BY <1>0, <3>1, <3>2
  <2>5. Enough' BY <1>0, <2>1, <2>2, <2>3 DEF Enough
  <2>6. Inside'
    <3>. DEFINE n == Len(held) m == Len(held')
    <3>1. n = (IF fed < delay THEN fed ELSE delay) BY <2>1 DEF FramesInv, Inside
    <3>2. m = (IF n < delay THEN n + 1 ELSE n) BY <2>1
    <3>. HIDE DEF n, m
    <3>3. n \in Nat BY <1>0 DEF n
    <3>4. m = (IF fed + 1 < delay THEN fed + 1 ELSE delay) BY <1>0, <3>1, <3>2, <3>3, Fills
    <3>. QED BY <2>1, <3>4 DEF Inside, m
  <2>. QED BY <2>1, <2>4, <2>5, <2>6 DEF FramesInv, Finished
<1>2. CASE DrainKeptBack \/ DrainEncoded
  <2>. DEFINE x == DrainFrame
  <2>1. pc' = "drain" /\ fed' = fed /\ failed' = failed /\ x \in EncFrames
        /\ Everything' = Append(Everything, x) /\ x.frame = fed
    BY <1>2, DrainTakes
  <2>. HIDE DEF x
  <2>2. Len(Everything') = Len(Everything) + 1 BY <1>0, <2>1, OneMore
  <2>3. Len(Everything) + 1 >= fed BY DEF FramesInv, Enough
  <2>4. Numbered'
    <3>. SUFFICES ASSUME NEW i \in 1 .. Len(Everything) + 1 PROVE Everything'[i].frame = Number(i)'
      BY <2>2 DEF Numbered
    <3>1. CASE i = Len(Everything) + 1 BY <1>0, <2>1, <2>3, <3>1, OneMore DEF Number
    <3>2. CASE i \in 1 .. Len(Everything)
      <4>1. Everything'[i] = Everything[i] BY <1>0, <2>1, <3>2, OneMore
      <4>. QED BY <2>1, <3>2, <4>1 DEF FramesInv, Numbered, Number
    <3>. QED BY <1>0, <3>1, <3>2
  <2>5. Enough' BY <1>0, <2>1, <2>2, <2>3 DEF Enough, FramesInv
  <2>. QED BY <2>1, <2>4, <2>5 DEF FramesInv, Finished, Inside
<1>3. CASE EncodeFails
  <2>1. pc = "read" /\ pc' \notin {"open", "read"} /\ failed' = TRUE /\ fed' = fed + 1
    BY <1>3 DEF EncodeFails, Reads
  <2>2. Everything' = Everything BY <1>3, OtherTakesNothing DEF Other
  <2>3. Len(Everything) = fed BY <2>1 DEF FramesInv, Enough
  <2>4. Numbered'
    <3>. SUFFICES ASSUME NEW i \in 1 .. fed PROVE Everything[i].frame = Number(i)'
      BY <2>2, <2>3 DEF Numbered
    <3>1. Everything[i].frame = Number(i) BY <2>3 DEF FramesInv, Numbered
    <3>. QED BY <1>0, <2>1, <3>1 DEF Number
  <2>5. Enough' BY <1>0, <2>1, <2>2, <2>3 DEF Enough
  <2>. QED BY <2>1, <2>4, <2>5 DEF FramesInv, Finished, Inside
<1>4. CASE Other /\ ~EncodeFails
  <2>1. fed' = fed /\ Everything' = Everything /\ UNCHANGED <<job, file, delay, held>>
    BY <1>4, OtherTakesNothing DEF Other, OpenFails, Open, WildPacket, EndOfFile, DrainFails, input
  <2>2. Enough'
    BY <1>4, <2>1 DEF FramesInv, Enough, Other, OpenFails, Open, WildPacket, EndOfFile, DrainFails, Goto
  <2>3. Finished'
    <3>1. CASE EndOfFile
      <4>1. pc' = "done" => fed = Frames /\ job # "encoder"
        BY <3>1 DEF EndOfFile, Goto
      <4>. QED BY <2>1, <4>1 DEF Finished, Frames
    <3>2. CASE ~EndOfFile
      BY <1>4, <2>1, <3>2 DEF FramesInv, Finished, Other, OpenFails, Open, WildPacket, DrainFails, Goto
    <3>. QED BY <3>1, <3>2
  <2>4. Inside'
    <3>1. pc' # "open" /\ (pc' = "read" => pc = "open") /\ (pc' = "done" /\ ~failed' => pc = "read")
      BY <1>4 DEF Other, OpenFails, Open, WildPacket, EndOfFile, DrainFails, Goto
    <3>2. pc = "open" => Len(held) = (IF fed < delay THEN fed ELSE delay)
      BY <1>0 DEF FramesInv, Inside
    <3>. QED BY <2>1, <3>1, <3>2 DEF FramesInv, Inside
  <2>. QED BY <2>1, <2>2, <2>3, <2>4 DEF FramesInv, Numbered, Number
<1>5. CASE UNCHANGED vars
  BY <1>5 DEF vars, input, FramesInv, Numbered, Number, Enough, Finished, Inside, Everything
<1>. QED BY <1>1, <1>2, <1>3, <1>4, <1>5 DEF Next, Other

\* Whatever the length of the file and however many frames the encoder holds
\* back, it gets every frame that is read once, in order, and the loop ends
\* only when the whole file was read.
THEOREM FramesAllOnce == Spec => []EachFrameOnce
<1>1. TypeOK /\ FramesInv => EachFrameOnce
  <2>. SUFFICES ASSUME TypeOK, FramesInv PROVE EachFrameOnce
    OBVIOUS
  <2>1. \A i \in DOMAIN Everything : Everything[i].frame = (IF i < fed THEN i ELSE fed)
    BY EverythingType DEF FramesInv, Numbered, Number
  <2>2. ~failed => Len(Everything) >= fed BY DEF FramesInv, Enough
  <2>. QED BY <2>1, <2>2 DEF EachFrameOnce, Everything, FramesInv, Finished, Inside
<1>. QED BY <1>1, InitType, InitFrames, NextType, NextFrames, PTL DEF Spec

(***************************************************************************)
(* The times of the frames.  The encoder job stamps a frame with the number*)
(* of packets that are out, which is how far the frame is beyond what the  *)
(* encoder holds back; the other jobs stamp it with its place.  Copies of  *)
(* the last frame have its time.                                           *)
(***************************************************************************)
Due(k) ==
    CASE job = "picture"                     -> k
      [] job \notin {"picture", "encoder"}   -> k - 1
      [] job = "encoder" /\ k > delay + 1    -> k - 1 - delay
      [] job = "encoder" /\ k <= delay + 1   -> 0

Stamped ==
    \A i \in 1 .. Len(Everything) : Number(i) # 0 => Everything[i].pts = Due(Number(i))
Clock ==
    /\ pc = "open" => frame_cnt = 0
    /\ pc = "read" => frame_cnt = (IF job = "picture" THEN 0 ELSE Due(fed + 1))
    /\ fed # 0 => pts = Due(fed)
StampsInv == Stamped /\ Clock

LEMMA DueRises ==
    ASSUME TypeOK, NEW k \in Nat \ {0}, NEW m \in Nat
    PROVE  /\ Due(k) \in Nat
           /\ k <= m => Due(k) <= Due(m)
           /\ k < m /\ (job # "encoder" \/ m > k + delay) => Due(k) < Due(m)
BY DEF TypeOK, Due

LEMMA InitStamps == Init => StampsInv
<1>. SUFFICES ASSUME Init PROVE StampsInv
  OBVIOUS
<1>1. Everything = <<>> /\ Len(Everything) = 0 /\ fed = 0 /\ pc = "open" /\ frame_cnt = 0
  BY ConcatEmptySeq DEF Init, Everything
<1>. QED BY <1>1 DEF StampsInv, Stamped, Clock

\* The time a frame gets when it is read is the one it is due.
LEMMA ReadDue ==
    ASSUME TypeOK, FramesInv, StampsInv, pc = "read", fed < Frames
    PROVE  ReadFrame.pts = Due(fed + 1)
<1>1. fed \in Nat BY DEF TypeOK
<1>2. CASE job = "picture"
  <2>1. fed = 0 BY <1>1, <1>2 DEF Frames
  <2>. QED BY <1>2, <2>1 DEF ReadFrame, Due
<1>3. CASE job # "picture"
  BY <1>3 DEF ReadFrame, StampsInv, Clock
<1>. QED BY <1>2, <1>3

LEMMA NextStamps == ASSUME TypeOK, FramesInv, StampsInv, [Next]_vars PROVE StampsInv'
<1>0. /\ Everything \in Seq(EncFrames) /\ Len(Everything) \in Nat /\ fed \in Nat /\ delay \in Nat
      /\ frame_cnt \in Nat /\ Len(held) \in Nat
  BY EverythingType, LenProperties DEF TypeOK
<1>1. CASE KeptBack \/ Encoded
  <2>. DEFINE x == ReadFrame
  <2>1. /\ pc = "read" /\ pc' = "read" /\ fed < Frames /\ fed' = fed + 1 /\ UNCHANGED <<job, file, delay>>
        /\ x \in EncFrames /\ Everything' = Append(Everything, x) /\ pts' = x.pts
    BY <1>1, ReadTakes DEF input
  <2>2. Len(Everything) = fed /\ x.pts = Due(fed + 1)
    BY <2>1, ReadDue DEF FramesInv, Enough
  <2>. HIDE DEF x
  <2>3. Len(Everything') = fed + 1 BY <1>0, <2>1, <2>2, OneMore
  <2>4. (\A k : Due(k)' = Due(k)) /\ Due(fed)' = Due(fed') /\ Due(fed + 1)' = Due(fed' + 1) BY <2>1 DEF Due
  <2>5. Stamped'
    <3>. SUFFICES ASSUME NEW i \in 1 .. fed + 1
                  PROVE  Everything'[i].pts = Due(i) /\ Number(i)' = i
      BY <2>3, <2>4 DEF Stamped
    <3>1. Number(i)' = i BY <1>0, <2>1 DEF Number
    <3>2. CASE i = fed + 1
      <4>1. Everything'[i] = x BY <1>0, <2>1, <2>2, <3>2, OneMore
      <4>. QED BY <2>2, <3>1, <3>2, <4>1
    <3>3. CASE i \in 1 .. fed
      <4>1. Everything'[i] = Everything[i] BY <1>0, <2>1, <2>2, <3>3, OneMore
      <4>2. Number(i) = i /\ i # 0 BY <1>0, <3>3 DEF Number
      <4>3. Everything[i].pts = Due(i) BY <2>1, <2>2, <3>3, <4>2 DEF StampsInv, Stamped
      <4>. QED BY <3>1, <4>1, <4>3
    <3>. QED BY <1>0, <3>2, <3>3
  <2>6. frame_cnt' = (IF job' = "picture" THEN 0 ELSE Due(fed + 1)')
    <3>. SUFFICES frame_cnt' = (IF job = "picture" THEN 0 ELSE Due(fed + 2))
      BY <1>0, <2>1, <2>4
    <3>0. frame_cnt = (IF job = "picture" THEN 0 ELSE Due(fed + 1)) BY <2>1 DEF StampsInv, Clock
    <3>1. CASE job = "picture"
      BY <1>1, <3>0, <3>1 DEF KeptBack, Encoded, Counts
    <3>2. CASE job = "encoder"
      <4>1. Len(held) = (IF fed < delay THEN fed ELSE delay) BY <2>1 DEF FramesInv, Inside
      <4>2. CASE KeptBack
        <5>1. Len(held) < delay /\ frame_cnt' = frame_cnt + 0 BY <3>2, <4>2 DEF KeptBack, Counts
        <5>2. fed < delay BY <1>0, <4>1, <5>1
        <5>. QED BY <1>0, <3>0, <3>2, <5>1, <5>2 DEF Due
      <4>3. CASE Encoded
        <5>1. Len(held) >= delay /\ frame_cnt' = frame_cnt + 1 BY <3>2, <4>3 DEF Encoded, Counts
        <5>2. fed >= delay BY <1>0, <4>1, <5>1
        <5>. QED BY <1>0, <3>0, <3>2, <5>1, <5>2 DEF Due
      <4>. QED BY <1>1, <4>2, <4>3
    <3>3. CASE job \notin {"picture", "encoder"}
      <4>1. frame_cnt' = frame_cnt + 1 BY <1>1, <3>3 DEF KeptBack, Encoded, Counts
      <4>. QED BY <1>0, <3>0, <3>3, <4>1 DEF Due
    <3>. QED BY <3>1, <3>2, <3>3
  <2>7. pts' = Due(fed)' BY <2>1, <2>2, <2>4
  <2>. QED BY <2>1, <2>5, <2>6, <2>7 DEF StampsInv, Clock
<1>2. CASE DrainKeptBack \/ DrainEncoded
  <2>. DEFINE x == DrainFrame
  <2>1. /\ pc = "drain" /\ pc' = "drain" /\ UNCHANGED <<job, file, delay, fed, frame_cnt, pts>>
        /\ x \in EncFrames /\ Everything' = Append(Everything, x) /\ x.pts = pts
    BY <1>2, DrainTakes DEF input
  <2>. HIDE DEF x
  <2>2. Len(Everything') = Len(Everything) + 1 /\ Len(Everything) + 1 >= fed
    BY <1>0, <2>1, OneMore DEF FramesInv, Enough
  <2>4. (\A k : Due(k)' = Due(k) /\ Number(k)' = Number(k)) /\ Due(fed)' = Due(fed)
    BY <2>1 DEF Due, Number
  <2>5. Stamped'
    <3>. SUFFICES ASSUME NEW i \in 1 .. Len(Everything) + 1, Number(i) # 0
                  PROVE  Everything'[i].pts = Due(Number(i))
      BY <2>1, <2>2, <2>4 DEF Stamped
    <3>1. CASE i = Len(Everything) + 1
      <4>1. Number(i) = fed BY <1>0, <2>2, <3>1 DEF Number
      <4>2. Everything'[i] = x BY <1>0, <2>1, <3>1, OneMore
      <4>. QED BY <2>1, <4>1, <4>2 DEF StampsInv, Clock
    <3>2. CASE i \in 1 .. Len(Everything)
      <4>1. Everything'[i] = Everything[i] BY <1>0, <2>1, <3>2, OneMore
      <4>. QED BY <3>2, <4>1 DEF StampsInv, Stamped
    <3>. QED BY <1>0, <3>1, <3>2
  <2>. QED BY <2>1, <2>4, <2>5 DEF StampsInv, Clock
<1>3. CASE EncodeFails
  <2>1. /\ pc = "read" /\ fed < Frames /\ pc' \in {"drain", "failed", "done"} /\ fed' = fed + 1
        /\ pts' = ReadFrame.pts
    BY <1>3, <1>0 DEF EncodeFails, Reads, ReadFrame
  <2>2. Everything' = Everything /\ UNCHANGED <<job, file, delay>>
    BY <1>3, OtherTakesNothing DEF Other, input
  <2>3. Len(Everything) = fed BY <2>1 DEF FramesInv, Enough
  <2>4. (\A k : Due(k)' = Due(k)) /\ Due(fed)' = Due(fed') BY <2>2 DEF Due
  <2>5. Stamped'
    <3>. SUFFICES ASSUME NEW i \in 1 .. fed
                  PROVE  Number(i)' = Number(i) /\ Everything[i].pts = Due(Number(i))
      BY <2>2, <2>3, <2>4 DEF Stamped
    <3>1. Number(i) = i /\ Number(i)' = i /\ i # 0 BY <1>0, <2>1 DEF Number
    <3>2. Everything[i].pts = Due(Number(i)) BY <2>1, <2>3, <3>1 DEF StampsInv, Stamped
    <3>. QED BY <3>1, <3>2
  <2>6. pts' = Due(fed)' BY <2>1, <2>4, ReadDue
  <2>. QED BY <2>1, <2>5, <2>6 DEF StampsInv, Clock
<1>4. CASE Other /\ ~EncodeFails
  <2>1. Everything' = Everything /\ UNCHANGED <<job, file, delay, fed, frame_cnt, pts>>
    BY <1>4, OtherTakesNothing DEF Other, OpenFails, Open, WildPacket, EndOfFile, DrainFails, input
  <2>2. (\A k : Due(k)' = Due(k) /\ Number(k)' = Number(k)) /\ Due(fed)' = Due(fed) /\ Due(fed + 1)' = Due(fed + 1)
    BY <2>1 DEF Due, Number
  <2>3. pc' # "open" /\ (pc' = "read" => pc = "open")
    BY <1>4 DEF Other, OpenFails, Open, WildPacket, EndOfFile, DrainFails, Goto
  <2>4. Stamped' BY <2>1, <2>2 DEF StampsInv, Stamped
  <2>5. pc' = "read" => frame_cnt' = (IF job' = "picture" THEN 0 ELSE Due(fed + 1)')
    <3>. SUFFICES ASSUME pc = "open" PROVE frame_cnt = (IF job = "picture" THEN 0 ELSE Due(fed + 1))
      BY <2>1, <2>2, <2>3
    <3>1. fed = 0 /\ frame_cnt = 0 BY DEF FramesInv, Inside, StampsInv, Clock
    <3>2. job # "picture" => Due(1) = 0 BY <1>0 DEF Due
    <3>. QED BY <3>1, <3>2
  <2>. QED BY <2>1, <2>2, <2>3, <2>4, <2>5 DEF StampsInv, Clock
<1>5. CASE UNCHANGED vars
  <2>1. UNCHANGED <<job, file, delay, pc, fed, frame_cnt, pts, Everything>>
    BY <1>5 DEF vars, input, Everything
  <2>2. (\A k : Due(k)' = Due(k) /\ Number(k)' = Number(k)) /\ Due(fed)' = Due(fed) /\ Due(fed + 1)' = Due(fed + 1)
    BY <2>1 DEF Due, Number
  <2>. QED BY <2>1, <2>2 DEF StampsInv, Stamped, Clock
<1>. QED BY <1>1, <1>2, <1>3, <1>4, <1>5 DEF Next, Other

\* The part of everything that is out.
LEMMA WrittenFirst ==
    ASSUME TypeOK, NEW x \in {written[i] : i \in DOMAIN written}
    PROVE  \E i \in 1 .. Len(Everything) : x = Everything[i]
<1>1. written \in Seq(EncFrames) /\ held \in Seq(EncFrames) BY DEF TypeOK
<1>2. PICK i \in DOMAIN written : x = written[i] OBVIOUS
<1>3. i \in 1 .. Len(written) BY <1>1, <1>2
<1>4. Everything[i] = written[i] /\ Len(Everything) = Len(written) + Len(held)
  BY <1>1, <1>3, ConcatProperties DEF Everything
<1>5. i \in 1 .. Len(Everything) BY <1>1, <1>3, <1>4, LenProperties
<1>. QED BY <1>2, <1>4, <1>5

\* The frames that come out have times that do not go back, and that rise
\* where the frames are further apart than what the encoder holds back.
THEOREM StampsDoRise == Spec => []StampsRise
<1>1. TypeOK /\ FramesInv /\ StampsInv => StampsRise
  <2>. SUFFICES ASSUME TypeOK, FramesInv, StampsInv,
                       NEW x \in {written[i] : i \in DOMAIN written},
                       NEW y \in {written[i] : i \in DOMAIN written}, x.frame < y.frame
                PROVE  /\ x.pts <= y.pts
                       /\ (job # "encoder" \/ y.frame > x.frame + delay) => x.pts < y.pts
    BY DEF StampsRise
  <2>1. PICK i \in 1 .. Len(Everything) : x = Everything[i] BY WrittenFirst
  <2>2. PICK j \in 1 .. Len(Everything) : y = Everything[j] BY WrittenFirst
  <2>3. Len(Everything) \in Nat /\ fed \in Nat /\ Everything \in Seq(EncFrames) /\ delay \in Nat
    BY EverythingType DEF TypeOK
  <2>4. x.frame = Number(i) /\ y.frame = Number(j) BY <2>1, <2>2 DEF FramesInv, Numbered
  <2>. DEFINE k == Number(i) m == Number(j)
  <2>5. x \in EncFrames /\ y \in EncFrames BY <2>1, <2>2, <2>3
  <2>6. k \in Nat /\ m \in Nat /\ k < m
    BY <2>4, <2>5 DEF EncFrames
  <2>7. m <= fed /\ k < fed
    <3>1. m <= fed BY <2>2, <2>3 DEF Number
    <3>. HIDE DEF k, m
    <3>. QED BY <2>3, <2>6, <3>1
  <2>8. k # 0
    <3>1. i \in Nat /\ i >= 1 /\ (k = i \/ k = fed) BY <2>3 DEF Number
    <3>. HIDE DEF k
    <3>. QED BY <2>3, <2>7, <3>1
  <2>9. m # 0
    <3>. HIDE DEF k, m
    <3>. QED BY <2>6, <2>8
  <2>12. x.pts = Due(k) /\ Due(m) = y.pts BY <2>1, <2>2, <2>8, <2>9 DEF StampsInv, Stamped
  <2>10. /\ Due(k) <= Due(m) /\ Due(k) \in Nat /\ Due(m) \in Nat
         /\ (job # "encoder" \/ m > k + delay) => Due(k) < Due(m)
    <3>1. k \in Nat \ {0} /\ m \in Nat \ {0} /\ k <= m /\ k < m
      <4>. HIDE DEF k, m
      <4>. QED BY <2>6, <2>8
    <3>. HIDE DEF k, m
    <3>. QED BY <3>1, DueRises
  <2>. HIDE DEF k, m
  <2>11. (job # "encoder" \/ y.frame > x.frame + delay) => (job # "encoder" \/ m > k + delay)
    BY <2>4 DEF k, m
  <2>. QED BY <2>10, <2>11, <2>12
<1>2. Init => TypeOK /\ FramesInv /\ StampsInv BY InitType, InitFrames, InitStamps
<1>3. TypeOK /\ FramesInv /\ StampsInv /\ [Next]_vars => (TypeOK /\ FramesInv /\ StampsInv)'
  BY NextType, NextFrames, NextStamps
<1>. QED BY <1>1, <1>2, <1>3, PTL DEF Spec

=============================================================================
