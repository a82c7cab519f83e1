---------------------------- MODULE DecodersProofs ----------------------------
(***************************************************************************)
(* Proofs about Decoders, for every set of files, every limit, every delay *)
(* of the decoder and every outcome of undefined behaviour.                *)
(***************************************************************************)
EXTENDS Decoders, FiniteSetTheorems, SequenceTheorems, TLAPS

DecPcs == {"open", "read", "drain", "done", "failed", "crashed"}

InputOK ==
    /\ job \in Jobs /\ file \in Seq(Kinds) /\ perPiece \in 1 .. 3 /\ frame \in Int /\ delay \in Nat
    /\ savable \in BOOLEAN /\ (job # "decoderVideoToYuv" => savable)
PlaceOK ==
    /\ pc \in DecPcs /\ pos \in 0 .. Len(file)
    /\ dec_cnt \in Nat /\ skip_frame \in Nat /\ turn \in Nat /\ torn \in BOOLEAN /\ refused \in BOOLEAN
    /\ pc = "drain" => job \in {"decoder", "video_decoder"} /\ pos = Len(file)
    /\ pos = 0 => skip_frame = 0
    /\ pc \in {"open", "read"} => turn = 0
PicturesOK == held \in Seq(Nat) /\ written \in Seq(Nat) /\ drained \in Seq(Nat)
TypeOK == InputOK /\ PlaceOK /\ PicturesOK

(***************************************************************************)
(* What the decoder does with a picture.                                   *)
(***************************************************************************)
LEMMA HoldsOne ==
    ASSUME NEW h \in Seq(Nat), NEW w \in Seq(Nat), NEW n \in Nat
    PROVE  /\ Append(h, n) \in Seq(Nat) /\ w \o Append(h, n) = Append(w \o h, n)
           /\ Len(Append(h, n)) = Len(h) + 1 /\ Len(h) \in Nat
<1>1. <<n>> \in Seq(Nat) /\ Append(h, n) = h \o <<n>> /\ w \o h \in Seq(Nat)
  BY AppendIsConcat, ConcatProperties
<1>2. (w \o h) \o <<n>> = w \o (h \o <<n>>) BY <1>1, ConcatAssociative
<1>3. Append(w \o h, n) = (w \o h) \o <<n>> BY <1>1, AppendIsConcat
<1>. QED BY <1>1, <1>2, <1>3, AppendProperties, LenProperties

\* The picture that stays away when n is held: those after the given one.
Stay(h, n)   == Tail(Append(h, n))
Leaves(h, n) == Head(Append(h, n))

LEMMA GivesOne ==
    ASSUME NEW h \in Seq(Nat), NEW w \in Seq(Nat), NEW n \in Nat
    PROVE  /\ Stay(h, n) \in Seq(Nat) /\ Len(Stay(h, n)) = Len(h)
           /\ Leaves(h, n) \in Nat
           /\ Append(w, Leaves(h, n)) \in Seq(Nat)
           /\ Len(Append(w, Leaves(h, n))) = Len(w) + 1
           /\ Append(w, Leaves(h, n)) \o Stay(h, n) = Append(w \o h, n)
<1>. DEFINE q == Append(h, n)
<1>1. q \in Seq(Nat) /\ q # <<>> /\ Len(q) = Len(h) + 1 /\ Len(h) \in Nat
  BY AppendProperties, LenProperties
<1>2. w \o q = Append(w \o h, n) BY HoldsOne
<1>. HIDE DEF q
<1>3. Head(q) \in Nat /\ Tail(q) \in Seq(Nat) /\ <<Head(q)>> \in Seq(Nat) /\ q = <<Head(q)>> \o Tail(q)
      /\ Len(Tail(q)) = Len(q) - 1
  BY <1>1, HeadTailProperties
<1>4. Append(w, Head(q)) = w \o <<Head(q)>> /\ Append(w, Head(q)) \in Seq(Nat)
      /\ Len(Append(w, Head(q))) = Len(w) + 1
  BY <1>3, AppendIsConcat, AppendProperties
<1>5. (w \o <<Head(q)>>) \o Tail(q) = w \o q
  <2>1. \A a, b, c \in Seq(Nat) : (a \o b) \o c = a \o (b \o c) BY ConcatAssociative
  <2>2. w \in Seq(Nat) OBVIOUS
  <2>3. (w \o <<Head(q)>>) \o Tail(q) = w \o (<<Head(q)>> \o Tail(q))
    BY <1>3, <2>1, <2>2, Zenon
  <2>. QED BY <1>3, <2>3, Zenon
<1>6. Len(Tail(q)) = Len(h)
  <2>1. \A k \in Nat : (k + 1) - 1 = k OBVIOUS
  <2>. QED BY <1>1, <1>3, <2>1
<1>. QED BY <1>2, <1>3, <1>4, <1>5, <1>6 DEF q, Stay, Leaves

LEMMA GivesIs == ASSUME NEW n \in Nat PROVE /\ Gives(n) <=> Len(held) >= delay /\ held' = Stay(held, n)
                                            /\ Given(n) = Leaves(held, n)
BY DEF Gives, Given, Stay, Leaves

(***************************************************************************)
(* Type correctness.                                                       *)
(***************************************************************************)
LEMMA PieceEnds ==
    ASSUME TypeOK, NEW n \in 1 .. Len(file)
    PROVE  EndOfPiece(n) \in n .. Len(file)
<1>. DEFINE last == ((n - 1) \div perPiece + 1) * perPiece
<1>1. Len(file) \in Nat /\ n \in Nat BY LenProperties DEF TypeOK, InputOK
<1>2. perPiece \in {1, 2, 3} BY DEF TypeOK, InputOK
<1>3. last \in Nat /\ n <= last
  <2>1. CASE perPiece = 1 BY <1>1, <2>1
  <2>2. CASE perPiece = 2 BY <1>1, <2>2
  <2>3. CASE perPiece = 3 BY <1>1, <2>3
  <2>. QED BY <1>2, <2>1, <2>2, <2>3
<1>4. EndOfPiece(n) = (IF last < Len(file) THEN last ELSE Len(file)) BY DEF EndOfPiece
<1>. HIDE DEF last
<1>. QED BY <1>1, <1>3, <1>4

LEMMA InputStays == ASSUME TypeOK, [Next]_vars PROVE UNCHANGED input /\ InputOK'
<1>1. UNCHANGED input
  BY DEF Next, vars, OpenFails, Open, Foreign, NoPicture, Picture, BeyondLimit, TornVanishes, PieceCut,
     Parsed, EndOfFile, DrainEmpty, DrainAgain, DrainEnds
<1>. QED BY <1>1 DEF TypeOK, InputOK, input

Reading  == Foreign \/ NoPicture \/ Picture \/ BeyondLimit \/ TornVanishes \/ PieceCut \/ Parsed
Draining == DrainEmpty \/ DrainAgain
Moving   == OpenFails \/ Open \/ EndOfFile \/ DrainEnds

\* A step that reads goes forward.
LEMMA ReadsOn ==
    ASSUME TypeOK, Reading
    PROVE  /\ pc = "read" /\ pos < Len(file) /\ pos \in Nat /\ Len(file) \in Nat /\ pos + 1 \in 1 .. Len(file)
           /\ pos' \in pos + 1 .. Len(file) /\ pc' \in {"read", "done", "crashed"}
           /\ job # "decoder" => pos' = pos + 1
<1>1. pos \in Nat /\ Len(file) \in Nat BY LenProperties DEF TypeOK, InputOK, PlaceOK
<1>2. pc = "read" /\ pos < Len(file) /\ pc' \in {"read", "done", "crashed"}
  BY DEF Reading, Foreign, NoPicture, Picture, BeyondLimit, TornVanishes, PieceCut, Parsed, ReadFrame, Parse, Goto
<1>3. pos + 1 \in 1 .. Len(file) BY <1>1, <1>2
<1>4. pos' = pos + 1 \/ (job = "decoder" /\ pos' = EndOfPiece(pos + 1))
  BY DEF Reading, Foreign, NoPicture, Picture, BeyondLimit, TornVanishes, PieceCut, Parsed, ReadFrame, Parse
<1>5. EndOfPiece(pos + 1) \in pos + 1 .. Len(file) BY <1>3, PieceEnds
<1>. QED BY <1>1, <1>2, <1>3, <1>4, <1>5

LEMMA NextPlace == ASSUME TypeOK, [Next]_vars PROVE PlaceOK'
<1>0. UNCHANGED <<job, file>> /\ Len(file) \in Nat BY InputStays, LenProperties DEF input, TypeOK, InputOK
<1>1. CASE Reading
  <2>1. pos' \in 0 .. Len(file) /\ pos' # 0 /\ pc = "read" /\ pc' \in DecPcs /\ pc' # "drain"
    BY <1>1, ReadsOn DEF DecPcs
  <2>. USE DEF Reading, Foreign, NoPicture, Picture, BeyondLimit, TornVanishes, PieceCut, Parsed, counts, history
  <2>2. dec_cnt' = dec_cnt \/ dec_cnt' = dec_cnt + 1 \/ dec_cnt' = dec_cnt + 0 BY <1>1
  <2>5. skip_frame' = skip_frame \/ skip_frame' = skip_frame + 1 \/ skip_frame' = skip_frame + 0 BY <1>1
  <2>3. turn' = turn /\ torn' \in {torn, TRUE, FALSE} /\ refused' = refused BY <1>1
  <2>4. dec_cnt' \in Nat /\ skip_frame' \in Nat BY <2>2, <2>5 DEF TypeOK, PlaceOK
  <2>. QED BY <1>0, <2>1, <2>3, <2>4 DEF TypeOK, PlaceOK
<1>2. CASE Draining
  <2>1. UNCHANGED <<pos, dec_cnt, skip_frame, torn>> /\ pc = "drain" /\ pc' = "drain"
        /\ (turn' = turn \/ turn' = turn + 1) /\ (refused' = refused \/ refused' = TRUE)
    BY <1>2 DEF Draining, DrainEmpty, DrainAgain, Goto, counts, history
  <2>2. turn' \in Nat BY <2>1 DEF TypeOK, PlaceOK
  <2>3. refused' \in BOOLEAN BY <2>1 DEF TypeOK, PlaceOK
  <2>. QED BY <1>0, <2>1, <2>2, <2>3 DEF TypeOK, PlaceOK, DecPcs
<1>3. CASE Moving
  <2>1. /\ UNCHANGED <<pos, counts, history>> /\ pc' \in DecPcs
        /\ pc' = "drain" => job \in {"decoder", "video_decoder"} /\ pos = Len(file)
    BY <1>3 DEF Moving, OpenFails, Open, EndOfFile, DrainEnds, Goto, DecPcs
  <2>2. pc' \in {"open", "read"} => pc = "open"
    BY <1>3 DEF Moving, OpenFails, Open, EndOfFile, DrainEnds, Goto
  <2>3. UNCHANGED <<pos, dec_cnt, skip_frame, torn, turn, refused>> BY <2>1 DEF counts, history
  <2>4. torn' \in BOOLEAN /\ refused' \in BOOLEAN BY <2>3 DEF TypeOK, PlaceOK
  <2>. QED BY <1>0, <2>1, <2>2, <2>3, <2>4 DEF TypeOK, PlaceOK
<1>4. CASE UNCHANGED vars
  <2>1. UNCHANGED <<pc, pos, dec_cnt, skip_frame, torn, turn, refused>> BY <1>4 DEF vars, counts, history
  <2>2. PlaceOK BY DEF TypeOK
  <2>3. torn' \in BOOLEAN /\ refused' \in BOOLEAN BY <2>1, <2>2 DEF PlaceOK
  <2>4. pos' \in 0 .. Len(file') BY <1>0, <2>1, <2>2 DEF PlaceOK
  <2>. QED BY <1>0, <2>1, <2>2, <2>3, <2>4 DEF PlaceOK
<1>. QED BY <1>1, <1>2, <1>3, <1>4 DEF Next, Reading, Draining, Moving

LEMMA NextPictures == ASSUME TypeOK, [Next]_vars PROVE PicturesOK'
<1>0. held \in Seq(Nat) /\ written \in Seq(Nat) /\ drained \in Seq(Nat) /\ pos \in Nat /\ pos + 1 \in Nat
  BY LenProperties DEF TypeOK, PicturesOK, PlaceOK, InputOK
<1>1. \A n \in {pos, pos + 1} : /\ Holds(n) => held' \in Seq(Nat)
                                /\ Gives(n) => held' \in Seq(Nat)
                                /\ Append(written, Given(n)) \in Seq(Nat)
                                /\ Append(drained, Given(n)) \in Seq(Nat)
  <2>. TAKE n \in {pos, pos + 1}
  <2>1. n \in Nat BY <1>0
  <2>2. Append(held, n) \in Seq(Nat) BY <1>0, <2>1, HoldsOne
  <2>3. Stay(held, n) \in Seq(Nat) /\ Leaves(held, n) \in Nat /\ Append(written, Leaves(held, n)) \in Seq(Nat)
        /\ Append(drained, Leaves(held, n)) \in Seq(Nat)
    BY <1>0, <2>1, GivesOne
  <2>. QED BY <2>1, <2>2, <2>3, GivesIs DEF Holds
<1>2. CASE Reading
  <2>1. drained' = drained BY <1>2 DEF Reading, Foreign, NoPicture, Picture, BeyondLimit, TornVanishes, PieceCut,
     Parsed, history
  <2>2. held' = held \/ Holds(pos + 1) \/ Gives(pos + 1)
    BY <1>2 DEF Reading, Foreign, NoPicture, Picture, BeyondLimit, TornVanishes, PieceCut, Parsed
  <2>3. written' = written \/ written' = Append(written, Given(pos + 1))
    BY <1>2 DEF Reading, Foreign, NoPicture, Picture, BeyondLimit, TornVanishes, PieceCut, Parsed
  <2>. QED BY <1>0, <1>1, <2>1, <2>2, <2>3 DEF PicturesOK
<1>3. CASE DrainEmpty
  <2>1. held # <<>> /\ held' = Tail(held) /\ drained' = Append(drained, Head(held)) /\ written' = written
    BY <1>3 DEF DrainEmpty
  <2>2. Tail(held) \in Seq(Nat) /\ Head(held) \in Nat BY <1>0, <2>1, HeadTailProperties
  <2>3. Append(drained, Head(held)) \in Seq(Nat) BY <1>0, <2>2, AppendProperties
  <2>. QED BY <1>0, <2>1, <2>2, <2>3 DEF PicturesOK
<1>4. CASE DrainAgain
  <2>1. held' = held \/ Holds(pos) \/ Gives(pos) BY <1>4 DEF DrainAgain
  <2>2. written' = written \/ written' = Append(written, Given(pos)) BY <1>4 DEF DrainAgain, history
  <2>3. drained' = drained \/ drained' = Append(drained, Given(pos)) BY <1>4 DEF DrainAgain, history
  <2>. QED BY <1>0, <1>1, <2>1, <2>2, <2>3 DEF PicturesOK
<1>5. CASE Moving \/ UNCHANGED vars
  <2>1. UNCHANGED <<held, drained, written>>
    BY <1>5 DEF Moving, OpenFails, Open, EndOfFile, DrainEnds, vars, history
  <2>. QED BY <1>0, <2>1 DEF PicturesOK
<1>. QED BY <1>2, <1>3, <1>4, <1>5 DEF Next, Reading, Moving

LEMMA InitType == Init => TypeOK
<1>. SUFFICES ASSUME Init PROVE TypeOK
  OBVIOUS
<1>1. <<>> \in Seq(Nat) OBVIOUS
<1>2. InputOK BY FilesAssumption, BoundsAssumption DEF Init, InputOK
<1>3. Len(file) \in Nat BY <1>2, LenProperties DEF InputOK
<1>4. PlaceOK
  <2>1. pc = "open" /\ pos = 0 /\ dec_cnt = 0 /\ skip_frame = 0 /\ torn = FALSE /\ turn = 0 /\ refused = FALSE
    BY DEF Init
  <2>2. torn \in BOOLEAN /\ refused \in BOOLEAN BY <2>1
  <2>3. pos \in 0 .. Len(file) BY <1>3, <2>1
  <2>. QED BY <2>1, <2>2, <2>3 DEF PlaceOK, DecPcs
<1>. QED BY <1>1, <1>2, <1>4 DEF Init, TypeOK, PicturesOK

LEMMA NextType == ASSUME TypeOK, [Next]_vars PROVE TypeOK'
BY InputStays, NextPlace, NextPictures DEF TypeOK

\* Type correctness of the decoding jobs.
THEOREM DecodersTypeCorrect == Spec => []TypeOK
BY InitType, NextType, PTL DEF Spec

(***************************************************************************)
(* The line of pictures: what is written and, behind it, what the decoder  *)
(* holds.  While the job runs a picture joins it at its end, and the output*)
(* is the front of it.                                                     *)
(***************************************************************************)
Line == written \o held
Runs == savable /\ (pc \in {"open", "read"} \/ (pc = "drain" /\ job = "video_decoder"))

\* No picture of a line is beyond p, and they rise, but for copies of m.
UpTo(l, p)    == \A i \in 1 .. Len(l) : l[i] \in 1 .. p
RisesTo(l, m) == \A i, j \in 1 .. Len(l) : i < j => l[i] < l[j] \/ (l[i] = m /\ l[j] = m)

LEMMA OneJoins ==
    ASSUME NEW l \in Seq(Nat), NEW x \in Nat
    PROVE  /\ Append(l, x) \in Seq(Nat) /\ Len(Append(l, x)) = Len(l) + 1 /\ Len(l) \in Nat
           /\ Append(l, x)[Len(l) + 1] = x
           /\ \A i \in 1 .. Len(l) : Append(l, x)[i] = l[i] /\ i \in 1 .. Len(l) + 1
           /\ \A i \in 1 .. Len(l) + 1 : i \in 1 .. Len(l) \/ i = Len(l) + 1
BY AppendProperties, LenProperties

LEMMA OneRises ==
    ASSUME NEW l \in Seq(Nat), NEW x \in Nat, NEW p \in Nat, NEW q \in Nat, NEW m \in Nat,
           UpTo(l, p), RisesTo(l, m), p < x \/ (p = x /\ x = m), 1 <= x, x <= q, p <= q
    PROVE  UpTo(Append(l, x), q) /\ RisesTo(Append(l, x), m)
<1>. DEFINE k == Append(l, x) n == Len(l)
<1>1. /\ Len(k) = n + 1 /\ n \in Nat /\ k[n + 1] = x
      /\ \A i \in 1 .. n : k[i] = l[i]
      /\ \A i \in 1 .. n + 1 : i \in 1 .. n \/ i = n + 1
  BY OneJoins
<1>2. \A i \in 1 .. n : l[i] \in Nat /\ 1 <= l[i] /\ l[i] <= p BY DEF UpTo
<1>3. \A i, j \in 1 .. n : i < j => l[i] < l[j] \/ (l[i] = m /\ l[j] = m) BY DEF RisesTo
<1>. HIDE DEF k, n
<1>4. ASSUME NEW i \in 1 .. n + 1 PROVE k[i] \in 1 .. q
  <2>1. CASE i = n + 1 BY <1>1, <2>1
  <2>2. CASE i \in 1 .. n BY <1>1, <1>2, <2>2
  <2>. QED BY <1>1, <2>1, <2>2
<1>5. ASSUME NEW i \in 1 .. n + 1, NEW j \in 1 .. n + 1, i < j
      PROVE  k[i] < k[j] \/ (k[i] = m /\ k[j] = m)
  <2>1. i \in 1 .. n BY <1>1, <1>5
  <2>2. CASE j = n + 1
    <3>1. l[i] < x \/ (l[i] = m /\ x = m) BY <1>2, <2>1
    <3>. QED BY <1>1, <2>1, <2>2, <3>1
  <2>3. CASE j \in 1 .. n BY <1>1, <1>3, <1>5, <2>1, <2>3
  <2>. QED BY <1>1, <2>2, <2>3
<1>. QED BY <1>1, <1>4, <1>5 DEF UpTo, RisesTo, k

(***************************************************************************)
(* The pictures of the file up to a place, and how many they are.          *)
(***************************************************************************)
GoodTo(p) == {n \in Good : n <= p}
NGood(p)  == Cardinality(GoodTo(p))

LEMMA GoodIsFinite ==
    ASSUME TypeOK
    PROVE  /\ Good \subseteq 1 .. Len(file) /\ IsFiniteSet(Good) /\ Cardinality(Good) \in Nat
           /\ \A p \in Nat : IsFiniteSet(GoodTo(p)) /\ NGood(p) \in Nat /\ NGood(p) <= Cardinality(Good)
           /\ NGood(Len(file)) = Cardinality(Good) /\ NGood(0) = 0
<1>1. Len(file) \in Nat /\ DOMAIN file = 1 .. Len(file) BY LenProperties DEF TypeOK, InputOK
<1>2. Good \subseteq 1 .. Len(file) BY <1>1 DEF Good
<1>9. \A n \in Good : n \in Nat /\ 1 <= n /\ n <= Len(file)
  <2>. QED BY <1>1, <1>2
<1>3. IsFiniteSet(1 .. Len(file)) BY <1>1, FS_Interval
<1>4. IsFiniteSet(Good) BY <1>2, <1>3, FS_Subset
<1>5. \A p \in Nat : GoodTo(p) \subseteq Good BY DEF GoodTo
<1>6. \A p \in Nat : IsFiniteSet(GoodTo(p)) /\ NGood(p) <= Cardinality(Good)
  BY <1>4, <1>5, FS_Subset DEF NGood
<1>7. GoodTo(Len(file)) = Good BY <1>9 DEF GoodTo
<1>8. GoodTo(0) = {} BY <1>9 DEF GoodTo
<1>. QED BY <1>2, <1>4, <1>6, <1>7, <1>8, FS_CardinalityType, FS_EmptySet DEF NGood

LEMMA OneMoreGood ==
    ASSUME TypeOK, NEW p \in Nat, p + 1 \in 1 .. Len(file)
    PROVE  /\ p + 1 \in Good <=> file[p + 1] = "own"
           /\ p + 1 \in Good => NGood(p + 1) = NGood(p) + 1
           /\ p + 1 \notin Good => NGood(p + 1) = NGood(p)
<1>1. DOMAIN file = 1 .. Len(file) BY LenProperties DEF TypeOK, InputOK
<1>2. p + 1 \in Good <=> file[p + 1] = "own" BY <1>1 DEF Good
<1>3. \A n \in Good : n \in Nat BY GoodIsFinite
<1>4. CASE p + 1 \in Good
  <2>1. GoodTo(p + 1) = GoodTo(p) \union {p + 1} /\ p + 1 \notin GoodTo(p) BY <1>3, <1>4 DEF GoodTo
  <2>2. IsFiniteSet(GoodTo(p)) BY GoodIsFinite
  <2>. QED BY <1>2, <1>4, <2>1, <2>2, FS_AddElement DEF NGood
<1>5. CASE p + 1 \notin Good
  <2>1. GoodTo(p + 1) = GoodTo(p)
    <3>1. \A n \in Good : n <= p + 1 <=> n <= p BY <1>3, <1>5
    <3>. QED BY <3>1 DEF GoodTo
  <2>. QED BY <1>2, <1>5, <2>1 DEF NGood
<1>. QED BY <1>4, <1>5

(***************************************************************************)
(* The line of a job that runs: no picture of a container is left out, and *)
(* the drain adds copies of the last one only.                             *)
(***************************************************************************)
Last == IF job = "video_decoder" THEN Len(file) ELSE 0

InTurn == UpTo(Line, pos) /\ RisesTo(Line, Last)
AllIn ==
    /\ NGood(pos) <= Len(Line) /\ (pc # "drain" => Len(Line) = NGood(pos))
    /\ \A i \in 1 .. Len(Line) : Line[i] \in Good
    /\ \A n \in GoodTo(pos) : \E i \in 1 .. NGood(pos) : Line[i] = n
LineInv ==
    /\ Runs => InTurn /\ (job # "decoder" => AllIn)
    /\ ~savable => written = <<>>
    /\ ~Runs => WrittenInOrder

\* What happens to the line of a job that goes on running: nothing, or the
\* picture of the packet joins.
Joins(n) == /\ n \in Good /\ Line' = Append(Line, n)
            /\ \/ Len(held) < delay /\ Len(held') = Len(held) + 1 /\ Len(written') = Len(written)
               \/ Len(held) >= delay /\ Len(held') = Len(held) /\ Len(written') = Len(written) + 1
LineStays == held' = held /\ written' = written

LEMMA LineType == ASSUME TypeOK PROVE Line \in Seq(Nat) /\ Len(Line) = Len(written) + Len(held)
                                   /\ Len(Line) \in Nat /\ Len(held) \in Nat /\ Len(written) \in Nat
<1>1. held \in Seq(Nat) /\ written \in Seq(Nat) BY DEF TypeOK, PicturesOK
<1>. QED BY <1>1, ConcatProperties, LenProperties DEF Line

LEMMA HeldJoins ==
    ASSUME TypeOK, NEW n \in Good, Holds(n), written' = written PROVE Joins(n)
<1>1. held \in Seq(Nat) /\ written \in Seq(Nat) /\ n \in Nat BY GoodIsFinite DEF TypeOK, PicturesOK
<1>2. Len(held) < delay /\ held' = Append(held, n) BY DEF Holds
<1>. QED BY <1>1, <1>2, HoldsOne DEF Joins, Line

LEMMA GivenJoins ==
    ASSUME TypeOK, NEW n \in Good, Gives(n), written' = Append(written, Given(n)) PROVE Joins(n)
<1>1. held \in Seq(Nat) /\ written \in Seq(Nat) /\ n \in Nat BY GoodIsFinite DEF TypeOK, PicturesOK
<1>2. Len(held) >= delay /\ held' = Stay(held, n) /\ written' = Append(written, Leaves(held, n))
  BY <1>1, GivesIs
<1>3. /\ Stay(held, n) \in Seq(Nat) /\ Len(Stay(held, n)) = Len(held)
      /\ Len(Append(written, Leaves(held, n))) = Len(written) + 1
      /\ Append(written, Leaves(held, n)) \o Stay(held, n) = Append(written \o held, n)
  BY <1>1, GivesOne
<1>4. Line' = written' \o held' /\ Line = written \o held BY DEF Line
<1>. QED BY <1>2, <1>3, <1>4 DEF Joins

LEMMA ReadEffect ==
    ASSUME TypeOK, Reading, Runs'
    PROVE  /\ Runs /\ pc = "read" /\ pc' = "read"
           /\ \/ LineStays /\ (job # "decoder" => pos + 1 \notin Good)
              \/ Joins(pos + 1)
<1>. USE DEF Foreign, NoPicture, Picture, BeyondLimit, TornVanishes, PieceCut, Parsed, ReadFrame, Parse, Goto
<1>0. pc = "read" /\ pc' = "read" /\ savable' = savable /\ pos + 1 \in 1 .. Len(file) /\ pos \in Nat
  <2>1. pc = "read" /\ pc' \in {"read", "done", "crashed"} /\ pos + 1 \in 1 .. Len(file) /\ pos \in Nat
    BY ReadsOn
  <2>2. savable' = savable BY DEF Reading, input
  <2>. QED BY <2>1, <2>2 DEF Runs
<1>1. savable /\ Runs BY <1>0 DEF Runs
<1>2. pos + 1 \in Good <=> file[pos + 1] = "own" BY <1>0, OneMoreGood
<1>3. CASE Foreign \/ TornVanishes
  BY <1>0, <1>1, <1>2, <1>3 DEF LineStays
<1>4. CASE NoPicture
  <2>1. CASE file[pos + 1] = "bad" /\ held' = held BY <1>0, <1>1, <1>2, <1>4, <2>1 DEF LineStays
  <2>2. CASE file[pos + 1] = "own" /\ Holds(pos + 1)
    <3>1. written' = written BY <1>4
    <3>. QED BY <1>0, <1>1, <1>2, <2>2, <3>1, HeldJoins
  <2>. QED BY <1>4, <2>1, <2>2
<1>5. CASE Picture
  <2>1. Gives(pos + 1) /\ file[pos + 1] = "own" BY <1>5
  <2>2. written' = Append(written, Given(pos + 1)) BY <1>0, <1>1, <1>5
  <2>. QED BY <1>0, <1>1, <1>2, <2>1, <2>2, GivenJoins
<1>6. CASE BeyondLimit BY <1>0, <1>6
<1>7. CASE PieceCut
  <2>1. written' = written /\ job = "decoder" BY <1>7
  <2>2. CASE held' = held BY <1>0, <1>1, <2>1, <2>2 DEF LineStays
  <2>3. CASE file[pos + 1] = "own" /\ Holds(pos + 1) BY <1>0, <1>1, <1>2, <2>1, <2>3, HeldJoins
  <2>. QED BY <1>7, <2>2, <2>3
<1>8. CASE Parsed
  <2>1. Gives(pos + 1) /\ file[pos + 1] = "own" /\ written' = Append(written, Given(pos + 1)) BY <1>8
  <2>. QED BY <1>0, <1>1, <1>2, <2>1, GivenJoins
<1>. QED BY <1>3, <1>4, <1>5, <1>6, <1>7, <1>8 DEF Reading

LEMMA DrainEffect ==
    ASSUME TypeOK, DrainAgain
    PROVE  /\ Runs /\ pc = "drain" /\ pc' = "drain" /\ job = "video_decoder" /\ pos' = pos
           /\ pos = Len(file) /\ 1 <= pos
           /\ turn < skip_frame /\ turn' = turn + 1 /\ skip_frame' = skip_frame
           /\ \/ LineStays /\ refused' = TRUE
              \/ Joins(pos) /\ refused' = refused
<1>1. /\ pc = "drain" /\ pc' = "drain" /\ job = "video_decoder" /\ pos' = pos
      /\ turn < skip_frame /\ turn' = turn + 1 /\ skip_frame' = skip_frame
  BY DEF DrainAgain, Goto
<1>2. Runs BY <1>1 DEF Runs, TypeOK, InputOK
<1>3. pos = Len(file) /\ 1 <= pos /\ pos \in Nat /\ Len(file) \in Nat
  <2>1. pos = Len(file) /\ Len(file) \in Nat /\ turn \in Nat /\ skip_frame \in Nat /\ (pos = 0 => skip_frame = 0)
    BY <1>1, LenProperties DEF TypeOK, PlaceOK, InputOK
  <2>2. skip_frame # 0 BY <1>1, <2>1
  <2>. QED BY <2>1, <2>2
<1>4. file[pos] = "own" => pos \in Good
  <2>1. pos \in 1 .. Len(file) BY <1>3
  <2>2. DOMAIN file = 1 .. Len(file) BY LenProperties DEF TypeOK, InputOK
  <2>. QED BY <2>1, <2>2 DEF Good
<1>5. CASE file[pos] = "own" /\ Holds(pos) /\ UNCHANGED <<history, written>>
  BY <1>1, <1>2, <1>3, <1>4, <1>5, HeldJoins DEF history
<1>6. CASE /\ file[pos] = "own" /\ Gives(pos) /\ written' = Append(written, Given(pos))
           /\ UNCHANGED refused
  BY <1>1, <1>2, <1>3, <1>4, <1>6, GivenJoins
<1>7. CASE refused' = TRUE /\ UNCHANGED <<held, drained, written>>
  BY <1>1, <1>2, <1>3, <1>7 DEF LineStays
<1>. QED BY <1>5, <1>6, <1>7 DEF DrainAgain

\* A step after which the job no longer runs writes nothing.
LEMMA OnlyRunnersWrite ==
    ASSUME TypeOK, [Next]_vars, ~Runs'
    PROVE  written' = written /\ UNCHANGED <<job, file>>
<1>1. UNCHANGED <<job, file, savable>> BY InputStays DEF input
<1>2. CASE DrainAgain
  <2>1. Runs' BY <1>1, <1>2, DrainEffect DEF Runs
  <2>. QED BY <2>1
<1>3. CASE Parsed \/ Picture
  <2>1. Parsed => savable /\ pc' = "read"
    BY DEF Parsed, Parse, Goto, TypeOK, InputOK
  <2>2. CASE pc' = "read" BY <1>1, <1>3, <2>1, <2>2 DEF Runs, Picture, Goto
  <2>3. CASE pc' # "read" BY <1>1, <1>3, <2>1, <2>3 DEF Picture, Goto
  <2>. QED BY <2>2, <2>3
<1>4. CASE ~(DrainAgain \/ Parsed \/ Picture)
  BY <1>1, <1>4 DEF Next, vars, OpenFails, Open, Foreign, NoPicture, BeyondLimit, TornVanishes, PieceCut,
     EndOfFile, DrainEmpty, DrainEnds
<1>. QED BY <1>2, <1>3, <1>4

LEMMA GoodStays ==
    ASSUME UNCHANGED <<job, file>>
    PROVE  /\ Good' = Good /\ Last' = Last
           /\ (\A p : GoodTo(p)' = GoodTo(p) /\ NGood(p)' = NGood(p))
           /\ GoodTo(pos)' = GoodTo(pos') /\ NGood(pos)' = NGood(pos')
BY DEF Good, Last, GoodTo, NGood

\* A line that rises is written from its beginning.
LEMMA LineOrder ==
    ASSUME TypeOK, InTurn, job # "decoder" => AllIn
    PROVE  WrittenInOrder
<1>1. /\ written \in Seq(Nat) /\ held \in Seq(Nat) /\ Line \in Seq(Nat)
      /\ Len(Line) = Len(written) + Len(held) /\ Len(held) \in Nat /\ Len(written) \in Nat
      /\ pos \in Nat /\ Len(file) \in Nat
  BY LineType, LenProperties DEF TypeOK, PicturesOK, PlaceOK, InputOK
<1>2. DOMAIN written = 1 .. Len(written) BY <1>1
<1>3. \A i \in 1 .. Len(written) : Line[i] = written[i] /\ i \in 1 .. Len(Line)
  BY <1>1, ConcatProperties DEF Line
<1>4. \A i \in 1 .. Len(Line) : Line[i] \in Nat /\ 1 <= Line[i] /\ Line[i] <= pos
  BY <1>1 DEF InTurn, UpTo
<1>5. \A i, j \in 1 .. Len(Line) : i < j => Line[i] < Line[j] \/ (Line[i] = Last /\ Line[j] = Last)
  BY DEF InTurn, RisesTo
<1>6. ASSUME NEW i \in DOMAIN written, NEW j \in DOMAIN written, i < j
      PROVE  \/ written[i] < written[j]
             \/ job = "video_decoder" /\ written[i] = Len(file) /\ written[j] = Len(file)
  <2>1. Line[i] = written[i] /\ Line[j] = written[j] /\ i \in 1 .. Len(Line) /\ j \in 1 .. Len(Line)
    BY <1>2, <1>3
  <2>2. CASE written[i] < written[j] BY <2>2
  <2>3. CASE Line[i] = Last /\ Line[j] = Last
    <3>1. 1 <= Last BY <1>4, <2>1, <2>3
    <3>. QED BY <2>1, <2>3, <3>1 DEF Last
  <2>. QED BY <1>5, <1>6, <2>1, <2>2, <2>3
<1>7. ASSUME job # "decoder", NEW n \in Good, NEW k \in WrittenSet, n < k
      PROVE  n \in WrittenSet
  <2>1. PICK j \in 1 .. Len(written) : k = written[j] BY <1>2 DEF WrittenSet
  <2>2. k = Line[j] /\ j \in 1 .. Len(Line) /\ k <= pos /\ k \in Nat /\ n \in Nat
    <3>1. n \in Nat BY GoodIsFinite
    <3>. QED BY <1>3, <1>4, <2>1, <3>1
  <2>3. n \in GoodTo(pos)
    <3>1. n <= pos BY <1>1, <1>7, <2>2
    <3>. QED BY <3>1 DEF GoodTo
  <2>4. PICK i \in 1 .. NGood(pos) : Line[i] = n BY <1>7, <2>3 DEF AllIn
  <2>5. i \in 1 .. Len(Line) /\ i \in Nat
    <3>1. NGood(pos) <= Len(Line) /\ NGood(pos) \in Nat BY <1>1, <1>7, GoodIsFinite DEF AllIn
    <3>. QED BY <1>1, <3>1
  <2>6. i < j
    <3>1. CASE j < i
      <4>1. Line[j] < Line[i] \/ Line[j] = Line[i] BY <1>5, <2>2, <2>5, <3>1
      <4>2. k <= n BY <2>2, <2>4, <4>1
      <4>. QED BY <1>7, <2>2, <4>2
    <3>2. CASE i = j BY <1>7, <2>2, <2>4, <3>2
    <3>. QED BY <1>1, <2>1, <2>5, <3>1, <3>2
  <2>7. i \in DOMAIN written BY <1>1, <1>2, <2>1, <2>5, <2>6
  <2>. QED BY <1>2, <1>3, <2>4, <2>7 DEF WrittenSet
<1>. QED BY <1>6, <1>7 DEF WrittenInOrder

LEMMA LastType == ASSUME TypeOK PROVE Last \in Nat /\ Len(file) \in Nat /\ pos \in Nat
BY LenProperties DEF TypeOK, InputOK, PlaceOK, Last

\* A picture that joins the line at its end.
LEMMA JoinsInTurn ==
    ASSUME TypeOK, InTurn, NEW n \in Good, Joins(n), pos < n \/ (pos = n /\ n = Last),
           n <= pos', pos <= pos', pos' \in Nat, UNCHANGED <<job, file>>
    PROVE  InTurn'
<1>1. Line \in Seq(Nat) /\ pos \in Nat /\ Last \in Nat /\ n \in Nat /\ 1 <= n
  BY LineType, LastType, GoodIsFinite
<1>2. Line' = Append(Line, n) /\ Last' = Last BY GoodStays DEF Joins
<1>3. UpTo(Append(Line, n), pos') /\ RisesTo(Append(Line, n), Last)
  BY <1>1, OneRises DEF InTurn
<1>. QED BY <1>2, <1>3 DEF InTurn, UpTo, RisesTo

LEMMA ReadLine ==
    ASSUME TypeOK, LineInv, Reading, Runs'
    PROVE  InTurn' /\ (job' # "decoder" => AllIn')
<1>1. /\ Runs /\ pc = "read" /\ pc' = "read"
      /\ \/ LineStays /\ (job # "decoder" => pos + 1 \notin Good)
         \/ Joins(pos + 1)
  BY ReadEffect
<1>2. UNCHANGED <<job, file>> BY InputStays DEF Next, Reading, input
<1>3. /\ pos \in Nat /\ Len(file) \in Nat /\ pos + 1 \in 1 .. Len(file)
      /\ pos' \in pos + 1 .. Len(file) /\ (job # "decoder" => pos' = pos + 1)
  BY ReadsOn
<1>4. InTurn /\ (job # "decoder" => AllIn) BY <1>1 DEF LineInv
<1>5. CASE LineStays
  <2>1. Line' = Line /\ Last' = Last BY <1>2, <1>5, GoodStays DEF LineStays, Line
  <2>2. InTurn'
    <3>1. \A i \in 1 .. Len(Line) : Line[i] \in 1 .. pos' BY <1>3, <1>4 DEF InTurn, UpTo
    <3>. QED BY <1>4, <2>1, <3>1 DEF InTurn, UpTo, RisesTo
  <2>3. ASSUME job # "decoder" PROVE AllIn'
    <3>1. pos + 1 \notin Good \/ pos + 1 \in Good OBVIOUS
    <3>2. CASE pos + 1 \notin Good
      <4>1. NGood(pos)' = NGood(pos) /\ GoodTo(pos)' = GoodTo(pos) /\ Good' = Good
        <5>1. NGood(pos + 1) = NGood(pos) BY <1>3, <3>2, OneMoreGood
        <5>2. GoodTo(pos + 1) = GoodTo(pos)
          <6>1. \A n \in Good : n \in Nat /\ n # pos + 1 BY <3>2, GoodIsFinite
          <6>2. \A n \in Good : n <= pos + 1 <=> n <= pos BY <1>3, <6>1
          <6>. QED BY <6>2 DEF GoodTo
        <5>. QED BY <1>2, <1>3, <2>3, <5>1, <5>2, GoodStays
      <4>. QED BY <1>1, <1>4, <2>1, <2>3, <4>1 DEF AllIn
    <3>3. CASE pos + 1 \in Good
      <4>1. Joins(pos + 1) BY <1>1, <2>3, <3>3
      <4>2. Line' = Append(Line, pos + 1) BY <4>1 DEF Joins
      <4>3. Len(Line') = Len(Line) + 1 /\ Len(Line) \in Nat BY <1>3, <4>2, OneJoins, LineType
      <4>. QED BY <2>1, <4>3
    <3>. QED BY <3>2, <3>3
  <2>. QED BY <1>2, <2>2, <2>3
<1>6. CASE Joins(pos + 1)
  <2>1. pos + 1 \in Good /\ Line' = Append(Line, pos + 1) BY <1>6 DEF Joins
  <2>2. InTurn' BY <1>2, <1>3, <1>4, <1>6, <2>1, JoinsInTurn
  <2>3. ASSUME job # "decoder" PROVE AllIn'
    <3>1. NGood(pos + 1) = NGood(pos) + 1 /\ NGood(pos) \in Nat BY <1>3, <2>1, OneMoreGood, GoodIsFinite
    <3>2. pos' = pos + 1 /\ NGood(pos)' = NGood(pos) + 1 /\ Good' = Good /\ GoodTo(pos)' = GoodTo(pos + 1)
      BY <1>2, <1>3, <2>3, <3>1, GoodStays
    <3>3. /\ Len(Line') = Len(Line) + 1 /\ Line'[Len(Line) + 1] = pos + 1 /\ Len(Line) \in Nat
          /\ \A i \in 1 .. Len(Line) : Line'[i] = Line[i]
          /\ \A i \in 1 .. Len(Line) + 1 : i \in 1 .. Len(Line) \/ i = Len(Line) + 1
      BY <1>3, <2>1, OneJoins, LineType
    <3>4. AllIn /\ Len(Line) = NGood(pos) BY <1>1, <1>4, <2>3 DEF AllIn
    <3>5. \A i \in 1 .. Len(Line') : Line'[i] \in Good' BY <2>1, <3>2, <3>3, <3>4 DEF AllIn
    <3>6. ASSUME NEW n \in GoodTo(pos + 1) PROVE \E i \in 1 .. NGood(pos) + 1 : Line'[i] = n
      <4>1. CASE n = pos + 1
        <5>1. NGood(pos) + 1 \in 1 .. NGood(pos) + 1 BY <3>1
        <5>. QED BY <3>3, <3>4, <4>1, <5>1
      <4>2. CASE n # pos + 1
        <5>1. n \in Good /\ n <= pos + 1 /\ n \in Nat BY GoodIsFinite DEF GoodTo
        <5>2. n \in GoodTo(pos)
          <6>1. n <= pos BY <1>3, <4>2, <5>1
          <6>. QED BY <5>1, <6>1 DEF GoodTo
        <5>3. PICK i \in 1 .. NGood(pos) : Line[i] = n BY <3>4, <5>2 DEF AllIn
        <5>4. Line'[i] = n /\ i \in 1 .. NGood(pos) + 1 BY <3>1, <3>3, <3>4, <5>3
        <5>. QED BY <5>4
      <4>. QED BY <4>1, <4>2
    <3>7. NGood(pos)' <= Len(Line') /\ Len(Line') = NGood(pos)' BY <3>1, <3>2, <3>3, <3>4
    <3>. QED BY <3>2, <3>5, <3>6, <3>7 DEF AllIn
  <2>. QED BY <1>2, <2>2, <2>3
<1>. QED BY <1>1, <1>5, <1>6

LEMMA DrainLine ==
    ASSUME TypeOK, LineInv, DrainAgain
    PROVE  InTurn' /\ AllIn'
<1>1. /\ Runs /\ pc = "drain" /\ pc' = "drain" /\ job = "video_decoder" /\ pos' = pos
      /\ pos = Len(file) /\ 1 <= pos /\ (LineStays \/ Joins(pos))
  BY DrainEffect
<1>2. UNCHANGED <<job, file>> BY InputStays DEF Next, input
<1>3. pos \in Nat /\ Last = pos BY <1>1, LastType DEF Last
<1>4. InTurn /\ AllIn BY <1>1 DEF LineInv
<1>5. /\ Good' = Good /\ Last' = Last /\ NGood(pos)' = NGood(pos) /\ GoodTo(pos)' = GoodTo(pos)
  BY <1>1, <1>2, GoodStays
<1>6. CASE LineStays
  <2>1. Line' = Line BY <1>6 DEF LineStays, Line
  <2>. QED BY <1>1, <1>4, <1>5, <2>1 DEF InTurn, AllIn, UpTo, RisesTo
<1>7. CASE Joins(pos)
  <2>1. pos \in Good /\ Line' = Append(Line, pos) BY <1>7 DEF Joins
  <2>2. InTurn' BY <1>1, <1>2, <1>3, <1>4, <1>7, <2>1, JoinsInTurn
  <2>3. /\ Len(Line') = Len(Line) + 1 /\ Line'[Len(Line) + 1] = pos /\ Len(Line) \in Nat
        /\ \A i \in 1 .. Len(Line) : Line'[i] = Line[i]
        /\ \A i \in 1 .. Len(Line) + 1 : i \in 1 .. Len(Line) \/ i = Len(Line) + 1
    BY <1>3, <2>1, OneJoins, LineType
  <2>4. NGood(pos) \in Nat /\ NGood(pos) <= Len(Line) BY <1>3, <1>4, GoodIsFinite DEF AllIn
  <2>5. \A i \in 1 .. Len(Line') : Line'[i] \in Good' BY <1>4, <1>5, <2>1, <2>3 DEF AllIn
  <2>6. \A n \in GoodTo(pos) : \E i \in 1 .. NGood(pos) : Line'[i] = n
    <3>1. \A i \in 1 .. NGood(pos) : i \in 1 .. Len(Line) BY <2>3, <2>4
    <3>. QED BY <1>4, <2>3, <3>1 DEF AllIn
  <2>7. NGood(pos)' <= Len(Line') BY <1>5, <2>3, <2>4
  <2>. QED BY <1>1, <1>5, <2>2, <2>5, <2>6, <2>7 DEF AllIn
<1>. QED BY <1>1, <1>6, <1>7

LEMMA NextLine == ASSUME TypeOK, LineInv, [Next]_vars PROVE LineInv'
<1>0. TypeOK' /\ UNCHANGED <<job, file, savable>> BY NextType, InputStays DEF input
<1>1. ~savable' => written' = <<>>
  <2>1. ~savable' => ~Runs' BY DEF Runs
  <2>. QED BY <1>0, <2>1, OnlyRunnersWrite DEF LineInv
<1>2. CASE ~Runs'
  <2>1. written' = written BY <1>2, OnlyRunnersWrite
  <2>2. Good' = Good BY <1>0, GoodStays
  <2>3. WrittenInOrder'
    <3>1. WrittenInOrder BY LineOrder DEF LineInv
    <3>. QED BY <1>0, <2>1, <2>2, <3>1 DEF WrittenInOrder, WrittenSet
  <2>. QED BY <1>1, <1>2, <2>3 DEF LineInv
<1>3. CASE Runs'
  <2>1. InTurn' /\ (job' # "decoder" => AllIn')
    <3>1. CASE Reading BY <1>3, <3>1, ReadLine
    <3>2. CASE DrainAgain BY <3>2, DrainLine
    <3>3. CASE Moving \/ UNCHANGED vars
      <4>1. /\ UNCHANGED <<pos, held, written>>
            /\ pc = "drain" => pc' \in {"drain", "done"}
        BY <3>3 DEF Moving, OpenFails, Open, EndOfFile, DrainEnds, vars, Goto
      <4>2. Runs /\ (pc' # "drain" => pc # "drain")
        BY <1>0, <1>3, <3>3, <4>1 DEF Runs, Moving, OpenFails, Open, EndOfFile, DrainEnds, vars, Goto
      <4>3. InTurn /\ (job # "decoder" => AllIn) BY <4>2 DEF LineInv
      <4>4. /\ Good' = Good /\ Last' = Last /\ NGood(pos)' = NGood(pos) /\ GoodTo(pos)' = GoodTo(pos)
            /\ Line' = Line
        BY <1>0, <4>1, GoodStays DEF Line
      <4>5. InTurn' BY <4>1, <4>3, <4>4 DEF InTurn, UpTo, RisesTo
      <4>. QED BY <1>0, <4>2, <4>3, <4>4, <4>5 DEF AllIn
    <3>4. CASE DrainEmpty
      <4>1. job = "decoder" /\ pc' = "drain" BY <3>4 DEF DrainEmpty, Goto
      <4>. QED BY <1>0, <1>3, <4>1 DEF Runs
    <3>. QED BY <3>1, <3>2, <3>3, <3>4 DEF Next, Reading, Moving
  <2>. QED BY <1>1, <1>3, <2>1 DEF LineInv
<1>. QED BY <1>2, <1>3

LEMMA InitLine == Init => LineInv
<1>. SUFFICES ASSUME Init PROVE LineInv
  OBVIOUS
<1>1. TypeOK BY InitType
<1>2. Line = <<>> /\ Len(Line) = 0 /\ pos = 0 /\ written = <<>> BY ConcatEmptySeq DEF Init, Line
<1>3. GoodTo(0) = {} /\ NGood(0) = 0
  <2>1. \A n \in Good : n \in Nat /\ n # 0 BY <1>1, GoodIsFinite
  <2>. QED BY <1>1, <2>1, GoodIsFinite DEF GoodTo
<1>4. InTurn /\ AllIn BY <1>2, <1>3 DEF InTurn, UpTo, RisesTo, AllIn
<1>. QED BY <1>1, <1>2, <1>4, LineOrder DEF LineInv

\* Whatever the file, the limit and what the decoder holds back, pictures are
\* written in order, and no job over a container leaves one out in between.
THEOREM PicturesWrittenInOrder == Spec => []WrittenInOrder
<1>1. TypeOK /\ LineInv => WrittenInOrder BY LineOrder DEF LineInv
<1>. QED BY <1>1, InitType, InitLine, NextType, NextLine, PTL DEF Spec

(***************************************************************************)
(* How many pictures there are.  A job that runs over a container holds    *)
(* back as many as the decoder does; those with a limit have counted what  *)
(* they wrote; and the video decoder has counted what is held, when no     *)
(* packet is refused.                                                      *)
(***************************************************************************)
NoBad == \A n \in DOMAIN file : file[n] # "bad"
Total == Cardinality(Good)

HeldCount  == pc # "drain" => Len(held) = (IF NGood(pos) < delay THEN NGood(pos) ELSE delay)
LimitCount == job \in Limited => dec_cnt = Len(written) /\ (frame >= 0 => dec_cnt <= frame)
SkipCount ==
    job = "video_decoder" /\ NoBad =>
        /\ pc # "drain" => skip_frame = Len(held)
        /\ pc = "drain" /\ ~refused /\ Total >= delay =>
              Len(held) = delay /\ skip_frame = delay /\ Len(written) = Total - delay + turn
CountInv ==
    /\ Runs /\ job # "decoder" => HeldCount /\ LimitCount /\ SkipCount
    /\ ~Runs => AsManyAsDecoded

LEMMA CountTypes ==
    ASSUME TypeOK
    PROVE  /\ Len(held) \in Nat /\ Len(written) \in Nat /\ Len(Line) = Len(written) + Len(held)
           /\ delay \in Nat /\ frame \in Int /\ pos \in Nat /\ Len(file) \in Nat
           /\ dec_cnt \in Nat /\ skip_frame \in Nat /\ turn \in Nat
           /\ NGood(pos) \in Nat /\ Total \in Nat /\ NGood(pos) <= Total /\ NGood(Len(file)) = Total
<1>1. pos \in Nat BY LastType
<1>2. NGood(pos) \in Nat /\ Total \in Nat /\ NGood(pos) <= Total /\ NGood(Len(file)) = Total
  BY <1>1, GoodIsFinite DEF Total
<1>. QED BY <1>1, <1>2, LineType, LastType DEF TypeOK, InputOK, PlaceOK

\* What the jobs over a container count of what they read.
LEMMA ReadCounts ==
    ASSUME TypeOK, Reading, Runs', job # "decoder"
    PROVE  /\ \/ Len(written') = Len(written) /\ dec_cnt' = dec_cnt
              \/ /\ Len(written') = Len(written) + 1
                 /\ job \in Limited => dec_cnt' = dec_cnt + 1 /\ dec_cnt' <= frame
           /\ \/ file[pos + 1] = "bad"
              \/ Len(held') = Len(held) /\ skip_frame' = skip_frame
              \/ Len(held') = Len(held) + 1 /\ (job = "video_decoder" => skip_frame' = skip_frame + 1)
<1>0. pc' = "read" /\ savable /\ pos + 1 \in Nat /\ held \in Seq(Nat) /\ written \in Seq(Nat)
  <2>1. Runs /\ pc' = "read" BY ReadEffect
  <2>2. pos \in Nat BY LastType
  <2>. QED BY <2>1, <2>2 DEF Runs, TypeOK, PicturesOK
<1>1. CASE Foreign
  <2>1. UNCHANGED <<held, written, dec_cnt, skip_frame>> BY <1>1 DEF Foreign, counts
  <2>. QED BY <2>1
<1>2. CASE NoPicture
  <2>1. /\ written' = written /\ dec_cnt' = dec_cnt
        /\ job = "video_decoder" => skip_frame' = skip_frame + 1
        /\ \/ file[pos + 1] = "bad"
           \/ Holds(pos + 1)
    BY <1>2 DEF NoPicture, ReadFrame
  <2>2. Holds(pos + 1) => Len(held') = Len(held) + 1 BY <1>0, HoldsOne DEF Holds
  <2>. QED BY <2>1, <2>2
<1>3. CASE Picture
  <2>1. /\ Gives(pos + 1) /\ skip_frame' = skip_frame
        /\ written' = Append(written, Given(pos + 1))
        /\ job \in Limited => dec_cnt' = dec_cnt + 1 /\ dec_cnt' <= frame
    BY <1>0, <1>3 DEF Picture, Goto
  <2>2. held' = Stay(held, pos + 1) /\ written' = Append(written, Leaves(held, pos + 1))
    BY <1>0, <2>1, GivesIs
  <2>3. Len(Stay(held, pos + 1)) = Len(held) /\ Len(Append(written, Leaves(held, pos + 1))) = Len(written) + 1
    BY <1>0, GivesOne
  <2>. QED BY <2>1, <2>2, <2>3
<1>4. CASE BeyondLimit BY <1>0, <1>4 DEF BeyondLimit, Goto
<1>5. CASE TornVanishes \/ PieceCut \/ Parsed
  BY <1>5 DEF TornVanishes, PieceCut, Parsed, Parse
<1>. QED BY <1>1, <1>2, <1>3, <1>4, <1>5 DEF Reading

LEMMA ReadCountInv ==
    ASSUME TypeOK, LineInv, CountInv, Reading, Runs', job # "decoder"
    PROVE  (HeldCount /\ LimitCount /\ SkipCount)'
<1>1. /\ Runs /\ pc = "read" /\ pc' = "read"
      /\ \/ LineStays /\ pos + 1 \notin Good
         \/ Joins(pos + 1)
  BY ReadEffect
<1>2. UNCHANGED <<job, file, frame, delay>> BY InputStays DEF Next, Reading, input
<1>3. /\ pos \in Nat /\ Len(file) \in Nat /\ pos + 1 \in 1 .. Len(file) /\ pos' = pos + 1
  BY ReadsOn
<1>4. HeldCount /\ LimitCount /\ SkipCount BY <1>1 DEF CountInv
<1>5. NGood(pos)' = NGood(pos + 1) BY <1>2, <1>3, GoodStays
<1>6. Len(held) = (IF NGood(pos) < delay THEN NGood(pos) ELSE delay) BY <1>1, <1>4 DEF HeldCount
<1>7. HeldCount'
  <2>1. CASE LineStays /\ pos + 1 \notin Good
    <3>1. NGood(pos + 1) = NGood(pos) BY <1>3, <2>1, OneMoreGood
    <3>. QED BY <1>2, <1>5, <1>6, <2>1, <3>1 DEF HeldCount, LineStays
  <2>2. CASE Joins(pos + 1)
    <3>1. NGood(pos + 1) = NGood(pos) + 1 BY <1>3, <2>2, OneMoreGood DEF Joins
    <3>2. Len(held') = (IF Len(held) < delay THEN Len(held) + 1 ELSE Len(held))
      BY <2>2, CountTypes DEF Joins
    <3>. DEFINE h == Len(held) k == Len(held') g == NGood(pos) d == delay
    <3>3. k = (IF h < d THEN h + 1 ELSE h) /\ h = (IF g < d THEN g ELSE d) /\ g \in Nat /\ d \in Nat
      BY <1>6, <3>2, CountTypes
    <3>. HIDE DEF h, k, g, d
    <3>4. k = (IF g + 1 < d THEN g + 1 ELSE d) BY <3>3
    <3>. QED BY <1>2, <1>5, <3>1, <3>4 DEF HeldCount, h, k, g, d
  <2>. QED BY <1>1, <2>1, <2>2
<1>8. LimitCount'
  <2>1. ASSUME job \in Limited PROVE dec_cnt' = Len(written') /\ (frame >= 0 => dec_cnt' <= frame)
    <3>1. dec_cnt = Len(written) /\ (frame >= 0 => dec_cnt <= frame) BY <1>4, <2>1 DEF LimitCount
    <3>. QED BY <2>1, <3>1, ReadCounts
  <2>. QED BY <1>2, <2>1 DEF LimitCount
<1>9. SkipCount'
  <2>1. ASSUME job = "video_decoder", NoBad PROVE skip_frame' = Len(held')
    <3>1. skip_frame = Len(held) BY <1>1, <1>4, <2>1 DEF SkipCount
    <3>2. file[pos + 1] # "bad"
      <4>1. DOMAIN file = 1 .. Len(file) BY LenProperties DEF TypeOK, InputOK
      <4>. QED BY <1>3, <2>1, <4>1 DEF NoBad
    <3>. QED BY <2>1, <3>1, <3>2, ReadCounts
  <2>2. NoBad' = NoBad BY <1>2 DEF NoBad
  <2>. QED BY <1>1, <1>2, <2>1, <2>2 DEF SkipCount
<1>. QED BY <1>7, <1>8, <1>9

LEMMA DrainCountInv ==
    ASSUME TypeOK, LineInv, CountInv, DrainAgain
    PROVE  (HeldCount /\ LimitCount /\ SkipCount)'
<1>1. /\ Runs /\ pc = "drain" /\ pc' = "drain" /\ job = "video_decoder"
      /\ turn' = turn + 1 /\ skip_frame' = skip_frame
      /\ \/ LineStays /\ refused' = TRUE
         \/ Joins(pos) /\ refused' = refused
  BY DrainEffect
<1>2. UNCHANGED <<job, file, frame, delay>> BY InputStays DEF Next, input
<1>3. NoBad' = NoBad /\ Total' = Total BY <1>2 DEF NoBad, Total, Good
<1>4. SkipCount BY <1>1 DEF CountInv
<1>5. ASSUME NoBad, ~refused', Total >= delay
      PROVE  Len(held') = delay /\ skip_frame' = delay /\ Len(written') = Total - delay + turn'
  <2>1. Joins(pos) /\ ~refused BY <1>1, <1>5
  <2>2. Len(held) = delay /\ skip_frame = delay /\ Len(written) = Total - delay + turn
    BY <1>1, <1>4, <1>5, <2>1 DEF SkipCount
  <2>3. Len(held') = Len(held) /\ Len(written') = Len(written) + 1
    <3>1. Len(held) \in Nat /\ delay \in Nat BY CountTypes
    <3>2. ~(Len(held) < delay) BY <2>2, <3>1
    <3>. QED BY <2>1, <3>2 DEF Joins
  <2>4. Len(written') = Total - delay + (turn + 1)
    <3>1. \A a, b, c \in Int : (a - b + c) + 1 = a - b + (c + 1) OBVIOUS
    <3>2. Total \in Int /\ delay \in Int /\ turn \in Int BY CountTypes
    <3>. QED BY <2>2, <2>3, <3>1, <3>2
  <2>. QED BY <1>1, <2>2, <2>3, <2>4
<1>6. job \notin Limited BY <1>1 DEF Limited
<1>7. SkipCount' BY <1>1, <1>2, <1>3, <1>5 DEF SkipCount
<1>. QED BY <1>1, <1>2, <1>6, <1>7 DEF HeldCount, LimitCount

\* A limit that was passed was reached.
LEMMA LimitReached ==
    ASSUME TypeOK, LineInv, CountInv, BeyondLimit, Runs PROVE AsManyAsDecoded'
<1>1. /\ job \in Limited /\ pc = "read" /\ dec_cnt + 1 > frame /\ Gives(pos + 1)
      /\ file[pos + 1] = "own" /\ written' = written /\ UNCHANGED <<job, frame, delay, file>>
  BY DEF BeyondLimit, ReadFrame, Goto, input
<1>2. job # "decoder" /\ job \notin Unlimited /\ job # "video_decoder"
  BY <1>1 DEF Limited, Unlimited
<1>3. HeldCount /\ LimitCount /\ AllIn BY <1>2 DEF CountInv, LineInv
<1>4. Len(held) >= delay /\ pos + 1 \in 1 .. Len(file) BY <1>1, ReadsOn DEF Gives, Reading
<1>5. /\ Len(held) = (IF NGood(pos) < delay THEN NGood(pos) ELSE delay)
      /\ Len(written) + Len(held) = NGood(pos) /\ dec_cnt = Len(written)
      /\ frame >= 0 => dec_cnt <= frame
  BY <1>1, <1>3, CountTypes DEF HeldCount, LimitCount, AllIn
<1>6. NGood(pos) + 1 <= Total
  <2>1. pos \in Nat /\ pos + 1 \in Nat BY LastType
  <2>2. NGood(pos + 1) = NGood(pos) + 1 BY <1>1, <1>4, <2>1, OneMoreGood
  <2>3. NGood(pos + 1) <= Total BY <2>1, GoodIsFinite DEF Total
  <2>. QED BY <2>2, <2>3
<1>7. frame >= 0 => Len(written) = frame /\ frame < Total - delay
  <2>. DEFINE h == Len(held) w == Len(written) g == NGood(pos) t == Total
  <2>1. /\ h \in Nat /\ w \in Nat /\ g \in Nat /\ t \in Nat /\ delay \in Nat /\ frame \in Int
        /\ h >= delay /\ h = (IF g < delay THEN g ELSE delay) /\ w + h = g /\ g + 1 <= t
        /\ w + 1 > frame /\ (frame >= 0 => w <= frame)
    BY <1>1, <1>4, <1>5, <1>6, CountTypes
  <2>. HIDE DEF h, w, g, t
  <2>2. frame >= 0 => w = frame /\ frame < t - delay BY <2>1
  <2>. QED BY <2>2 DEF w, t
<1>8. Cardinality(Good)' = Total BY <1>1 DEF Good, Total
<1>9. frame >= 0 => Len(written) = IF frame < (IF Total - delay > 0 THEN Total - delay ELSE 0)
                                   THEN frame ELSE (IF Total - delay > 0 THEN Total - delay ELSE 0)
  BY <1>7, CountTypes
<1>. QED BY <1>1, <1>2, <1>8, <1>9 DEF AsManyAsDecoded

\* The jobs that do not drain leave what the decoder holds.
LEMMA EndsUndrained ==
    ASSUME TypeOK, LineInv, CountInv, EndOfFile, Runs, pc' = "done" PROVE AsManyAsDecoded'
<1>1. /\ pc = "read" /\ pos = Len(file) /\ job \notin {"decoder", "video_decoder"}
      /\ written' = written /\ UNCHANGED <<job, frame, delay, file>>
  BY DEF EndOfFile, Goto, input
<1>2. HeldCount /\ LimitCount /\ AllIn BY <1>1 DEF CountInv, LineInv
<1>3. /\ Len(held) = (IF Total < delay THEN Total ELSE delay) /\ Len(written) + Len(held) = Total
      /\ job \in Limited => dec_cnt = Len(written) /\ (frame >= 0 => dec_cnt <= frame)
  BY <1>1, <1>2, CountTypes DEF HeldCount, LimitCount, AllIn
<1>4. /\ Len(written) = (IF Total - delay > 0 THEN Total - delay ELSE 0)
      /\ job \in Limited /\ frame >= 0 => Len(written) <= frame
  <2>. DEFINE h == Len(held) w == Len(written) t == Total
  <2>1. /\ h \in Nat /\ w \in Nat /\ t \in Nat /\ delay \in Nat
        /\ h = (IF t < delay THEN t ELSE delay) /\ w + h = t
    BY <1>3, CountTypes
  <2>2. job \in Limited /\ frame >= 0 => w <= frame BY <1>3
  <2>. HIDE DEF h, w, t
  <2>3. w = (IF t - delay > 0 THEN t - delay ELSE 0) BY <2>1
  <2>. QED BY <2>2, <2>3 DEF w, t
<1>5. Cardinality(Good)' = Total BY <1>1 DEF Good, Total
<1>6. job \in Limited /\ frame >= 0 =>
        Len(written) = IF frame < (IF Total - delay > 0 THEN Total - delay ELSE 0)
                       THEN frame ELSE (IF Total - delay > 0 THEN Total - delay ELSE 0)
  BY <1>4, CountTypes
<1>. QED BY <1>1, <1>4, <1>5, <1>6 DEF AsManyAsDecoded

\* The video decoder has fed its last packet as often as it holds pictures.
LEMMA EndsDrained ==
    ASSUME TypeOK, LineInv, CountInv, DrainEnds, Runs PROVE AsManyAsDecoded'
<1>1. /\ pc = "drain" /\ job = "video_decoder" /\ turn = skip_frame
      /\ UNCHANGED <<written, job, frame, delay, file, refused>>
  BY DEF DrainEnds, Goto, input, history, Runs
<1>2. SkipCount /\ AllIn /\ pos = Len(file) BY <1>1 DEF CountInv, LineInv, TypeOK, PlaceOK
<1>3. job \notin Limited /\ job \notin Unlimited BY <1>1 DEF Limited, Unlimited
<1>4. Good' = Good /\ Cardinality(Good)' = Total BY <1>1 DEF Good, Total
<1>5. ASSUME ~refused, Total - delay >= 0, NoBad
      PROVE  Len(written) = Total /\ WrittenSet = Good
  <2>1. Total >= delay BY <1>5, CountTypes
  <2>2. Len(written) = Total - delay + turn /\ skip_frame = delay
    BY <1>1, <1>2, <1>5, <2>1 DEF SkipCount
  <2>3. Len(written) = Total
    <3>1. \A a, b \in Nat : a - b + b = a OBVIOUS
    <3>. QED BY <1>1, <2>2, <3>1, CountTypes
  <2>4. NGood(pos) = Total /\ GoodTo(pos) = Good
    <3>1. \A n \in Good : n <= pos BY <1>2, GoodIsFinite, CountTypes
    <3>. QED BY <1>2, <3>1, CountTypes DEF GoodTo
  <2>5. written \in Seq(Nat) /\ held \in Seq(Nat) BY DEF TypeOK, PicturesOK
  <2>6. \A i \in 1 .. Len(written) : written[i] = Line[i] /\ i \in 1 .. Len(Line)
    <3>1. Len(Line) = Len(written) + Len(held) /\ Len(held) \in Nat /\ Len(written) \in Nat BY CountTypes
    <3>. QED BY <2>5, <3>1, ConcatProperties DEF Line
  <2>7. DOMAIN written = 1 .. Total BY <2>3, <2>5
  <2>8. WrittenSet \subseteq Good BY <1>2, <2>3, <2>6, <2>7 DEF WrittenSet, AllIn
  <2>9. ASSUME NEW n \in Good PROVE n \in WrittenSet
    <3>1. PICK i \in 1 .. Total : Line[i] = n BY <1>2, <2>4 DEF AllIn
    <3>. QED BY <2>3, <2>6, <2>7, <3>1 DEF WrittenSet
  <2>. QED BY <2>3, <2>8, <2>9
<1>6. WrittenSet' = WrittenSet BY <1>1 DEF WrittenSet
<1>7. (\A n \in DOMAIN file : file[n] # "bad") => NoBad BY DEF NoBad
<1>. QED BY <1>1, <1>3, <1>4, <1>5, <1>6, <1>7 DEF AsManyAsDecoded, Total

LEMMA NextCount == ASSUME TypeOK, LineInv, CountInv, [Next]_vars PROVE CountInv'
<1>0. UNCHANGED <<job, file, perPiece, frame, delay, savable>> BY InputStays DEF input
<1>1. CASE Runs' /\ job # "decoder"
  <2>1. CASE Reading BY <1>1, <2>1, ReadCountInv DEF CountInv
  <2>2. CASE DrainAgain BY <1>1, <2>2, DrainCountInv DEF CountInv
  <2>3. CASE Moving \/ UNCHANGED vars
    <3>1. UNCHANGED <<pos, held, written, dec_cnt, skip_frame, turn, refused>>
      BY <2>3 DEF Moving, OpenFails, Open, EndOfFile, DrainEnds, vars, counts, history
    <3>2. /\ Runs /\ (pc' # "drain" => pc # "drain")
          /\ pc' = "drain" /\ pc # "drain" => pc = "read" /\ pos = Len(file)
      BY <1>0, <1>1, <2>3 DEF Runs, Moving, OpenFails, Open, EndOfFile, DrainEnds, vars, Goto
    <3>3. HeldCount /\ LimitCount /\ SkipCount /\ AllIn BY <1>1, <3>2 DEF CountInv, LineInv
    <3>4. NGood(pos)' = NGood(pos) /\ Total' = Total /\ NoBad' = NoBad
      BY <1>0, <3>1, GoodStays DEF Total, NoBad
    <3>5. HeldCount' /\ LimitCount' BY <1>0, <3>1, <3>2, <3>3, <3>4 DEF HeldCount, LimitCount
    <3>6. SkipCount'
      <4>1. CASE pc' = "drain" <=> pc = "drain"
        BY <1>0, <3>1, <3>3, <3>4, <4>1 DEF SkipCount
      <4>2. CASE pc' = "drain" /\ pc # "drain"
        <5>1. /\ Len(held) = (IF Total < delay THEN Total ELSE delay) /\ Len(written) + Len(held) = Total
              /\ turn = 0 /\ (job = "video_decoder" /\ NoBad => skip_frame = Len(held))
          BY <3>2, <3>3, <4>2, CountTypes DEF HeldCount, SkipCount, AllIn, TypeOK, PlaceOK
        <5>2. Total >= delay => Len(held) = delay /\ Len(written) = Total - delay + turn
          <6>. DEFINE h == Len(held) w == Len(written) t == Total
          <6>1. /\ h \in Nat /\ w \in Nat /\ t \in Nat /\ delay \in Nat /\ turn = 0
                /\ h = (IF t < delay THEN t ELSE delay) /\ w + h = t
            BY <5>1, CountTypes
          <6>. HIDE DEF h, w, t
          <6>2. t >= delay => h = delay /\ w = t - delay + turn BY <6>1
          <6>. QED BY <6>2 DEF h, w, t
        <5>. QED BY <1>0, <3>1, <3>4, <4>2, <5>1, <5>2 DEF SkipCount
      <4>. QED BY <3>2, <4>1, <4>2
    <3>. QED BY <1>1, <3>5, <3>6 DEF CountInv
  <2>4. CASE DrainEmpty BY <1>1, <2>4 DEF DrainEmpty
  <2>. QED BY <2>1, <2>2, <2>3, <2>4 DEF Next, Reading, Moving
<1>2. CASE Runs' /\ job = "decoder" BY <1>0, <1>2 DEF CountInv
<1>3. CASE ~Runs'
  <2>1. written' = written BY <1>3, OnlyRunnersWrite
  <2>2. CASE pc' # "done" \/ ~savable BY <1>0, <1>3, <2>2 DEF CountInv, AsManyAsDecoded
  <2>3. CASE job = "decoder"
    <3>1. job \notin Limited /\ job \notin Unlimited BY <2>3 DEF Limited, Unlimited
    <3>. QED BY <1>0, <1>3, <2>3, <3>1 DEF CountInv, AsManyAsDecoded
  <2>4. CASE pc' = "done" /\ savable /\ job # "decoder" /\ Runs
    <3>1. CASE BeyondLimit BY <1>3, <2>4, <3>1, LimitReached DEF CountInv
    <3>2. CASE EndOfFile BY <1>3, <2>4, <3>2, EndsUndrained DEF CountInv
    <3>3. CASE DrainEnds BY <1>3, <2>4, <3>3, EndsDrained DEF CountInv
    <3>4. CASE ~(BeyondLimit \/ EndOfFile \/ DrainEnds)
      <4>1. pc' = pc \/ pc' # "done"
        BY <3>4 DEF Next, vars, OpenFails, Open, Foreign, NoPicture, Picture, TornVanishes, PieceCut, Parsed,
           DrainEmpty, DrainAgain, Goto, Parse
      <4>. QED BY <2>4, <4>1 DEF Runs
    <3>. QED BY <3>1, <3>2, <3>3, <3>4
  <2>5. CASE pc' = "done" /\ savable /\ job # "decoder" /\ ~Runs
    <3>1. pc \notin {"open", "read", "drain"} BY <2>5 DEF Runs, TypeOK, PlaceOK
    <3>2. UNCHANGED vars
      BY <3>1 DEF Next, OpenFails, Open, Foreign, NoPicture, Picture, BeyondLimit, TornVanishes, PieceCut,
         Parsed, EndOfFile, DrainEmpty, DrainAgain, DrainEnds, Goto, Parse
    <3>3. UNCHANGED <<pc, refused, written>> BY <3>2 DEF vars, history
    <3>4. AsManyAsDecoded BY <2>5 DEF CountInv
    <3>. QED BY <1>0, <1>3, <3>3, <3>4 DEF CountInv, AsManyAsDecoded, Good, WrittenSet
  <2>. QED BY <2>2, <2>3, <2>4, <2>5
<1>. QED BY <1>1, <1>2, <1>3

LEMMA InitCount == Init => CountInv
<1>. SUFFICES ASSUME Init PROVE CountInv
  OBVIOUS
<1>1. /\ TypeOK /\ pc = "open" /\ pos = 0 /\ Len(held) = 0 /\ Len(written) = 0 /\ dec_cnt = 0
      /\ skip_frame = 0
  BY InitType DEF Init
<1>2. NGood(pos) = 0 /\ delay \in Nat BY <1>1, GoodIsFinite DEF TypeOK, InputOK
<1>3. Len(held) = (IF NGood(pos) < delay THEN NGood(pos) ELSE delay) BY <1>1, <1>2
<1>. QED BY <1>1, <1>3 DEF CountInv, HeldCount, LimitCount, SkipCount, AsManyAsDecoded

\* Whatever the file, the limit and what the decoder holds back, a finished job
\* over a container has written as many pictures as it should.
THEOREM NoneMissing == Spec => []AsManyAsDecoded
<1>1. CountInv => AsManyAsDecoded BY DEF CountInv, Runs, AsManyAsDecoded
<1>2. Init => TypeOK /\ LineInv /\ CountInv BY InitType, InitLine, InitCount
<1>3. TypeOK /\ LineInv /\ CountInv /\ [Next]_vars => (TypeOK /\ LineInv /\ CountInv)'
  BY NextType, NextLine, NextCount
<1>. QED BY <1>1, <1>2, <1>3, PTL DEF Spec

=============================================================================
