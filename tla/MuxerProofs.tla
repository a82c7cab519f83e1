----------------------------- MODULE MuxerProofs -----------------------------
(***************************************************************************)
(* Proofs about Muxer, for every set of files and every width of an int.   *)
(***************************************************************************)
EXTENDS Muxer, FiniteSetTheorems, TLAPS

USE DEF Sides

(* A conversion to int stays within the range of an int.                   *)
LEMMA ToIntRange ==
    ASSUME NEW x \in Int
    PROVE  ToInt(x) \in -(IntSpan \div 2) .. IntSpan \div 2
<1>1. IntSpan \in Nat \ {0}
  BY IntSpanAssumption
<1> DEFINE h == IntSpan \div 2
<1>2. h \in Nat /\ IntSpan <= 2 * h + 1
  BY <1>1
<1>3. (x + h) % IntSpan \in 0 .. IntSpan - 1
  BY <1>1, <1>2
<1> QED
  BY <1>1, <1>2, <1>3 DEF ToInt

(* A time base does not change which of two times is earlier.              *)
LEMMA Scaling ==
    ASSUME NEW x \in Int, NEW y \in Int, NEW b \in Nat \ {0}, x <= y
    PROVE  x * b \in Int /\ y * b \in Int /\ x * b <= y * b
<1>1. y = x + (y - x) /\ y - x \in Nat
  OBVIOUS
<1> DEFINE d == y - x
<1>2. d * b \in Nat
  BY <1>1
<1>3. (x + d) * b = x * b + d * b
  BY <1>1
<1> QED
  BY <1>1, <1>2, <1>3

(* A quotient and its remainder.                                           *)
LEMMA Quotient ==
    ASSUME NEW x \in Nat, NEW b \in Nat \ {0}
    PROVE  /\ x \div b \in Nat /\ x % b \in 0 .. b - 1
           /\ x = b * (x \div b) + (x % b)
OBVIOUS

(* What is multiplied by the same base is ordered as it was before.        *)
LEMMA Cancel ==
    ASSUME NEW b \in Nat \ {0}, NEW p \in Int, NEW q \in Int, b * p < b * q
    PROVE  p < q
<1>1. ASSUME q <= p PROVE FALSE
  <2>1. q * b <= p * b BY <1>1, Scaling
  <2>2. q * b = b * q /\ p * b = b * p OBVIOUS
  <2>3. b * p \in Int /\ b * q \in Int OBVIOUS
  <2>. QED BY <2>1, <2>2, <2>3
<1>. QED BY <1>1

(* A truncated quotient is the whole quotient or, where that is exact, one *)
(* less; it is an integer in any case.                                     *)
LEMMA TruncatedWhat ==
    ASSUME NEW x \in Int, NEW b \in Nat \ {0}, NEW t \in Truncated(x, b)
    PROVE  /\ t \in Int
           /\ x >= 0 => t = x \div b \/ (t = x \div b - 1 /\ x % b = 0)
<1>1. CASE x >= 0
  BY <1>1, Quotient DEF Truncated
<1>2. CASE x < 0
  <2>1. -x \in Nat BY <1>2
  <2>2. (-x) \div b \in Nat BY <2>1, Quotient
  <2>. QED BY <1>2, <2>2 DEF Truncated
<1>. QED BY <1>1, <1>2

(* Truncated quotients do not go back, and they rise when the numerators   *)
(* are more than the denominator apart.                                    *)
LEMMA TruncatedRises ==
    ASSUME NEW x \in Nat, NEW y \in Nat, NEW b \in Nat \ {0}, x < y,
           NEW t \in Truncated(x, b), NEW u \in Truncated(y, b)
    PROVE  t <= u /\ (x + b < y => t < u)
<1>. DEFINE p == x \div b
            q == y \div b
<1>1. /\ p \in Nat /\ x % b \in 0 .. b - 1 /\ x = b * p + (x % b)
      /\ q \in Nat /\ y % b \in 0 .. b - 1 /\ y = b * q + (y % b)
  BY Quotient
<1>2. /\ t \in Int /\ u \in Int /\ t <= p
      /\ u = q \/ (u = q - 1 /\ y % b = 0)
  <2>1. t \in Int /\ (t = p \/ (t = p - 1 /\ x % b = 0)) BY TruncatedWhat
  <2>2. u \in Int /\ (u = q \/ (u = q - 1 /\ y % b = 0)) BY TruncatedWhat
  <2>. HIDE DEF p, q
  <2>. QED BY <1>1, <2>1, <2>2
<1>. HIDE DEF p, q
<1>3. /\ b * p \in Int /\ b * q \in Int
      /\ b * (p + 1) = b * p + b /\ b * (q + 1) = b * q + b
  BY <1>1
<1>4. p < q + 1
  <2>1. b * p < b * (q + 1) BY <1>1, <1>3
  <2>. QED BY <1>1, <2>1, Cancel
<1>5. x + b < y => p + 1 < q + 1
  <2>1. x + b < y => b * (p + 1) < b * (q + 1) BY <1>1, <1>3
  <2>. QED BY <1>1, <2>1, Cancel
<1>6. y % b = 0 => p < q
  <2>1. y % b = 0 => b * p < b * q BY <1>1, <1>3
  <2>. QED BY <1>1, <2>1, Cancel
<1>7. x + b < y /\ y % b = 0 => p + 1 < q
  <2>1. x + b < y /\ y % b = 0 => b * (p + 1) < b * q BY <1>1, <1>3
  <2>. QED BY <1>1, <2>1, Cancel
<1>. QED BY <1>1, <1>2, <1>4, <1>5, <1>6, <1>7

-----------------------------------------------------------------------------
(***************************************************************************)
(* Types.                                                                  *)
(***************************************************************************)
LEMMA InitType == Init => TypeOK
<1>. SUFFICES ASSUME Init PROVE TypeOK
  OBVIOUS
<1>1. file["v"] \in VideoFiles /\ file["a"] \in AudioFiles
  BY DEF Init
<1>2. \A s \in Sides : file[s] \in File
  BY <1>1, FilesAssumption
<1>3. \A s \in Sides : nread[s] \in 0 .. Len(file[s].pkts)
  BY <1>2 DEF Init, File
<1>4. 0 \in -(IntSpan \div 2) .. IntSpan \div 2
  BY IntSpanAssumption
<1>5. current_pts \in [Sides -> -(IntSpan \div 2) .. IntSpan \div 2]
  BY <1>4 DEF Init
<1>6. crashed \in BOOLEAN
  BY DEF Init
<1>. QED
  BY <1>1, <1>3, <1>5, <1>6 DEF Init, TypeOK, Stamp

LEMMA FileTypes ==
    ASSUME TypeOK, NEW s \in Sides
    PROVE  /\ file[s] \in File
           /\ file[s].base \in Nat \ {0} /\ file[s].dur \in Int
           /\ file[s].pkts \in Seq(Packet) /\ DOMAIN file[s].pkts = 1 .. Len(file[s].pkts)
           /\ Len(file[s].pkts) \in Nat
           /\ \A n \in DOMAIN file[s].pkts : Pkt(s, n).own \in BOOLEAN /\ Pkt(s, n).pts \in Int \union {NoPts}
<1>1. file[s] \in File
  BY FilesAssumption DEF TypeOK
<1>2. file[s].pkts \in Seq(Packet)
  BY <1>1 DEF File
<1>3. \A n \in DOMAIN file[s].pkts : Pkt(s, n) \in Packet
  BY <1>2 DEF Pkt
<1>. QED
  BY <1>1, <1>2, <1>3 DEF File, Packet

LEMMA MadeUpTypes ==
    ASSUME TypeOK, NEW s \in Sides, NEW k \in Int
    PROVE  \A t \in MadeUp(s, k) : t \in Int
<1>1. file[s].base \in Nat \ {0} /\ file[s].dur \in Int
  BY FileTypes
<1>2. k * (file[s].dur * Us) \in Int
  BY <1>1, UsAssumption
<1>. QED
  BY <1>1, <1>2, TruncatedWhat DEF MadeUp

LEMMA NextType == TypeOK /\ [Next]_vars => TypeOK'
<1>. SUFFICES ASSUME TypeOK, [Next]_vars PROVE TypeOK'
  OBVIOUS
<1>0. ASSUME file' = file PROVE \A s \in Sides : \A n : Pkt(s, n)' = Pkt(s, n)
  BY <1>0 DEF Pkt
<1>1. CASE OpenFails \/ Open \/ Choose \/ Finish \/ UNCHANGED vars
  BY <1>1 DEF TypeOK, OpenFails, Open, Choose, Finish, Goto, vars
<1>2. CASE ChooseMissing
  BY <1>2 DEF TypeOK, ChooseMissing, Goto
<1>3. CASE Skip
  <2>1. src \in Sides /\ nread[src] + 1 \in 0 .. Len(file[src].pkts)
    BY <1>3, FileTypes DEF Skip, TypeOK
  <2>. QED
    BY <1>3, <2>1 DEF TypeOK, Skip, Goto
<1>4. CASE Take
  <2>. DEFINE n == nread[src] + 1
  <2>1. src \in Sides /\ n \in 0 .. Len(file[src].pkts) /\ n \in Nat
    BY <1>4, FileTypes DEF Take, TypeOK
  <2>2. file[src].dur \in Int /\ frame_index \in Int
    BY <2>1, FileTypes DEF TypeOK
  <2>3. \A t \in MadeUp(src, frame_index) : t \in Int
    BY <2>1, MadeUpTypes DEF TypeOK
  <2>4. Pkt(src, n).pts \in Int \union {NoPts}
    BY <1>4, <2>1, FileTypes DEF Take
  <2>5. stamp'.pts \in Int /\ stamp' \in Stamp
    BY <1>4, <2>1, <2>3, <2>4 DEF Take, Stamp
  <2>6. ToInt(stamp'.pts) \in -(IntSpan \div 2) .. IntSpan \div 2
    BY <2>5, ToIntRange
  <2>7. current_pts' \in [Sides -> -(IntSpan \div 2) .. IntSpan \div 2]
    BY <1>4, <2>6 DEF Take, TypeOK
  <2>8. frame_index' \in Nat
    BY <1>4 DEF Take, TypeOK
  <2>9. nread' \in [Sides -> Nat] /\ \A s \in Sides : nread'[s] \in 0 .. Len(file[s].pkts)
    BY <1>4, <2>1 DEF Take, TypeOK
  <2>. QED
    BY <1>4, <2>5, <2>7, <2>8, <2>9 DEF TypeOK, Take, Goto
<1>5. CASE Write
  BY <1>5 DEF TypeOK, Write, Goto
<1>. QED
  BY <1>1, <1>2, <1>3, <1>4, <1>5 DEF Next

(* The variables of simple_ffmpeg_muxer keep their types, current_pts_v    *)
(* and current_pts_a the range of an int, and no packet is asked of a file *)
(* beyond its end.                                                         *)
THEOREM MuxerTypeCorrect == Spec => []TypeOK
BY InitType, NextType, PTL DEF Spec

-----------------------------------------------------------------------------
(***************************************************************************)
(* Copying.  The packet in hand is the last one read; a finished merge has *)
(* read the file it stopped at to its end.                                 *)
(***************************************************************************)
InHand(s) == IF pc = "write" /\ src = s THEN {nread[s]} ELSE {}

CopyInv ==
    /\ CopiedInOrder
    /\ pc = "write" => stamp.src = src /\ stamp.n = nread[src] /\ nread[src] \in Own(src, nread[src])
    /\ pc = "done" => nread[src] = Len(file[src].pkts)

LEMMA WrittenWhich ==
    ASSUME TypeOK
    PROVE  \A s \in Sides : \A n : n \in Written(s) <=>
              \E i \in DOMAIN written : written[i].src = s /\ written[i].n = n
BY DEF Written

(***************************************************************************)
(* Order, for files whose times are given, do not go back and fit an int.  *)
(* Reached(s) is how far the merge has come on side s, in ticks.           *)
(***************************************************************************)
AllTimed   == \A s \in Sides : Timed(s)
Reached(s) == current_pts[s] * file[s].base

\* What is still to come is not earlier, what is written is not later.
Reading ==
    /\ \A s \in Sides : \A n \in Own(s, Len(file[s].pkts)) :
          n > nread[s] => Pkt(s, n).pts >= current_pts[s]
    /\ \A i \in DOMAIN written : written[i].pts <= current_pts[written[i].src]
    /\ pc = "write" => stamp.src = src /\ stamp.pts = current_pts[src]

\* A side is read only when it is behind; so when it has moved on, what it
\* had before lies behind the other side as well.
Behind ==
    /\ pc \in {"read", "done"} => Reached(src) <= Reached(Other[src])
    /\ pc = "write" => \A i \in DOMAIN written : written[i].src = src =>
                          Ticks(written[i]) <= Reached(Other[src])
    /\ \A i, k \in DOMAIN written : i < k /\ written[i].src = written[k].src =>
          Ticks(written[i]) <= Reached(Other[written[i].src])

OrderInv == AllTimed => Reading /\ Behind

-----------------------------------------------------------------------------
LEMMA SameFiles ==
    ASSUME file' = file
    PROVE  /\ \A s \in Sides : \A n : Pkt(s, n)' = Pkt(s, n)
           /\ \A s \in Sides : \A k : Own(s, k)' = Own(s, k)
           /\ AllTimed' = AllTimed
<1>1. \A s \in Sides : \A n : Pkt(s, n)' = Pkt(s, n)
  BY DEF Pkt
<1>2. \A s \in Sides : \A k : Own(s, k)' = Own(s, k)
  BY <1>1 DEF Own
<1>3. \A s \in Sides : Timed(s)' = Timed(s)
  BY <1>1, <1>2 DEF Timed
<1>. QED
  BY <1>1, <1>2, <1>3 DEF AllTimed

LEMMA NextKeepsFiles == [Next]_vars => file' = file
BY DEF Next, vars, OpenFails, Open, ChooseMissing, Choose, Skip, Take, Write, Finish

LEMMA InitCopy == Init => CopyInv
BY DEF Init, CopyInv, CopiedInOrder, Own, Written

(* A step that does not read, write or finish.                             *)
LEMMA IdleCopy ==
    ASSUME TypeOK, CopyInv, file' = file, nread' = nread, written' = written,
           pc' \notin {"write", "done"}, pc # "write"
    PROVE  CopyInv'
<1>1. \A s \in Sides : Written(s)' = Written(s)
  BY DEF Written
<1>2. \A s \in Sides : Own(s, nread[s])' = Own(s, nread[s])
  BY SameFiles
<1>. QED
  BY <1>1, <1>2 DEF CopyInv, CopiedInOrder

LEMMA NextCopy == TypeOK /\ CopyInv /\ [Next]_vars => CopyInv'
<1>. SUFFICES ASSUME TypeOK, CopyInv, [Next]_vars PROVE CopyInv'
  OBVIOUS
<1>0. file' = file
  BY NextKeepsFiles
<1>1. CASE OpenFails \/ Open \/ ChooseMissing \/ Choose
  BY <1>0, <1>1, IdleCopy DEF OpenFails, Open, ChooseMissing, Choose, Goto
<1>2. CASE UNCHANGED vars
  <2>1. \A s \in Sides : Written(s)' = Written(s)
    BY <1>2 DEF vars, Written
  <2>2. \A s \in Sides : \A k : Own(s, k)' = Own(s, k)
    BY <1>0, SameFiles
  <2>3. /\ nread' = nread /\ pc' = pc /\ src' = src /\ stamp' = stamp
        /\ written' = written /\ file' = file
    BY <1>2 DEF vars
  <2>4. \A s \in Sides : Own(s, nread[s])' = Own(s, nread[s])
    BY <2>2, <2>3
  <2>5. Own(src, nread[src])' = Own(src, nread[src])
    BY <2>2, <2>3 DEF TypeOK
  <2>. QED
    BY <2>1, <2>3, <2>4, <2>5 DEF CopyInv, CopiedInOrder
<1>3. CASE Skip
  <2>1. src \in Sides /\ nread[src] \in Nat /\ ~Pkt(src, nread[src] + 1).own
    BY <1>3 DEF Skip, TypeOK
  <2>2. \A s \in Sides : Written(s)' = Written(s)
    BY <1>3 DEF Skip, Written
  <2>3. \A s \in Sides : Own(s, nread[s])' = Own(s, nread[s])
    <3>. SUFFICES ASSUME NEW s \in Sides PROVE Own(s, nread[s])' = Own(s, nread[s])
      OBVIOUS
    <3>1. CASE s # src
      BY <1>3, <3>1, SameFiles DEF Skip, TypeOK
    <3>2. CASE s = src
      <4>1. nread'[s] = nread[s] + 1
        BY <1>3, <3>2, <2>1 DEF Skip, TypeOK
      <4>2. Own(s, nread[s])' = Own(s, nread[s] + 1)
        BY <4>1, <1>0, SameFiles
      <4>. QED
        BY <4>2, <2>1, <3>2 DEF Own
    <3>. QED
      BY <3>1, <3>2
  <2>. QED
    BY <1>3, <2>2, <2>3 DEF Skip, Goto, CopyInv, CopiedInOrder
<1>4. CASE Take
  <2>1. src \in Sides /\ nread[src] \in Nat /\ Pkt(src, nread[src] + 1).own
    BY <1>4 DEF Take, TypeOK
  <2>2. \A s \in Sides : Written(s)' = Written(s)
    BY <1>4 DEF Take, Written
  <2>3. nread'[src] = nread[src] + 1 /\ \A s \in Sides : s # src => nread'[s] = nread[s]
    BY <1>4, <2>1 DEF Take, TypeOK
  <2>4. Own(src, nread[src])' = Own(src, nread[src]) \union {nread[src] + 1}
    <3>1. Own(src, nread[src])' = Own(src, nread[src] + 1)
      BY <2>1, <2>3, <1>0, <1>4, SameFiles DEF Take
    <3>. QED
      BY <3>1, <2>1 DEF Own
  <2>5. \A s \in Sides : s # src => Own(s, nread[s])' = Own(s, nread[s])
    BY <2>3, <1>0, SameFiles
  <2>6. nread[src] + 1 \notin Own(src, nread[src])
    BY <2>1 DEF Own
  <2>7. pc = "read" /\ pc' = "write" /\ src' = src
    BY <1>4 DEF Take, Goto
  <2>8. \A s \in Sides : Written(s)' = Own(s, nread[s])' \ InHand(s)'
    BY <2>1, <2>2, <2>3, <2>4, <2>5, <2>6, <2>7 DEF CopyInv, CopiedInOrder, InHand
  <2>9. stamp'.src = src /\ stamp'.n = nread[src] + 1
    BY <1>4 DEF Take
  <2>. QED
    BY <1>4, <2>3, <2>4, <2>7, <2>8, <2>9 DEF CopyInv, CopiedInOrder, InHand, Take
<1>5. CASE Write
  <2>1. /\ pc = "write" /\ pc' = "choose" /\ src' = src /\ nread' = nread
        /\ written' = Append(written, stamp) /\ src \in Sides /\ nread[src] \in Nat
        /\ written \in Seq(Stamp) /\ stamp \in Stamp
    BY <1>5 DEF Write, Goto, TypeOK
  <2>2. stamp.src = src /\ stamp.n = nread[src] /\ nread[src] \in Own(src, nread[src])
    BY <2>1 DEF CopyInv
  <2>3. /\ DOMAIN written = 1 .. Len(written) /\ Len(written) \in Nat
        /\ DOMAIN written' = 1 .. Len(written) + 1
        /\ \A i \in 1 .. Len(written) : written'[i] = written[i]
        /\ written'[Len(written) + 1] = stamp
    BY <2>1
  <2>4. \A s \in Sides : Written(s)' = Written(s) \union (IF s = src THEN {nread[src]} ELSE {})
    <3>. SUFFICES ASSUME NEW s \in Sides
                  PROVE  Written(s)' = Written(s) \union (IF s = src THEN {nread[src]} ELSE {})
      OBVIOUS
    <3>1. Written(s)' = {written'[i].n : i \in {j \in DOMAIN written' : written'[j].src = s}}
      BY DEF Written
    <3>2. CASE s = src
      BY <2>2, <2>3, <3>1, <3>2 DEF Written
    <3>3. CASE s # src
      BY <2>2, <2>3, <3>1, <3>3 DEF Written
    <3>. QED
      BY <3>2, <3>3
  <2>5. \A s \in Sides : Own(s, nread[s])' = Own(s, nread[s])
    BY <2>1, <1>0, SameFiles
  <2>6. \A s \in Sides : Written(s)' = Own(s, nread[s])'
    <3>1. \A s \in Sides : Written(s) = Own(s, nread[s]) \ (IF s = src THEN {nread[src]} ELSE {})
      BY <2>1 DEF CopyInv, CopiedInOrder
    <3>. QED
      BY <2>2, <2>4, <2>5, <3>1
  <2>7. \A i \in DOMAIN written : written[i].src = src => written[i].n < nread[src]
    <3>. SUFFICES ASSUME NEW i \in DOMAIN written, written[i].src = src
                  PROVE  written[i].n < nread[src]
      OBVIOUS
    <3>1. written[i].n \in Written(src)
      BY <2>1, WrittenWhich
    <3>2. written[i].n \in Own(src, nread[src]) \ {nread[src]}
      BY <2>1, <3>1 DEF CopyInv, CopiedInOrder
    <3>. QED
      BY <3>2, <2>1 DEF Own
  <2>8. \A s \in Sides : \A i, j \in DOMAIN written' :
            written'[i].src = s /\ written'[j].src = s /\ i < j => written'[i].n < written'[j].n
    <3>. SUFFICES ASSUME NEW s \in Sides, NEW i \in DOMAIN written', NEW j \in DOMAIN written',
                         written'[i].src = s, written'[j].src = s, i < j
                  PROVE  written'[i].n < written'[j].n
      OBVIOUS
    <3>1. CASE j \in DOMAIN written
      BY <2>3, <3>1 DEF CopyInv, CopiedInOrder
    <3>2. CASE j = Len(written) + 1
      BY <2>2, <2>3, <2>7, <3>2
    <3>. QED
      BY <2>3, <3>1, <3>2
  <2>. QED
    BY <2>1, <2>6, <2>8 DEF CopyInv, CopiedInOrder
<1>6. CASE Finish
  <2>1. \A s \in Sides : Written(s)' = Written(s)
    BY <1>6 DEF Finish, Written
  <2>2. \A s \in Sides : Own(s, nread[s])' = Own(s, nread[s])
    BY <1>6, SameFiles DEF Finish
  <2>. QED
    BY <1>6, <2>1, <2>2 DEF Finish, Goto, CopyInv, CopiedInOrder
<1>. QED
  BY <1>1, <1>2, <1>3, <1>4, <1>5, <1>6 DEF Next

(* Whatever the two files hold, each stream is copied in its own order,    *)
(* without gaps and without packets of other streams.                      *)
THEOREM MuxerCopies == Spec => []CopiedInOrder
<1>1. Init => TypeOK /\ CopyInv
  BY InitType, InitCopy
<1>2. TypeOK /\ CopyInv /\ [Next]_vars => (TypeOK /\ CopyInv)'
  BY NextType, NextCopy
<1>3. CopyInv => CopiedInOrder
  BY DEF CopyInv
<1>. QED
  BY <1>1, <1>2, <1>3, PTL DEF Spec

-----------------------------------------------------------------------------
LEMMA InitOrder == Init => OrderInv
<1>. SUFFICES ASSUME Init, AllTimed PROVE Reading /\ Behind
  BY DEF OrderInv
<1>1. \A s \in Sides : \A n \in Own(s, Len(file[s].pkts)) : Pkt(s, n).pts >= 0
  BY DEF AllTimed, Timed
<1>. QED
  BY <1>1 DEF Init, Reading, Behind

LEMMA TimedPts ==
    ASSUME TypeOK, AllTimed, NEW s \in Sides, NEW n \in Own(s, Len(file[s].pkts))
    PROVE  Pkt(s, n).pts \in Int /\ ToInt(Pkt(s, n).pts) = Pkt(s, n).pts
<1>1. n \in DOMAIN file[s].pkts
  BY FileTypes DEF Own
<1>2. Pkt(s, n).pts \in Int \union {NoPts} /\ Pkt(s, n).pts # NoPts
  BY <1>1, FileTypes DEF AllTimed, Timed
<1>. QED
  BY <1>2 DEF AllTimed, Timed

LEMMA ReachedInt ==
    ASSUME TypeOK, NEW s \in Sides
    PROVE  /\ current_pts[s] \in Int /\ Reached(s) \in Int
           /\ \A x \in Int : x <= current_pts[s] => x * file[s].base <= Reached(s)
           /\ \A x \in Int : current_pts[s] <= x => Reached(s) <= x * file[s].base
<1>1. current_pts[s] \in Int /\ file[s].base \in Nat \ {0}
  BY FileTypes, IntSpanAssumption DEF TypeOK
<1>. QED
  BY <1>1, Scaling DEF Reached

LEMMA WrittenTypes ==
    ASSUME TypeOK
    PROVE  /\ DOMAIN written = 1 .. Len(written) /\ Len(written) \in Nat
           /\ \A i \in DOMAIN written :
                 written[i].src \in Sides /\ written[i].pts \in Int /\ Ticks(written[i]) \in Int
<1>1. DOMAIN written = 1 .. Len(written) /\ Len(written) \in Nat
  BY DEF TypeOK
<1>2. \A i \in DOMAIN written : written[i] \in Stamp
  BY DEF TypeOK
<1>3. \A i \in DOMAIN written : written[i].src \in Sides /\ written[i].pts \in Int
  BY <1>2 DEF Stamp
<1>4. \A i \in DOMAIN written : file[written[i].src].base \in Int
  BY <1>3, FileTypes
<1>. QED
  BY <1>1, <1>3, <1>4 DEF Ticks

(* A step that reads no packet and writes none.                            *)
LEMMA IdleOrder ==
    ASSUME TypeOK, Reading, Behind, file' = file, written' = written,
           current_pts' = current_pts, stamp' = stamp,
           \A s \in Sides : nread'[s] \in Int /\ nread'[s] >= nread[s],
           pc' = "write" => pc = "write" /\ src' = src,
           pc' \in {"read", "done"} => Reached(src') <= Reached(Other[src'])
    PROVE  Reading' /\ Behind'
<1>1. \A s \in Sides : Reached(s)' = Reached(s)
  BY DEF Reached
<1>2. \A i \in DOMAIN written : Ticks(written[i])' = Ticks(written[i])
  BY DEF Ticks
<1>3. \A s \in Sides : \A n : Pkt(s, n)' = Pkt(s, n)
  BY SameFiles
<1>4. \A s \in Sides : Own(s, Len(file[s].pkts))' = Own(s, Len(file[s].pkts))
  BY SameFiles
<1>5. Reading'
  <2>1. ASSUME NEW s \in Sides, NEW n \in Own(s, Len(file[s].pkts)), n > nread'[s]
        PROVE  Pkt(s, n).pts >= current_pts[s]
    <3>1. n \in Int
      BY FileTypes DEF Own
    <3>2. n > nread[s]
      BY <2>1, <3>1 DEF TypeOK
    <3>. QED
      BY <2>1, <3>2 DEF Reading
  <2>. QED
    BY <1>3, <1>4, <2>1 DEF Reading
<1>6. Behind'
  <2>1. pc' \in {"read", "done"} => Reached(src)' <= Reached(Other[src])'
    BY DEF Reached
  <2>2. pc' = "write" => \A i \in DOMAIN written : written[i].src = src' =>
                           Ticks(written[i])' <= Reached(Other[src])'
    BY <1>1, <1>2 DEF Behind, TypeOK, Other
  <2>3. \A i, k \in DOMAIN written : i < k /\ written[i].src = written[k].src =>
          Ticks(written[i])' <= Reached(Other[written[i].src])'
    BY <1>1, <1>2, WrittenTypes DEF Behind, Other
  <2>. QED
    BY <2>1, <2>2, <2>3 DEF Behind
<1>. QED
  BY <1>5, <1>6

(* The packet taken is not earlier than the last one of its side.          *)
LEMMA TakeOrder == TypeOK /\ AllTimed /\ Reading /\ Behind /\ Take => Reading' /\ Behind'
<1>. SUFFICES ASSUME TypeOK, AllTimed, Reading, Behind, Take PROVE Reading' /\ Behind'
  OBVIOUS
<1>. DEFINE n == nread[src] + 1
            p == Pkt(src, n).pts
<1>1. /\ src \in Sides /\ n \in DOMAIN file[src].pkts /\ n \in 1 .. Len(file[src].pkts)
      /\ nread[src] \in Nat /\ Pkt(src, n).own
  BY FileTypes DEF Take, TypeOK
<1>2. n \in Own(src, Len(file[src].pkts))
  BY <1>1 DEF Own
<1>3. p \in Int /\ ToInt(p) = p /\ p # NoPts
  BY <1>1, <1>2, TimedPts, NoPtsAssumption
<1>4. /\ file' = file /\ written' = written /\ src' = src /\ pc = "read" /\ pc' = "write"
      /\ stamp' = [src |-> src, n |-> n, pts |-> p]
      /\ nread' = [nread EXCEPT ![src] = n]
      /\ current_pts' = [current_pts EXCEPT ![src] = p]
  <2>1. stamp' = [src |-> src, n |-> n, pts |-> p]
    BY <1>3 DEF Take
  <2>2. stamp'.pts = p
    BY <2>1
  <2>. QED
    BY <1>3, <2>1, <2>2 DEF Take, Goto
<1>5. current_pts[src] \in Int /\ current_pts[src] <= p
  BY <1>1, <1>2, <1>3, ReachedInt DEF Reading
<1>6. /\ current_pts'[src] = p /\ nread'[src] = n
      /\ \A s \in Sides : s # src => current_pts'[s] = current_pts[s] /\ nread'[s] = nread[s]
  BY <1>1, <1>4 DEF TypeOK
<1>. DEFINE R(s) == current_pts'[s] * file[s].base
<1>7. \A s \in Sides : Reached(s) \in Int /\ R(s) \in Int /\ Reached(s) <= R(s)
  <2>1. Reached(src) <= p * file[src].base /\ p * file[src].base \in Int
    <3>1. file[src].base \in Int
      BY <1>1, FileTypes
    <3>2. \A x \in Int : current_pts[src] <= x => Reached(src) <= x * file[src].base
      BY <1>1, ReachedInt
    <3>. HIDE DEF p
    <3>. QED
      BY <1>3, <1>5, <3>1, <3>2
  <2>2. R(src) = p * file[src].base
    BY <1>6
  <2>3. \A s \in Sides : s # src => R(s) = Reached(s)
    BY <1>6 DEF Reached
  <2>. HIDE DEF R
  <2>. QED
    BY <2>1, <2>2, <2>3, ReachedInt
<1>. HIDE DEF R
<1>9. Reading'
  <2>1. \A s \in Sides : \A m : Pkt(s, m)' = Pkt(s, m)
    BY <1>4, SameFiles
  <2>2. \A s \in Sides : Own(s, Len(file[s].pkts))' = Own(s, Len(file[s].pkts))
    BY <1>4, SameFiles
  <2>3. \A s \in Sides : \A m \in Own(s, Len(file[s].pkts)) :
           m > nread'[s] => Pkt(s, m).pts >= current_pts'[s]
    <3>. SUFFICES ASSUME NEW s \in Sides, NEW m \in Own(s, Len(file[s].pkts)), m > nread'[s]
                  PROVE  Pkt(s, m).pts >= current_pts'[s]
      OBVIOUS
    <3>1. CASE s # src
      BY <1>6, <3>1 DEF Reading
    <3>2. CASE s = src
      <4>1. n < m
        BY <1>1, <1>6, <3>2, FileTypes DEF Own
      <4>2. p <= Pkt(s, m).pts
        BY <1>2, <3>2, <4>1 DEF AllTimed, Timed
      <4>. QED
        BY <1>3, <1>6, <3>2, <4>2, TimedPts
    <3>. QED
      BY <3>1, <3>2
  <2>4. \A i \in DOMAIN written : written[i].pts <= current_pts'[written[i].src]
    <3>. SUFFICES ASSUME NEW i \in DOMAIN written
                  PROVE  written[i].pts <= current_pts'[written[i].src]
      OBVIOUS
    <3>1. written[i].pts <= current_pts[written[i].src] /\ written[i].pts \in Int /\ written[i].src \in Sides
      BY WrittenTypes DEF Reading
    <3>. QED
      BY <1>3, <1>5, <1>6, <3>1
  <2>. QED
    BY <1>4, <1>6, <2>1, <2>2, <2>3, <2>4 DEF Reading
<1>10. Behind'
  <2>1. Other[src] \in Sides /\ Other[src] # src
    BY <1>1 DEF Other
  <2>2. ASSUME NEW i \in DOMAIN written, written[i].src = src
        PROVE  Ticks(written[i]) <= R(Other[src])
    <3>1. Ticks(written[i]) <= Reached(src) /\ Ticks(written[i]) \in Int
      BY <1>1, <2>2, WrittenTypes, ReachedInt DEF Reading, Ticks
    <3>2. Reached(src) <= Reached(Other[src])
      BY <1>4 DEF Behind
    <3>. QED
      BY <1>1, <1>7, <2>1, <3>1, <3>2
  <2>3. ASSUME NEW i \in DOMAIN written, NEW k \in DOMAIN written,
               i < k, written[i].src = written[k].src
        PROVE  Ticks(written[i]) <= R(Other[written[i].src])
    <3>1. Ticks(written[i]) <= Reached(Other[written[i].src])
      BY <2>3 DEF Behind
    <3>2. Other[written[i].src] \in Sides /\ Ticks(written[i]) \in Int
      BY WrittenTypes DEF Other
    <3>. QED
      BY <1>7, <3>1, <3>2
  <2>. QED
    BY <1>4, <2>2, <2>3 DEF Behind, Reached, Ticks, R
<1>. QED
  BY <1>9, <1>10

LEMMA WriteOrder == TypeOK /\ AllTimed /\ Reading /\ Behind /\ Interleaved /\ Write =>
                    Reading' /\ Behind' /\ Interleaved'
<1>. SUFFICES ASSUME TypeOK, AllTimed, Reading, Behind, Interleaved, Write
              PROVE  Reading' /\ Behind' /\ Interleaved'
  OBVIOUS
<1>. DEFINE last == Len(written) + 1
<1>1. /\ pc = "write" /\ pc' = "choose" /\ src' = src /\ nread' = nread /\ file' = file
      /\ current_pts' = current_pts /\ stamp' = stamp /\ written' = Append(written, stamp)
      /\ src \in Sides
  BY DEF Write, Goto, TypeOK
<1>2. stamp.src = src /\ stamp.pts = current_pts[src]
  BY <1>1 DEF Reading
<1>3. /\ DOMAIN written = 1 .. Len(written) /\ Len(written) \in Nat
      /\ DOMAIN written' = 1 .. last
      /\ \A i \in DOMAIN written : written'[i] = written[i]
      /\ written'[last] = stamp
  BY <1>1 DEF TypeOK
<1>4. /\ \A i \in DOMAIN written : Ticks(written'[i]) = Ticks(written[i])
      /\ Ticks(written'[last]) = Reached(src)
  BY <1>2, <1>3 DEF Reached, Ticks
<1>5. Reading'
  <2>1. \A s \in Sides : \A n : Pkt(s, n)' = Pkt(s, n)
    BY <1>1, SameFiles
  <2>2. \A s \in Sides : Own(s, Len(file[s].pkts))' = Own(s, Len(file[s].pkts))
    BY <1>1, SameFiles
  <2>3. \A i \in DOMAIN written' : written'[i].pts <= current_pts[written'[i].src]
    <3>1. current_pts[src] \in Int
      BY <1>1, ReachedInt
    <3>. QED
      BY <1>2, <1>3, <3>1 DEF Reading
  <2>. QED
    BY <1>1, <2>1, <2>2, <2>3 DEF Reading
<1>6. \A i, k \in DOMAIN written' : i < k /\ written'[i].src = written'[k].src =>
         Ticks(written'[i]) <= Reached(Other[written'[i].src])
  <2>. SUFFICES ASSUME NEW i \in DOMAIN written', NEW k \in DOMAIN written',
                       i < k, written'[i].src = written'[k].src
                PROVE  Ticks(written'[i]) <= Reached(Other[written'[i].src])
    OBVIOUS
  <2>1. i \in DOMAIN written
    BY <1>3
  <2>2. CASE k \in DOMAIN written
    BY <1>3, <1>4, <2>1, <2>2 DEF Behind
  <2>3. CASE k = last
    BY <1>1, <1>2, <1>3, <1>4, <2>1, <2>3 DEF Behind
  <2>. QED
    BY <1>3, <2>2, <2>3
<1>7. Behind'
  BY <1>1, <1>6 DEF Behind, Reached, Ticks
<1>8. Interleaved'
  <2>. SUFFICES ASSUME NEW i \in DOMAIN written', NEW k \in DOMAIN written', NEW j \in DOMAIN written',
                       i < k, k < j, written'[i].src = written'[k].src,
                       written'[k].src # written'[j].src
                PROVE  Ticks(written'[i]) <= Ticks(written'[j])
    BY <1>1 DEF Interleaved, Ticks
  <2>1. i \in DOMAIN written /\ k \in DOMAIN written
    BY <1>3
  <2>2. CASE j \in DOMAIN written
    <3>1. \A s \in Sides : Timed(s)
      BY DEF AllTimed
    <3>. QED
      BY <1>3, <1>4, <2>1, <2>2, <3>1 DEF Interleaved
  <2>3. CASE j = last
    <3>1. Ticks(written[i]) <= Reached(Other[written[i].src])
      BY <1>3, <2>1 DEF Behind
    <3>2. Other[written[i].src] = src
      BY <1>1, <1>2, <1>3, <2>1, <2>3, WrittenTypes DEF Other
    <3>. QED
      BY <1>4, <2>1, <2>3, <3>1, <3>2
  <2>. QED
    BY <1>3, <2>2, <2>3
<1>. QED
  BY <1>5, <1>7, <1>8

LEMMA InterleavedStays ==
    ASSUME Interleaved, file' = file, written' = written
    PROVE  Interleaved'
<1>1. AllTimed' = AllTimed
  BY SameFiles
<1>. QED
  BY <1>1 DEF Interleaved, AllTimed, Ticks

LEMMA NextOrder == TypeOK /\ OrderInv /\ Interleaved /\ [Next]_vars => (OrderInv /\ Interleaved)'
<1>. SUFFICES ASSUME TypeOK, OrderInv, Interleaved, [Next]_vars PROVE OrderInv' /\ Interleaved'
  OBVIOUS
<1>1. file' = file /\ AllTimed' = AllTimed
  BY NextKeepsFiles, SameFiles
<1>2. CASE ~AllTimed
  BY <1>1, <1>2 DEF OrderInv, Interleaved, AllTimed
<1>3. CASE AllTimed
  <2>1. Reading /\ Behind
    BY <1>3 DEF OrderInv
  <2>2. src \in Sides /\ \A s \in Sides : nread[s] \in Int
    BY DEF TypeOK
  <2>3. Reading' /\ Behind' /\ Interleaved'
    <3>1. CASE OpenFails \/ Open \/ ChooseMissing
      <4>1. /\ pc' \notin {"read", "write", "done"} /\ nread' = nread /\ written' = written
            /\ current_pts' = current_pts /\ stamp' = stamp
        BY <3>1 DEF OpenFails, Open, ChooseMissing, Goto
      <4>. QED
        BY <1>1, <2>1, <2>2, <4>1, IdleOrder, InterleavedStays
    <3>2. CASE Choose
      <4>1. Reached(src') <= Reached(Other[src'])
        <5>1. Reached("v") \in Int /\ Reached("a") \in Int
          BY ReachedInt
        <5>. QED
          BY <3>2, <5>1 DEF Choose, VideoBehind, Reached, Other
      <4>. QED
        BY <1>1, <2>1, <2>2, <3>2, <4>1, IdleOrder, InterleavedStays DEF Choose, Goto
    <3>3. CASE Skip
      <4>1. \A s \in Sides : nread'[s] \in Int /\ nread'[s] >= nread[s]
        BY <2>2, <3>3 DEF Skip, TypeOK
      <4>2. Reached(src') <= Reached(Other[src']) /\ pc' = "read"
        BY <2>1, <3>3 DEF Skip, Goto, Behind
      <4>. QED
        BY <1>1, <2>1, <3>3, <4>1, <4>2, IdleOrder, InterleavedStays DEF Skip
    <3>4. CASE Take
      BY <1>1, <1>3, <2>1, <3>4, TakeOrder, InterleavedStays DEF Take
    <3>5. CASE Write
      BY <1>3, <2>1, <3>5, WriteOrder
    <3>6. CASE Finish
      <4>1. Reached(src') <= Reached(Other[src'])
        BY <2>1, <3>6 DEF Finish, Goto, Behind
      <4>. QED
        BY <1>1, <2>1, <2>2, <3>6, <4>1, IdleOrder, InterleavedStays DEF Finish, Goto
    <3>7. CASE UNCHANGED vars
      <4>1. /\ nread' = nread /\ written' = written /\ pc' = pc /\ src' = src
            /\ current_pts' = current_pts /\ stamp' = stamp
        BY <3>7 DEF vars
      <4>2. pc' \in {"read", "done"} => Reached(src') <= Reached(Other[src'])
        BY <2>1, <4>1 DEF Behind
      <4>. QED
        BY <1>1, <2>1, <2>2, <4>1, <4>2, IdleOrder, InterleavedStays
    <3>. QED
      BY <3>1, <3>2, <3>3, <3>4, <3>5, <3>6, <3>7 DEF Next
  <2>. QED
    BY <2>3 DEF OrderInv
<1>. QED
  BY <1>2, <1>3

MuxerInv == TypeOK /\ CopyInv /\ OrderInv /\ Interleaved

LEMMA Inductive == Spec => []MuxerInv
<1>1. Init => MuxerInv
  BY InitType, InitCopy, InitOrder DEF MuxerInv, Init, Interleaved
<1>2. MuxerInv /\ [Next]_vars => MuxerInv'
  BY NextType, NextCopy, NextOrder DEF MuxerInv
<1>. QED
  BY <1>1, <1>2, PTL DEF Spec

(* For files whose times do not go back: a packet is written only when     *)
(* every packet the other stream still has is as late as its predecessor.  *)
THEOREM MuxerInterleaves == Spec => []Interleaved
<1>1. MuxerInv => Interleaved
  BY DEF MuxerInv
<1>. QED
  BY <1>1, Inductive, PTL

(* The merge copies all of the stream whose file ends first, and loses of  *)
(* the other only what is not earlier than the last packet of the first.   *)
THEOREM MuxerLosesTailOnly == Spec => []OnlyTailLost
<1>1. MuxerInv => OnlyTailLost
  <2>. SUFFICES ASSUME MuxerInv, pc = "done"
                PROVE  LET other == Other[src]
                           left  == Own(other, Len(file[other].pkts)) \ Written(other)
                       IN  /\ Written(src) = Own(src, Len(file[src].pkts))
                           /\ (\A s \in Sides : Timed(s)) =>
                                  \A i \in DOMAIN written : written[i].src = src =>
                                      \A n \in left :
                                          Ticks(written[i]) <= Pkt(other, n).pts * file[other].base
    BY DEF OnlyTailLost
  <2>. DEFINE other == Other[src]
              left  == Own(other, Len(file[other].pkts)) \ Written(other)
  <2>1. TypeOK /\ CopyInv /\ OrderInv
    BY DEF MuxerInv
  <2>2. src \in Sides /\ other \in Sides /\ \A s \in Sides : nread[s] \in Int
    BY <2>1 DEF TypeOK, Other
  <2>3. \A s \in Sides : Written(s) = Own(s, nread[s])
    BY <2>1 DEF CopyInv, CopiedInOrder
  <2>4. nread[src] = Len(file[src].pkts)
    BY <2>1 DEF CopyInv
  <2>5. ASSUME AllTimed, NEW i \in DOMAIN written, written[i].src = src, NEW n \in left
        PROVE  Ticks(written[i]) <= Pkt(other, n).pts * file[other].base
    <3>1. Reading /\ Behind
      BY <2>1, <2>5 DEF OrderInv
    <3>2. n \in Own(other, Len(file[other].pkts)) /\ n \notin Own(other, nread[other])
      BY <2>2, <2>3, <2>5
    <3>3. n > nread[other]
      BY <2>1, <2>2, <3>2, FileTypes DEF Own
    <3>4. current_pts[other] <= Pkt(other, n).pts /\ Pkt(other, n).pts \in Int
      BY <2>1, <2>2, <2>5, <3>1, <3>2, <3>3, TimedPts, ReachedInt DEF Reading
    <3>5. Reached(other) <= Pkt(other, n).pts * file[other].base
      BY <2>1, <2>2, <3>4, ReachedInt
    <3>6. Ticks(written[i]) <= Reached(src)
      BY <2>1, <2>2, <2>5, <3>1, WrittenTypes, ReachedInt DEF Reading, Ticks
    <3>7. Reached(src) <= Reached(other)
      BY <3>1 DEF Behind
    <3>8. Pkt(other, n).pts * file[other].base \in Int
      BY <2>1, <2>2, <3>4, FileTypes
    <3>. QED
      BY <2>1, <2>2, <3>5, <3>6, <3>7, <3>8, WrittenTypes, ReachedInt
  <2>. QED
    BY <2>2, <2>3, <2>4, <2>5 DEF AllTimed
<1>. QED
  BY <1>1, Inductive, PTL

-----------------------------------------------------------------------------
(***************************************************************************)
(* Raw streams.  Every packet written of a raw side has a time made up for *)
(* a number that frame_index has passed, the packet in hand one made up    *)
(* for the number before frame_index; and when the other side has times of *)
(* its own, frame_index counts the packets of the raw side alone.          *)
(***************************************************************************)
IsRaw(s)     == Raw(s) /\ file[s].dur > 0
Holds(s)     == pc = "write" /\ src = s
Before(s, k) == {n \in Own(s, Len(file[s].pkts)) : n < k}
Passed(s)    == IF Holds(s) THEN frame_index - 1 ELSE frame_index

Below ==
    \A s \in Sides : IsRaw(s) =>
        /\ \A i \in DOMAIN written : written[i].src = s =>
              \E k \in Nat : k < Passed(s) /\ written[i].pts \in MadeUp(s, k)
        /\ Holds(s) => stamp.pts \in MadeUp(s, frame_index - 1) /\ frame_index > 0
Alone ==
    \A s \in Sides : IsRaw(s) /\ Timed(Other[s]) =>
        /\ frame_index = Cardinality(Own(s, nread[s]))
        /\ Holds(s) => stamp.pts \in MadeUp(s, Cardinality(Before(s, stamp.n)))
RawInv == Below /\ Alone /\ RawStampsRise

LEMMA OwnSets ==
    ASSUME TypeOK, NEW s \in Sides, NEW k \in 0 .. Len(file[s].pkts)
    PROVE  /\ Own(s, k) \subseteq 1 .. k /\ IsFiniteSet(Own(s, k)) /\ Cardinality(Own(s, k)) \in Nat
           /\ k + 1 \in DOMAIN file[s].pkts =>
                /\ Pkt(s, k + 1).own =>
                     /\ Cardinality(Own(s, k + 1)) = Cardinality(Own(s, k)) + 1
                     /\ Before(s, k + 1) = Own(s, k)
                /\ ~Pkt(s, k + 1).own => Own(s, k + 1) = Own(s, k)
<1>0. k \in Nat /\ Len(file[s].pkts) \in Nat /\ k <= Len(file[s].pkts)
      /\ DOMAIN file[s].pkts = 1 .. Len(file[s].pkts)
  BY FileTypes
<1>1. Own(s, k) \subseteq 1 .. k BY DEF Own
<1>2. IsFiniteSet(1 .. k) BY <1>0, FS_Interval
<1>3. IsFiniteSet(Own(s, k)) /\ Cardinality(Own(s, k)) \in Nat
  BY <1>1, <1>2, FS_Subset, FS_CardinalityType
<1>4. ASSUME k + 1 \in DOMAIN file[s].pkts, Pkt(s, k + 1).own
      PROVE  /\ Cardinality(Own(s, k + 1)) = Cardinality(Own(s, k)) + 1
             /\ Before(s, k + 1) = Own(s, k)
  <2>1. Own(s, k + 1) = Own(s, k) \union {k + 1} /\ k + 1 \notin Own(s, k)
    BY <1>0, <1>4 DEF Own
  <2>2. Before(s, k + 1) = Own(s, k) BY <1>0, <1>4 DEF Own, Before
  <2>. QED BY <1>3, <2>1, <2>2, FS_AddElement
<1>5. ASSUME k + 1 \in DOMAIN file[s].pkts, ~Pkt(s, k + 1).own PROVE Own(s, k + 1) = Own(s, k)
  BY <1>0, <1>5 DEF Own
<1>. QED BY <1>1, <1>3, <1>4, <1>5

LEMMA RawFiles ==
    ASSUME file' = file
    PROVE  /\ \A s \in Sides : IsRaw(s)' = IsRaw(s) /\ Timed(s)' = Timed(s)
           /\ \A s \in Sides : Timed(Other[s])' = Timed(Other[s])
           /\ \A s \in Sides : \A k : Before(s, k)' = Before(s, k) /\ Own(s, k)' = Own(s, k)
<1>1. \A s \in Sides : \A n : Pkt(s, n)' = Pkt(s, n) BY SameFiles
<1>2. \A s \in Sides : \A k : Own(s, k)' = Own(s, k) BY SameFiles
<1>3. \A s \in Sides : Timed(s)' = Timed(s) BY <1>1, <1>2 DEF Timed
<1>4. \A s \in Sides : Timed(Other[s])' = Timed(Other[s]) BY <1>3 DEF Other
<1>5. \A s \in Sides : IsRaw(s)' = IsRaw(s) BY <1>1, <1>2 DEF IsRaw, Raw
<1>6. \A s \in Sides : \A k : Before(s, k)' = Before(s, k) BY <1>2 DEF Before
<1>. QED BY <1>2, <1>3, <1>4, <1>5, <1>6

\* What is made up for a later number is not earlier, and later where a
\* frame is longer than a unit of the time base.
LEMMA MadeRises ==
    ASSUME TypeOK, NEW s \in Sides, file[s].dur > 0, NEW k \in Nat, NEW m \in Nat, k < m,
           NEW t \in MadeUp(s, k), NEW u \in MadeUp(s, m)
    PROVE  t <= u /\ (LongFrames(s) => t < u)
<1>. DEFINE d == file[s].dur * Us
<1>1. file[s].base \in Nat \ {0} /\ d \in Nat \ {0}
  <2>1. file[s].base \in Nat \ {0} /\ file[s].dur \in Nat \ {0} BY FileTypes
  <2>2. \A x, y \in Nat \ {0} : x * y \in Nat \ {0} OBVIOUS
  <2>. QED BY <2>1, <2>2, UsAssumption
<1>2. t \in Truncated(k * d, file[s].base) /\ u \in Truncated(m * d, file[s].base)
  BY DEF MadeUp
<1>3. LongFrames(s) => d > file[s].base
  BY DEF LongFrames
<1>. HIDE DEF d
<1>4. k * d \in Nat /\ m * d \in Nat /\ k * d + d <= m * d
  <2>1. (k + 1) * d <= m * d BY <1>1, Scaling
  <2>2. (k + 1) * d = k * d + d BY <1>1
  <2>3. k * d \in Nat /\ m * d \in Nat BY <1>1
  <2>. QED BY <2>1, <2>2, <2>3
<1>5. k * d < m * d /\ (LongFrames(s) => k * d + file[s].base < m * d)
  <2>. DEFINE x == k * d
              y == m * d
  <2>1. x \in Nat /\ y \in Nat /\ x + d <= y BY <1>4
  <2>. HIDE DEF x, y
  <2>2. x < y /\ (LongFrames(s) => x + file[s].base < y) BY <1>1, <1>3, <2>1
  <2>. QED BY <2>2 DEF x, y
<1>. QED BY <1>1, <1>2, <1>4, <1>5, TruncatedRises

LEMMA InitRaw == Init => RawInv
<1>. SUFFICES ASSUME Init PROVE RawInv
  OBVIOUS
<1>1. written = <<>> /\ pc = "open" /\ frame_index = 0 /\ \A s \in Sides : nread[s] = 0
  BY DEF Init
<1>2. \A s \in Sides : Own(s, 0) = {} BY DEF Own
<1>3. \A s \in Sides : Cardinality(Own(s, nread[s])) = 0
  <2>. TAKE s \in Sides
  <2>1. Own(s, nread[s]) = {} BY <1>1, <1>2
  <2>. QED BY <2>1, FS_EmptySet
<1>4. Below BY <1>1 DEF Below, Holds
<1>5. Alone BY <1>1, <1>3 DEF Alone, Holds
<1>6. RawStampsRise BY <1>1 DEF RawStampsRise
<1>. QED BY <1>4, <1>5, <1>6 DEF RawInv

\* The files stay, and all that is said of them alone.
LEMMA MadeStays ==
    ASSUME file' = file
    PROVE  /\ \A s \in Sides : \A k : MadeUp(s, k)' = MadeUp(s, k)
           /\ \A s \in Sides : LongFrames(s)' = LongFrames(s) /\ Raw(s)' = Raw(s)
           /\ \A s \in Sides : Own(s, Len(file[s].pkts))' = Own(s, Len(file[s].pkts))
<1>1. \A s \in Sides : \A k : MadeUp(s, k)' = MadeUp(s, k) BY DEF MadeUp
<1>2. \A s \in Sides : LongFrames(s)' = LongFrames(s) BY DEF LongFrames
<1>3. \A s \in Sides : Raw(s)' = Raw(s) /\ Own(s, Len(file[s].pkts))' = Own(s, Len(file[s].pkts))
  BY SameFiles DEF Raw
<1>. QED BY <1>1, <1>2, <1>3

LEMMA RiseStays ==
    ASSUME RawStampsRise, file' = file, written' = written PROVE RawStampsRise'
BY RawFiles, MadeStays DEF RawStampsRise

\* A step that stamps nothing and writes nothing.
LEMMA IdleRaw ==
    ASSUME TypeOK, RawInv, UNCHANGED <<file, written, frame_index, stamp>>,
           \A s \in Sides : Own(s, nread[s])' = Own(s, nread[s]),
           \A s \in Sides : Holds(s)' = Holds(s)
    PROVE  RawInv'
<1>1. \A s \in Sides : Passed(s)' = Passed(s) BY DEF Passed
<1>2. Below' BY <1>1, RawFiles, MadeStays DEF RawInv, Below
<1>3. Alone'
  <2>1. \A s \in Sides : Before(s, stamp.n)' = Before(s, stamp.n) BY RawFiles
  <2>. QED BY <2>1, RawFiles, MadeStays DEF RawInv, Alone
<1>. QED BY <1>2, <1>3, RiseStays DEF RawInv

LEMMA SkipRaw == ASSUME TypeOK, RawInv, Skip PROVE RawInv'
<1>1. /\ UNCHANGED <<file, written, frame_index, stamp, src>> /\ pc' = "read" /\ pc = "read"
      /\ src \in Sides /\ nread[src] \in 0 .. Len(file[src].pkts)
      /\ nread[src] + 1 \in DOMAIN file[src].pkts /\ ~Pkt(src, nread[src] + 1).own
      /\ nread'[src] = nread[src] + 1 /\ \A s \in Sides : s # src => nread'[s] = nread[s]
  BY DEF Skip, Goto, TypeOK
<1>2. \A s \in Sides : Own(s, nread[s])' = Own(s, nread[s])
  <2>. TAKE s \in Sides
  <2>1. Own(s, nread[s])' = Own(s, nread'[s]) BY <1>1, RawFiles
  <2>2. CASE s = src BY <1>1, <2>1, <2>2, OwnSets
  <2>3. CASE s # src BY <1>1, <2>1, <2>3
  <2>. QED BY <2>2, <2>3
<1>3. \A s \in Sides : Holds(s)' = Holds(s) BY <1>1 DEF Holds
<1>. QED BY <1>1, <1>2, <1>3, IdleRaw

LEMMA TakeRaw == ASSUME TypeOK, RawInv, Take PROVE RawInv'
<1>. DEFINE n == nread[src] + 1
            p == Pkt(src, n).pts
<1>1. /\ UNCHANGED <<file, written, src>> /\ pc' = "write" /\ pc = "read"
      /\ src \in Sides /\ nread[src] \in 0 .. Len(file[src].pkts)
      /\ n \in DOMAIN file[src].pkts /\ Pkt(src, n).own
      /\ nread'[src] = n /\ \A s \in Sides : s # src => nread'[s] = nread[s]
      /\ stamp'.n = n /\ (p = NoPts => stamp'.pts \in MadeUp(src, frame_index))
      /\ frame_index' = frame_index + (IF p = NoPts THEN 1 ELSE 0)
      /\ frame_index \in Nat
  BY DEF Take, Goto, TypeOK
<1>2. n \in Own(src, Len(file[src].pkts)) BY <1>1, FileTypes DEF Own
<1>3. IsRaw(src) => p = NoPts BY <1>2 DEF IsRaw, Raw
<1>. HIDE DEF p
<1>4. \A s \in Sides : /\ Holds(s)' <=> s = src
                       /\ ~Holds(s) /\ Passed(s) = frame_index
  BY <1>1 DEF Holds, Passed
<1>5. Below'
  <2>. SUFFICES ASSUME NEW s \in Sides, IsRaw(s)
                PROVE  /\ \A i \in DOMAIN written : written[i].src = s =>
                             \E k \in Nat : k < Passed(s)' /\ written[i].pts \in MadeUp(s, k)
                       /\ Holds(s)' => stamp'.pts \in MadeUp(s, frame_index' - 1) /\ frame_index' > 0
    BY <1>1, RawFiles, MadeStays DEF Below
  <2>1. frame_index <= Passed(s)' /\ Passed(s)' \in Int
    BY <1>1, <1>3, <1>4 DEF Passed
  <2>2. \A i \in DOMAIN written : written[i].src = s =>
           \E k \in Nat : k < frame_index /\ written[i].pts \in MadeUp(s, k)
    BY <1>4 DEF RawInv, Below
  <2>3. \A k \in Nat : k < frame_index => k < Passed(s)' BY <1>1, <2>1
  <2>4. Holds(s)' => frame_index' - 1 = frame_index /\ frame_index' > 0 /\ p = NoPts /\ s = src
    BY <1>1, <1>3, <1>4
  <2>. QED BY <1>1, <2>2, <2>3, <2>4
<1>6. Alone'
  <2>. SUFFICES ASSUME NEW s \in Sides, IsRaw(s), Timed(Other[s])
                PROVE  /\ frame_index' = Cardinality(Own(s, nread'[s]))
                       /\ s = src => stamp'.pts \in MadeUp(s, Cardinality(Before(s, n)))
    <3>1. \A s \in Sides : Own(s, nread[s])' = Own(s, nread'[s]) /\ Before(s, stamp.n)' = Before(s, n)
      BY <1>1, RawFiles
    <3>. QED BY <1>1, <1>4, <3>1, RawFiles, MadeStays DEF Alone
  <2>1. frame_index = Cardinality(Own(s, nread[s])) BY DEF RawInv, Alone
  <2>2. CASE src = s
    <3>1. frame_index' = frame_index + 1 /\ stamp'.pts \in MadeUp(s, frame_index)
      BY <1>1, <1>3, <2>2
    <3>2. Cardinality(Own(s, n)) = Cardinality(Own(s, nread[s])) + 1 /\ Before(s, n) = Own(s, nread[s])
      BY <1>1, <2>2, OwnSets
    <3>. QED BY <1>1, <2>1, <2>2, <3>1, <3>2
  <2>3. CASE src # s
    <3>1. Other[s] = src BY <1>1, <2>3 DEF Other
    <3>2. p # NoPts BY <1>2, <3>1 DEF Timed, p
    <3>. QED BY <1>1, <2>1, <2>3, <3>2
  <2>. QED BY <2>2, <2>3
<1>. QED BY <1>1, <1>5, <1>6, RiseStays DEF RawInv

LEMMA WriteRaw == ASSUME TypeOK, CopyInv, RawInv, Write PROVE RawInv'
<1>. DEFINE last == Len(written) + 1
<1>1. /\ UNCHANGED <<file, src, nread, frame_index, stamp>> /\ pc = "write" /\ pc' = "choose"
      /\ src \in Sides /\ stamp.src = src /\ frame_index \in Nat
  BY DEF Write, Goto, TypeOK, CopyInv
<1>2. /\ DOMAIN written = 1 .. Len(written) /\ Len(written) \in Nat
      /\ DOMAIN written' = 1 .. last
      /\ \A i \in DOMAIN written : written'[i] = written[i]
      /\ written'[last] = stamp
  BY DEF Write, TypeOK
<1>3. \A i \in DOMAIN written' : i \in DOMAIN written \/ i = last BY <1>2
<1>4. \A s \in Sides : Holds(s) <=> s = src
  BY <1>1 DEF Holds
<1>5. \A s \in Sides : ~Holds(s)' /\ Passed(s)' = frame_index
  BY <1>1 DEF Holds, Passed
<1>6. \A s \in Sides : IsRaw(s) /\ s = src =>
         /\ frame_index - 1 \in Nat /\ stamp.pts \in MadeUp(s, frame_index - 1)
         /\ Timed(Other[s]) => stamp.pts \in MadeUp(s, Cardinality(Before(s, stamp.n)))
  BY <1>1, <1>4 DEF RawInv, Below, Alone
<1>7. \A s \in Sides : IsRaw(s) => \A i \in DOMAIN written : written[i].src = s =>
         \E k \in Nat : /\ k < frame_index /\ written[i].pts \in MadeUp(s, k)
                        /\ s = src => k < frame_index - 1
  <2>. SUFFICES ASSUME NEW s \in Sides, IsRaw(s), NEW i \in DOMAIN written, written[i].src = s
                PROVE  \E k \in Nat : /\ k < frame_index /\ written[i].pts \in MadeUp(s, k)
                                      /\ s = src => k < frame_index - 1
    OBVIOUS
  <2>1. PICK k \in Nat : k < Passed(s) /\ written[i].pts \in MadeUp(s, k)
    BY DEF RawInv, Below
  <2>2. k < frame_index /\ (s = src => k < frame_index - 1)
    BY <1>1, <1>4, <2>1 DEF Passed
  <2>. QED BY <2>1, <2>2
<1>8. Below'
  <2>. SUFFICES ASSUME NEW s \in Sides, IsRaw(s), NEW i \in DOMAIN written', written'[i].src = s
                PROVE  \E k \in Nat : k < frame_index /\ written'[i].pts \in MadeUp(s, k)
    BY <1>1, <1>5, RawFiles, MadeStays DEF Below
  <2>1. CASE i \in DOMAIN written
    <3>1. written[i].src = s /\ written'[i] = written[i] BY <1>2, <2>1
    <3>2. PICK k \in Nat : k < frame_index /\ written[i].pts \in MadeUp(s, k)
      BY <1>7, <2>1, <3>1
    <3>. QED BY <3>1, <3>2, Zenon
  <2>2. CASE i = last
    <3>1. s = src /\ written'[i].pts = stamp.pts BY <1>1, <1>2, <2>2
    <3>2. frame_index - 1 < frame_index BY <1>1
    <3>3. frame_index - 1 \in Nat /\ stamp.pts \in MadeUp(s, frame_index - 1) BY <1>6, <3>1
    <3>. QED BY <3>1, <3>2, <3>3, Zenon
  <2>. QED BY <1>3, <2>1, <2>2
<1>9. Alone'
  <2>1. \A s \in Sides : Own(s, nread[s])' = Own(s, nread[s]) BY <1>1, RawFiles
  <2>. QED BY <1>1, <1>5, <2>1, RawFiles DEF RawInv, Alone
<1>10. RawStampsRise'
  <2>. SUFFICES ASSUME NEW s \in Sides, IsRaw(s)
                PROVE  /\ \A i, j \in DOMAIN written' :
                             written'[i].src = s /\ written'[j].src = s /\ i < j =>
                                 /\ written'[i].pts <= written'[j].pts
                                 /\ LongFrames(s) => written'[i].pts < written'[j].pts
                       /\ Timed(Other[s]) => \A i \in DOMAIN written' : written'[i].src = s =>
                             written'[i].pts \in MadeUp(s, Cardinality(Before(s, written'[i].n)))
    BY <1>1, RawFiles, MadeStays DEF RawStampsRise, IsRaw, Before
  <2>1. ASSUME NEW i \in DOMAIN written', NEW j \in DOMAIN written',
               written'[i].src = s, written'[j].src = s, i < j
        PROVE  /\ written'[i].pts <= written'[j].pts
               /\ LongFrames(s) => written'[i].pts < written'[j].pts
    <3>1. i \in DOMAIN written BY <1>2, <1>3, <2>1
    <3>2. CASE j \in DOMAIN written BY <1>2, <2>1, <3>1, <3>2 DEF RawInv, RawStampsRise, IsRaw
    <3>3. CASE j = last
      <4>1. s = src /\ written'[j].pts = stamp.pts BY <1>1, <1>2, <2>1, <3>3
      <4>2. PICK k \in Nat : k < frame_index - 1 /\ written[i].pts \in MadeUp(s, k)
        <5>1. written[i].src = s BY <1>2, <2>1, <3>1
        <5>2. PICK k \in Nat : written[i].pts \in MadeUp(s, k) /\ (s = src => k < frame_index - 1)
          BY <1>7, <3>1, <5>1
        <5>. QED BY <4>1, <5>2, Zenon
      <4>3. frame_index - 1 \in Nat /\ stamp.pts \in MadeUp(s, frame_index - 1) /\ file[s].dur > 0
        BY <1>6, <4>1 DEF IsRaw
      <4>4. /\ written[i].pts <= stamp.pts
            /\ LongFrames(s) => written[i].pts < stamp.pts
        BY <4>2, <4>3, MadeRises
      <4>. QED BY <1>2, <3>1, <4>1, <4>4
    <3>. QED BY <1>3, <3>2, <3>3
  <2>2. ASSUME Timed(Other[s]), NEW i \in DOMAIN written', written'[i].src = s
        PROVE  written'[i].pts \in MadeUp(s, Cardinality(Before(s, written'[i].n)))
    <3>1. CASE i \in DOMAIN written
      BY <1>2, <2>2, <3>1 DEF RawInv, RawStampsRise, IsRaw, Before
    <3>2. CASE i = last BY <1>1, <1>2, <1>6, <2>2, <3>2
    <3>. QED BY <1>3, <3>1, <3>2
  <2>. QED BY <2>1, <2>2
<1>. QED BY <1>8, <1>9, <1>10 DEF RawInv

LEMMA NextRaw == ASSUME TypeOK, CopyInv, RawInv, [Next]_vars PROVE RawInv'
<1>1. CASE OpenFails \/ Open \/ ChooseMissing \/ Choose \/ Finish
  <2>1. /\ UNCHANGED <<file, written, frame_index, stamp, nread>>
        /\ pc # "write" /\ pc' # "write"
    BY <1>1 DEF OpenFails, Open, ChooseMissing, Choose, Finish, Goto
  <2>2. \A s \in Sides : Own(s, nread[s])' = Own(s, nread[s]) BY <2>1, RawFiles
  <2>3. \A s \in Sides : Holds(s)' = Holds(s) BY <2>1 DEF Holds
  <2>. QED BY <2>1, <2>2, <2>3, IdleRaw
<1>2. CASE UNCHANGED vars
  <2>1. UNCHANGED <<file, written, frame_index, stamp, nread, pc, src>> BY <1>2 DEF vars
  <2>2. \A s \in Sides : Own(s, nread[s])' = Own(s, nread[s]) BY <2>1, RawFiles
  <2>3. \A s \in Sides : Holds(s)' = Holds(s) BY <2>1 DEF Holds
  <2>. QED BY <2>1, <2>2, <2>3, IdleRaw
<1>. QED BY <1>1, <1>2, SkipRaw, TakeRaw, WriteRaw DEF Next

(* A stream without times of its own gets times that do not go back, and   *)
(* rise where a frame is longer than a unit of its time base, although     *)
(* both sides share frame_index and the times are truncated quotients; and *)
(* if the other side has its times, packet k of the stream gets the time   *)
(* of k frames.                                                            *)
THEOREM MuxerStampsRise == Spec => []RawStampsRise
<1>1. Init => RawInv BY InitRaw
<1>2. MuxerInv /\ RawInv /\ [Next]_vars => RawInv' BY NextRaw DEF MuxerInv
<1>3. RawInv => RawStampsRise BY DEF RawInv
<1>. QED BY <1>1, <1>2, <1>3, Inductive, PTL DEF Spec
=============================================================================
