-------------------------- MODULE PacketCopyProofs --------------------------
(***************************************************************************)
(* Proofs about PacketCopy, for all files, formats and bounds: type        *)
(* correctness, what can end the process (OnlyKnownCrashes), the header    *)
(* that describes each packet (OwnHeader), the order of what is copied     *)
(* (InOrder), the bound of what waits (BufferBounded), and that nothing is *)
(* lost or doubled (CopiedOnce).                                           *)
(***************************************************************************)
EXTENDS PacketCopy, FiniteSetTheorems, WellFoundedInduction, TLAPS

-----------------------------------------------------------------------------
(***************************************************************************)
(* The operators.                                                          *)
(***************************************************************************)
\* A set of numbers with an element has a smallest one.
LEMMA Smallest ==
    ASSUME NEW S \in SUBSET Nat, S # {}
    PROVE  \E n \in S : \A m \in S : n <= m
<1>. DEFINE R == StrictSubsetOrdering(Nat)
            F == FiniteSubsetsOf(Nat)
            T == {0 .. n : n \in S}
<1>1. IsWellFoundedOn(R, F) BY FS_StrictSubsetOrderingWellFounded
<1>2. T \subseteq F /\ T # {}
  <2>1. ASSUME NEW n \in S PROVE 0 .. n \in F BY FS_Interval DEF FiniteSubsetsOf
  <2>. QED BY <2>1
<1>3. PICK x \in T : \A y \in T : <<y, x>> \notin R BY <1>1, <1>2, WFMin
<1>4. PICK n \in S : x = 0 .. n OBVIOUS
<1>5. ASSUME NEW m \in S, ~(n <= m) PROVE FALSE
  <2>1. 0 .. m \in T OBVIOUS
  <2>2. 0 .. m \subseteq 0 .. n /\ n \in 0 .. n /\ n \notin 0 .. m BY <1>5
  <2>3. <<0 .. m, 0 .. n>> \in R BY <2>2 DEF StrictSubsetOrdering
  <2>. QED BY <2>1, <2>3, <1>3, <1>4
<1>. QED BY <1>5

LEMMA LeastIs ==
    ASSUME NEW S \in SUBSET Nat, S # {}
    PROVE  Least(S) \in S /\ \A y \in S : Least(S) <= y
<1>1. \E x \in S : \A y \in S : x <= y BY Smallest
<1>. QED BY <1>1 DEF Least

LEMMA GreatestIs ==
    ASSUME NEW b \in Nat, NEW S \in SUBSET (0 .. b), S # {}
    PROVE  Greatest(S) \in S /\ \A y \in S : Greatest(S) >= y
<1>. DEFINE T == {b - x : x \in S}
<1>1. T \in SUBSET Nat /\ T # {} OBVIOUS
<1>2. PICK n \in T : \A m \in T : n <= m BY <1>1, Smallest
<1>3. PICK x \in S : n = b - x OBVIOUS
<1>4. \A y \in S : x >= y
  <2>1. ASSUME NEW y \in S PROVE x >= y
    <3>1. b - y \in T OBVIOUS
    <3>2. b - x <= b - y BY <3>1, <1>2, <1>3
    <3>. QED BY <3>2
  <2>. QED BY <2>1
<1>5. \E z \in S : \A y \in S : z >= y BY <1>4
<1>. QED BY <1>5 DEF Greatest

\* The k-th member of a set of numbers is the one with k - 1 before it.
LEMMA Ranks ==
    ASSUME NEW b \in Nat, NEW S \in SUBSET (1 .. b), NEW k \in 1 .. Cardinality(S)
    PROVE  \E x \in S : Cardinality({y \in S : y < x}) = k - 1
<1>. DEFINE Before(x) == {y \in S : y < x}
            N == Cardinality(S)
            f == [x \in S |-> Cardinality(Before(x))]
<1>1. IsFiniteSet(S) /\ N \in Nat
  <2>1. IsFiniteSet(1 .. b) BY FS_Interval
  <2>. QED BY <2>1, FS_Subset, FS_CardinalityType
<1>2. ASSUME NEW x \in S PROVE IsFiniteSet(Before(x)) /\ Cardinality(Before(x)) \in 0 .. N - 1
  <2>1. Before(x) \in SUBSET S OBVIOUS
  <2>2. x \notin Before(x) OBVIOUS
  <2>3. /\ IsFiniteSet(Before(x)) /\ Cardinality(Before(x)) <= N
        /\ Cardinality(S) = Cardinality(Before(x)) => S = Before(x)
    BY <2>1, <1>1, FS_Subset
  <2>4. Cardinality(Before(x)) # N BY <2>2, <2>3
  <2>5. Cardinality(Before(x)) \in Nat BY <2>3, FS_CardinalityType
  <2>. HIDE DEF Before, N
  <2>. QED BY <2>3, <2>4, <2>5, <1>1
<1>3. ASSUME NEW x \in S, NEW z \in S, x < z PROVE Cardinality(Before(x)) # Cardinality(Before(z))
  <2>1. Before(x) \in SUBSET Before(z)
    <3>1. ASSUME NEW y \in S, y < x PROVE y < z
      <4>1. x \in Int /\ y \in Int /\ z \in Int OBVIOUS
      <4>. QED BY <4>1, <3>1, <1>3
    <3>. QED BY <3>1
  <2>2. x \in Before(z) /\ x \notin Before(x) BY <1>3
  <2>3. IsFiniteSet(Before(z)) BY <1>2
  <2>4. Cardinality(Before(z)) = Cardinality(Before(x)) => Before(z) = Before(x)
    BY <2>1, <2>3, FS_Subset
  <2>. QED BY <2>2, <2>4
<1>4. f \in Injection(S, 0 .. N - 1)
  <2>1. f \in [S -> 0 .. N - 1] BY <1>2
  <2>2. ASSUME NEW x \in S, NEW z \in S, f[x] = f[z] PROVE x = z
    <3>1. Cardinality(Before(x)) = Cardinality(Before(z)) BY <2>2
    <3>2. ~(x < z) /\ ~(z < x) BY <3>1, <1>3
    <3>. QED BY <3>2
  <2>. QED BY <2>1, <2>2 DEF Injection, IsInjective
<1>5. IsFiniteSet(0 .. N - 1) /\ Cardinality(0 .. N - 1) = N
  <2>. HIDE DEF N
  <2>1. /\ IsFiniteSet(0 .. N - 1)
        /\ Cardinality(0 .. N - 1) = IF 0 > N - 1 THEN 0 ELSE N - 1 - 0 + 1
    BY <1>1, FS_Interval
  <2>. QED BY <2>1, <1>1
<1>6. f \in Surjection(S, 0 .. N - 1) BY <1>4, <1>5, FS_Injection
<1>7. k - 1 \in 0 .. N - 1 BY <1>1
<1>8. PICK x \in S : f[x] = k - 1 BY <1>6, <1>7 DEF Surjection
<1>. QED BY <1>8

\* A time in another time base is a time, and the order of times is kept.
LEMMA DivideIsNat ==
    ASSUME NEW a \in Nat, NEW b \in Nat \ {0}
    PROVE  a \div b \in Nat
OBVIOUS

LEMMA DivideKeepsOrder ==
    ASSUME NEW a \in Nat, NEW d \in Nat, NEW b \in Nat \ {0}, a <= d
    PROVE  a \div b <= d \div b
<1>1. b * (a \div b) <= a /\ d < b * (d \div b) + b OBVIOUS
<1>2. a \div b \in Int /\ d \div b \in Int OBVIOUS
<1>3. b * (a \div b) < b * (d \div b) + b BY <1>1, <1>2
<1>. DEFINE q == a \div b
            r == d \div b
<1>4. q \in Int /\ r \in Int /\ b * q < b * r + b BY <1>2, <1>3
<1>. HIDE DEF q, r
<1>5. ASSUME q >= r + 1 PROVE FALSE
  <2>1. b * q >= b * (r + 1) BY <1>4, <1>5
  <2>. QED BY <2>1, <1>4
<1>6. q <= r BY <1>4, <1>5
<1>. QED BY <1>6 DEF q, r

LEMMA TimesIsNat ==
    ASSUME NEW a \in Nat, NEW b \in Nat
    PROVE  a * b \in Nat
OBVIOUS

LEMMA TimesKeepsOrder ==
    ASSUME NEW a \in Nat, NEW d \in Nat, NEW b \in Nat, a <= d
    PROVE  a * b <= d * b
OBVIOUS

LEMMA RescaleIs ==
    ASSUME NEW from \in Nat \ {0}, NEW to \in Nat \ {0}, NEW t \in Nat
    PROVE  /\ Rescale(t, from, to) \in Nat
           /\ \A u \in Nat : t <= u => Rescale(t, from, to) <= Rescale(u, from, to)
<1>. DEFINE n(x) == 2 * x * from + to
<1>1. \A x \in Nat : x # NoPts BY TimesAssumption
<1>2. \A x \in Nat : Rescale(x, from, to) = n(x) \div (2 * to) BY <1>1 DEF Rescale
<1>3. ASSUME NEW x \in Nat PROVE n(x) \in Nat
  <2>1. 2 * x \in Nat OBVIOUS
  <2>2. 2 * x * from \in Nat BY <2>1, TimesIsNat
  <2>. QED BY <2>2
<1>4. ASSUME NEW u \in Nat, t <= u PROVE n(t) <= n(u)
  <2>1. 2 * t \in Nat /\ 2 * u \in Nat /\ 2 * t <= 2 * u BY <1>4
  <2>2. 2 * t * from <= 2 * u * from BY <2>1, TimesKeepsOrder
  <2>3. 2 * t * from \in Nat /\ 2 * u * from \in Nat BY <2>1, TimesIsNat
  <2>. QED BY <2>2, <2>3
<1>5. 2 * to \in Nat \ {0} OBVIOUS
<1>. HIDE DEF n
<1>6. Rescale(t, from, to) \in Nat BY <1>2, <1>3, <1>5, DivideIsNat
<1>7. ASSUME NEW u \in Nat, t <= u PROVE n(t) \div (2 * to) <= n(u) \div (2 * to)
  BY <1>3, <1>4, <1>5, <1>7, DivideKeepsOrder
<1>. QED BY <1>2, <1>6, <1>7

-----------------------------------------------------------------------------
(***************************************************************************)
(* Types.  A packet waits with the time it was given; a plain file takes   *)
(* it with the time it was read with.                                      *)
(***************************************************************************)
Locations == {"open", "failed", "header", "read", "interleave", "trailer", "closing", "done"}

Handed == [st : Nat \ {0}, from : Nat \ {0}, n : Nat \ {0}, dts : Nat \union {NoPts}]

\* What the job is given.
GivenOK ==
    /\ job \in Jobs /\ file \in Files /\ fmt \in [Outputs -> Format]
    /\ fmt["V"] = H264 /\ fmt["A"] = Adts
    /\ job # "remuxer" => fmt["O"] = Flv

\* What it counts and where it is.
PlaceOK ==
    /\ pc \in Locations /\ at \in Outputs /\ forced \in SUBSET Outputs /\ crashed \in BOOLEAN
    /\ nread \in 0 .. Len(file.pkts) /\ frame_index \in 0 .. nread

\* The outputs: no streams until they are made, no packets before.
Setup == {"open", "failed"}

StreamsOK ==
    /\ streams \in [Outputs -> Seq(1 .. file.probed)]
    /\ header \in [Outputs -> {"none", "ok", "refused"}] /\ ready \in SUBSET Outputs
    /\ cur_dts \in [Outputs -> Seq(Nat)] /\ priv_pts \in [Outputs -> Seq(Nat)]
    /\ \A c \in Outputs : /\ DOMAIN cur_dts[c] = DOMAIN streams[c]
                          /\ DOMAIN priv_pts[c] = DOMAIN streams[c]
    /\ pc \notin Setup => ~MissingStream /\ \A c \in Outputs : streams[c] = StreamsMade(c)

PacketsOK ==
    /\ packet_buffer \in [Outputs -> Seq(Handed)] /\ written \in [Outputs -> Seq(Handed)]
    /\ pc \in Setup \union {"header"} =>
          /\ nread = 0 /\ frame_index = 0 /\ ready = {} /\ forced = {}
          /\ \A c \in Outputs : header[c] = "none" /\ written[c] = <<>> /\ packet_buffer[c] = <<>>

TypeOK == GivenOK /\ PlaceOK /\ StreamsOK /\ PacketsOK

LEMMA ElementOf ==
    ASSUME NEW S, NEW s \in Seq(S), NEW n \in 1 .. Len(s)
    PROVE  s[n] \in S
OBVIOUS

LEMMA FileIs ==
    ASSUME file \in Files
    PROVE  /\ file.streams \in Seq(Stream) /\ file.made \in Seq(Nat)
           /\ file.pkts \in Seq([st : Nat \ {0}, dts : Nat \union {NoPts}, timed : BOOLEAN])
           /\ file.probed \in 1 .. Len(file.streams)
           /\ Len(file.pkts) \in Nat /\ Len(file.pkts) <= Len(file.made)
           /\ \A n \in 1 .. Len(file.pkts) :
                 /\ file.pkts[n].st \in 1 .. Len(file.streams)
                 /\ file.pkts[n].dts \in Nat \union {NoPts}
<1>1. file \in File BY FilesAssumption
<1>2. /\ file.streams \in Seq(Stream) /\ file.made \in Seq(Nat)
      /\ file.pkts \in Seq([st : Nat \ {0}, dts : Nat \union {NoPts}, timed : BOOLEAN])
  BY <1>1 DEF File
<1>3. /\ file.probed \in 1 .. Len(file.streams)
      /\ Len(file.pkts) <= Len(file.made)
      /\ \A n \in DOMAIN file.pkts : file.pkts[n].st \in DOMAIN file.streams
  BY FilesAssumption
<1>4. DOMAIN file.pkts = 1 .. Len(file.pkts) /\ DOMAIN file.streams = 1 .. Len(file.streams)
  BY <1>2
<1>5. \A n \in 1 .. Len(file.pkts) : file.pkts[n] \in [st : Nat \ {0}, dts : Nat \union {NoPts}, timed : BOOLEAN]
  BY <1>2, ElementOf
<1>6. \A n \in 1 .. Len(file.pkts) :
         /\ file.pkts[n].st \in 1 .. Len(file.streams)
         /\ file.pkts[n].dts \in Nat \union {NoPts}
  BY <1>3, <1>4, <1>5
<1>. QED BY <1>2, <1>3, <1>6

LEMMA StreamIs ==
    ASSUME file \in Files, NEW i \in 1 .. Len(file.streams)
    PROVE  file.streams[i].kind \in Kinds /\ file.streams[i].base \in Nat \ {0}
<1>1. file.streams[i] \in Stream BY FileIs
<1>. QED BY <1>1 DEF Stream

LEMMA FormatsAre == H264 \in Format /\ Adts \in Format /\ Flv \in Format
<1>1. RawBase \in Nat \ {0} BY TimesAssumption
<1>2. \A s, d \in BOOLEAN : Raw(s, d) \in Format BY <1>1 DEF Raw, Format
<1>. QED BY <1>2, FormatsAssumption DEF H264, Adts

LEMMA FormatIs ==
    ASSUME fmt \in [Outputs -> Format], NEW c \in Outputs
    PROVE  /\ \A k \in Kinds : fmt[c].base[k] \in Nat \ {0}
           /\ fmt[c].timed \in BOOLEAN /\ fmt[c].strict \in BOOLEAN
           /\ fmt[c].single \in BOOLEAN /\ fmt[c].deferred \in BOOLEAN
<1>1. fmt[c] \in Format OBVIOUS
<1>. QED BY <1>1 DEF Format

LEMMA FoundAre ==
    ASSUME file \in Files, NEW kind
    PROVE  /\ Found(kind) \in SUBSET (1 .. file.probed) /\ file.probed \in Nat
           /\ file.probed <= Len(file.streams) /\ IsFiniteSet(Found(kind))
           /\ Cardinality(Found(kind)) \in Nat
           /\ Found(kind) # {} => /\ Index(kind) \in Found(kind)
                                  /\ Index(kind) \in 1 .. file.probed
<1>1. Found(kind) \in SUBSET (1 .. file.probed) /\ file.probed \in Nat
  BY FileIs DEF Found
<1>2. IsFiniteSet(Found(kind)) /\ Cardinality(Found(kind)) \in Nat
  <2>1. IsFiniteSet(1 .. file.probed) BY <1>1, FS_Interval
  <2>2. IsFiniteSet(Found(kind)) BY <1>1, <2>1, FS_Subset
  <2>. QED BY <2>2, FS_CardinalityType
<1>3. ASSUME Found(kind) # {} PROVE Index(kind) \in Found(kind)
  <2>1. Least(Found(kind)) \in Found(kind) BY <1>1, <1>3, LeastIs
  <2>2. Found(kind) \in SUBSET (0 .. file.probed) BY <1>1
  <2>3. Greatest(Found(kind)) \in Found(kind) BY <1>1, <2>2, <1>3, GreatestIs
  <2>. QED BY <2>1, <2>3 DEF Index
<1>4. file.probed <= Len(file.streams) BY FileIs
<1>. QED BY <1>1, <1>2, <1>3, <1>4

LEMMA OfKindIs ==
    ASSUME file \in Files, NEW kind
    PROVE  /\ OfKind(kind) \in Seq(1 .. file.probed)
           /\ DOMAIN OfKind(kind) = 1 .. Cardinality(Found(kind))
           /\ \A k \in DOMAIN OfKind(kind) : OfKind(kind)[k] \in Found(kind)
<1>. DEFINE N == Cardinality(Found(kind))
<1>1. N \in Nat /\ file.probed \in Nat /\ Found(kind) \in SUBSET (1 .. file.probed) BY FoundAre
<1>2. ASSUME NEW k \in 1 .. N
      PROVE  \E x \in Found(kind) : Cardinality({y \in Found(kind) : y < x}) = k - 1
  BY <1>1, Ranks
<1>3. \A k \in 1 .. N :
         (CHOOSE x \in Found(kind) : Cardinality({y \in Found(kind) : y < x}) = k - 1) \in Found(kind)
  BY <1>2
<1>4. DOMAIN OfKind(kind) = 1 .. N /\ \A k \in 1 .. N : OfKind(kind)[k] \in Found(kind)
  BY <1>3 DEF OfKind, Ascending
<1>5. OfKind(kind) = [k \in 1 .. N |-> OfKind(kind)[k]] BY DEF OfKind, Ascending
<1>6. \A k \in 1 .. N : OfKind(kind)[k] \in 1 .. file.probed BY <1>1, <1>4
<1>. HIDE DEF N
<1>7. OfKind(kind) \in [1 .. N -> 1 .. file.probed] BY <1>5, <1>6
<1>. QED BY <1>1, <1>4, <1>7 DEF N

\* The streams that are made were found in the input.
LEMMA MadeAre ==
    ASSUME file \in Files, job \in Jobs, ~MissingStream, NEW c \in Outputs
    PROVE  StreamsMade(c) \in Seq(1 .. file.probed)
<1>1. AllProbed \in Seq(1 .. file.probed) BY FileIs DEF AllProbed
<1>2. \A kind : OfKind(kind) \in Seq(1 .. file.probed) BY OfKindIs
<1>3. job \in {"pusher", "puller"} => Index("video") \in 1 .. file.probed
  BY FoundAre DEF MissingStream
<1>4. job \in {"pusher", "puller"} => <<Index("video")>> \in Seq(1 .. file.probed) BY <1>3
<1>5. <<>> \in Seq(1 .. file.probed) OBVIOUS
<1>6. \/ StreamsMade(c) = AllProbed \/ StreamsMade(c) = <<>>
      \/ \E kind \in Kinds : StreamsMade(c) = OfKind(kind)
      \/ job \in {"pusher", "puller"} /\ StreamsMade(c) = <<Index("video")>>
  <2>1. CASE job = "remuxer" BY <2>1 DEF StreamsMade
  <2>2. CASE job = "demuxer" BY <2>2 DEF StreamsMade
  <2>3. CASE job = "demuxer2" BY <2>3 DEF StreamsMade, Outputs, Kinds
  <2>4. CASE job \in {"pusher", "puller"}
    <3>1. CASE c = "O" BY <3>1, <2>4 DEF StreamsMade
    <3>2. CASE c # "O" BY <3>2, <2>4 DEF StreamsMade
    <3>. QED BY <3>1, <3>2
  <2>. QED BY <2>1, <2>2, <2>3, <2>4 DEF Jobs
<1>. HIDE DEF AllProbed
<1>. QED BY <1>1, <1>2, <1>4, <1>5, <1>6

\* A packet that is read is one of a stream of the input, and the output it is
\* sent to gives the time base.
LEMMA PacketIs ==
    ASSUME TypeOK, HasNext
    PROVE  /\ nread + 1 \in 1 .. Len(file.pkts)
           /\ Packet.st \in 1 .. Len(file.streams) /\ Packet.dts \in Nat \union {NoPts}
           /\ Output(Packet.st) \in Outputs /\ StreamIndex(Packet.st) \in Nat \ {0}
<1>1. file.pkts \in Seq([st : Nat \ {0}, dts : Nat \union {NoPts}, timed : BOOLEAN]) /\ file \in Files
  BY FileIs DEF TypeOK, GivenOK
<1>2. Len(file.pkts) \in Nat BY <1>1
<1>3. nread + 1 \in 1 .. Len(file.pkts) BY <1>2 DEF TypeOK, PlaceOK, HasNext
<1>4. Packet.st \in 1 .. Len(file.streams) /\ Packet.dts \in Nat \union {NoPts}
  BY <1>1, <1>3, FileIs DEF Packet
<1>5. Len(file.streams) \in Nat BY <1>1, FileIs
<1>6. Output(Packet.st) \in Outputs BY DEF Output, Outputs
<1>7. StreamIndex(Packet.st) \in Nat \ {0} BY <1>4, <1>5 DEF StreamIndex
<1>. QED BY <1>3, <1>4, <1>6, <1>7

\* The time base in which an output takes the packets of a stream of the input.
BaseFor(c, st) == fmt[c].base[file.streams[st].kind]

LEMMA BaseIs ==
    ASSUME TypeOK, NEW c \in Outputs, NEW st \in 1 .. Len(file.streams)
    PROVE  BaseFor(c, st) \in Nat \ {0}
<1>1. file \in Files /\ fmt \in [Outputs -> Format] BY DEF TypeOK, GivenOK
<1>2. file.streams[st].kind \in Kinds BY <1>1, StreamIs
<1>. QED BY <1>1, <1>2, FormatIs DEF BaseFor

LEMMA StampIs ==
    ASSUME TypeOK, NEW st \in 1 .. Len(file.streams), Output(st) \in Outputs,
           NEW dts \in Nat \union {NoPts}, NEW k \in 0 .. Len(file.made) - 1,
           NEW pkt, pkt.st = st, pkt.dts = dts
    PROVE  /\ Stamp(pkt, k) \in Nat \union {NoPts}
           /\ job # "pusher" /\ dts # NoPts =>
                 /\ Stamp(pkt, k) \in Nat
                 /\ Stamp(pkt, k) = Rescale(dts, file.streams[st].base, BaseFor(Output(st), st))
<1>1. file.streams[st].base \in Nat \ {0} /\ file.made \in Seq(Nat)
  BY StreamIs, FileIs DEF TypeOK, GivenOK
<1>2. BaseFor(Output(st), st) \in Nat \ {0} BY BaseIs
<1>. DEFINE t == IF job = "pusher" /\ ~pkt.timed THEN file.made[k + 1] ELSE dts
<1>3. file.made[k + 1] \in Nat
  <2>1. Len(file.made) \in Nat BY <1>1
  <2>2. k + 1 \in 1 .. Len(file.made) BY <2>1
  <2>. QED BY <1>1, <2>2, ElementOf
<1>4. t \in Nat \union {NoPts} BY <1>3
<1>5. Stamp(pkt, k) = Rescale(t, file.streams[st].base, BaseFor(Output(st), st))
  BY DEF Stamp, BaseFor
<1>6. job # "pusher" => t = dts OBVIOUS
<1>. HIDE DEF t
<1>7. t \in Nat => Stamp(pkt, k) \in Nat
  <2>. DEFINE from == file.streams[st].base
              to == BaseFor(Output(st), st)
  <2>1. from \in Nat \ {0} /\ to \in Nat \ {0} BY <1>1, <1>2
  <2>2. Stamp(pkt, k) = Rescale(t, from, to) BY <1>5
  <2>. HIDE DEF from, to
  <2>3. ASSUME t \in Nat PROVE Rescale(t, from, to) \in Nat BY <2>1, <2>3, RescaleIs
  <2>. QED BY <2>2, <2>3
<1>8. t = NoPts => Stamp(pkt, k) = NoPts BY <1>5 DEF Rescale
<1>. QED BY <1>4, <1>5, <1>6, <1>7, <1>8

\* The pusher has a time for every packet it makes one up for.
LEMMA MadeForAll == ASSUME TypeOK, HasNext PROVE frame_index \in 0 .. Len(file.made) - 1
<1>1. /\ Len(file.pkts) \in Nat /\ Len(file.pkts) <= Len(file.made)
      /\ file.made \in Seq(Nat)
  BY FileIs DEF TypeOK, GivenOK
<1>2. Len(file.made) \in Nat BY <1>1
<1>3. nread \in 0 .. Len(file.pkts) /\ frame_index \in 0 .. nread /\ nread < Len(file.pkts)
  BY DEF TypeOK, PlaceOK, HasNext
<1>. QED BY <1>1, <1>2, <1>3

\* What Submit takes, with the names of its LET.
SubC   == Output(Packet.st)
SubI   == StreamIndex(Packet.st)
SubT   == Stamp(Packet, frame_index)
SubDts == IF SubT = NoPts THEN priv_pts[SubC][SubI] ELSE SubT
SubPkt == [st |-> SubI, from |-> Packet.st, n |-> nread + 1, dts |-> SubDts]
SubBad == Backwards(SubC, SubI, SubDts)
SubOut == ~SubBad \/ ~fmt[SubC].timed

LEMMA SubmitIs ==
    ASSUME Submit
    PROVE  /\ ~crashed /\ pc = "read" /\ HasNext /\ job # "demuxer" /\ Wanted(Packet.st)
           /\ SubI \in DOMAIN streams[SubC] /\ SubC \in ready
           /\ pc' = IF SubOut /\ job # "pusher" THEN "interleave" ELSE "read"
           /\ nread' = nread + 1
           /\ frame_index' = IF job = "pusher" THEN frame_index + 1 ELSE frame_index
           /\ cur_dts' = IF SubBad THEN cur_dts ELSE [cur_dts EXCEPT ![SubC][SubI] = SubDts]
           /\ priv_pts' = IF SubBad THEN priv_pts ELSE [priv_pts EXCEPT ![SubC][SubI] = SubDts + 1]
           /\ packet_buffer' = IF SubOut /\ job # "pusher"
                               THEN [packet_buffer EXCEPT ![SubC] = Insert(SubC, SubPkt)]
                               ELSE packet_buffer
           /\ written' = IF SubOut /\ job = "pusher"
                         THEN [written EXCEPT ![SubC] = Append(@, SubPkt)] ELSE written
           /\ at' = SubC
           /\ UNCHANGED <<input, streams, header, ready, forced, crashed>>
BY DEF Submit, SubC, SubI, SubT, SubDts, SubPkt, SubBad, SubOut

LEMMA SubTypes ==
    ASSUME TypeOK, HasNext, SubI \in DOMAIN streams[SubC]
    PROVE  /\ SubC \in Outputs /\ SubI \in Nat \ {0} /\ SubDts \in Nat
           /\ SubPkt \in Handed /\ SubBad \in BOOLEAN
           /\ SubT \in Nat \union {NoPts}
<1>1. /\ SubC \in Outputs /\ SubI \in Nat \ {0} /\ nread + 1 \in Nat \ {0}
      /\ Packet.st \in Nat \ {0}
  BY PacketIs, FileIs DEF SubC, SubI, TypeOK, GivenOK
<1>2. SubT \in Nat \union {NoPts}
  <2>1. frame_index \in 0 .. Len(file.made) - 1 BY MadeForAll
  <2>. QED BY <2>1, PacketIs, StampIs DEF SubT
<1>3. priv_pts[SubC][SubI] \in Nat
  <2>1. priv_pts[SubC] \in Seq(Nat) /\ DOMAIN priv_pts[SubC] = DOMAIN streams[SubC]
    BY <1>1 DEF TypeOK, StreamsOK
  <2>. QED BY <2>1
<1>4. SubDts \in Nat BY <1>2, <1>3 DEF SubDts
<1>5. SubPkt \in Handed BY <1>1, <1>4 DEF SubPkt, Handed, SubI
<1>6. SubBad \in BOOLEAN BY DEF SubBad, Backwards
<1>. QED BY <1>1, <1>2, <1>4, <1>5, <1>6

\* Where a packet is inserted: behind all packets of its own stream, before
\* the first of the others behind them that is to stay behind it.
PutAt(b, pkt, k, s) ==
    /\ k \in 1 .. Len(b) + 1
    /\ s \in Seq(Handed) /\ Len(s) = Len(b) + 1 /\ s[k] = pkt
    /\ \A j \in 1 .. k - 1 : s[j] = b[j]
    /\ \A j \in k + 1 .. Len(b) + 1 : s[j] = b[j - 1]
    /\ \A j \in k .. Len(b) : b[j].st # pkt.st

LEMMA CatIs ==
    ASSUME NEW S, NEW x \in Seq(S), NEW y \in Seq(S)
    PROVE  /\ x \o y \in Seq(S) /\ Len(x \o y) = Len(x) + Len(y)
           /\ \A j \in 1 .. Len(x) : (x \o y)[j] = x[j]
           /\ \A j \in 1 .. Len(x) + Len(y) : j > Len(x) => (x \o y)[j] = y[j - Len(x)]
OBVIOUS

Spliced(b, pkt, k) == SubSeq(b, 1, k - 1) \o <<pkt>> \o SubSeq(b, k, Len(b))

LEMMA SpliceIs ==
    ASSUME NEW b \in Seq(Handed), NEW pkt \in Handed, NEW k \in 1 .. Len(b) + 1
    PROVE  /\ Spliced(b, pkt, k) \in Seq(Handed)
           /\ Len(Spliced(b, pkt, k)) = Len(b) + 1 /\ Spliced(b, pkt, k)[k] = pkt
           /\ \A j \in 1 .. k - 1 : Spliced(b, pkt, k)[j] = b[j]
           /\ \A j \in k + 1 .. Len(b) + 1 : Spliced(b, pkt, k)[j] = b[j - 1]
<1>. DEFINE s == Spliced(b, pkt, k)
            x == SubSeq(b, 1, k - 1)
            z == SubSeq(b, k, Len(b))
<1>1. /\ x \in Seq(Handed) /\ Len(x) = k - 1 /\ \A j \in 1 .. k - 1 : x[j] = b[j]
      /\ k - 1 \in Nat
  OBVIOUS
<1>2. /\ z \in Seq(Handed) /\ Len(z) = Len(b) - k + 1
      /\ \A j \in 1 .. Len(b) - k + 1 : z[j] = b[j + k - 1]
  OBVIOUS
<1>. HIDE DEF x, z
<1>. DEFINE y == x \o <<pkt>>
<1>3. <<pkt>> \in Seq(Handed) /\ Len(<<pkt>>) = 1 /\ <<pkt>>[1] = pkt OBVIOUS
<1>4. y \in Seq(Handed) /\ Len(y) = k /\ y[k] = pkt /\ \A j \in 1 .. k - 1 : y[j] = b[j]
  <2>1. /\ y \in Seq(Handed) /\ Len(y) = Len(x) + 1
        /\ \A j \in 1 .. Len(x) : y[j] = x[j]
        /\ \A j \in 1 .. Len(x) + 1 : j > Len(x) => y[j] = <<pkt>>[j - Len(x)]
    <3>. DEFINE o == <<pkt>>
    <3>1. o \in Seq(Handed) /\ Len(o) = 1 BY <1>3
    <3>. HIDE DEF o
    <3>2. /\ x \o o \in Seq(Handed) /\ Len(x \o o) = Len(x) + Len(o)
          /\ \A j \in 1 .. Len(x) : (x \o o)[j] = x[j]
          /\ \A j \in 1 .. Len(x) + Len(o) : j > Len(x) => (x \o o)[j] = o[j - Len(x)]
      BY <1>1, <3>1, CatIs, Zenon
    <3>3. y = x \o o BY Zenon DEF o
    <3>. HIDE DEF y
    <3>4. /\ y \in Seq(Handed) /\ Len(y) = Len(x) + 1
          /\ \A j \in 1 .. Len(x) : y[j] = x[j]
          /\ \A j \in 1 .. Len(x) + 1 : j > Len(x) => y[j] = o[j - Len(x)]
      BY <3>1, <3>2, <3>3, Zenon
    <3>. QED BY <3>4, Zenon DEF o
  <2>2. y[k] = <<pkt>>[k - Len(x)] BY <1>1, <2>1
  <2>3. k - Len(x) = 1 BY <1>1
  <2>4. Len(x) = k - 1 /\ k \in Int BY <1>1
  <2>5. \A j \in 1 .. k - 1 : y[j] = b[j]
    <3>. HIDE DEF y
    <3>. QED BY <1>1, <2>1
  <2>. HIDE DEF y
  <2>6. Len(y) = k BY <2>1, <2>4
  <2>. QED BY <1>3, <2>1, <2>2, <2>3, <2>5, <2>6
<1>5. s = y \o z BY DEF x, z, Spliced
<1>. HIDE DEF y, s
<1>6. /\ s \in Seq(Handed) /\ Len(s) = Len(y) + Len(z)
      /\ \A j \in 1 .. Len(y) : s[j] = y[j]
      /\ \A j \in 1 .. Len(y) + Len(z) : j > Len(y) => s[j] = z[j - Len(y)]
  <2>1. y \in Seq(Handed) /\ z \in Seq(Handed) BY <1>2, <1>4
  <2>2. /\ y \o z \in Seq(Handed) /\ Len(y \o z) = Len(y) + Len(z)
        /\ \A j \in 1 .. Len(y) : (y \o z)[j] = y[j]
        /\ \A j \in 1 .. Len(y) + Len(z) : j > Len(y) => (y \o z)[j] = z[j - Len(y)]
    BY <2>1, CatIs, Zenon
  <2>. QED BY <2>2, <1>5, Zenon
<1>7. /\ Len(s) = Len(b) + 1 /\ k \in Int /\ Len(b) \in Nat
      /\ Len(y) = k /\ Len(y) + Len(z) = Len(b) + 1
  <2>1. Len(b) \in Nat /\ k \in Int OBVIOUS
  <2>2. Len(z) = Len(b) - k + 1 /\ Len(y) = k BY <1>2, <1>4
  <2>3. Len(s) = Len(y) + Len(z) BY <1>6
  <2>. QED BY <2>1, <2>2, <2>3
<1>8. s[k] = pkt /\ \A j \in 1 .. k - 1 : s[j] = b[j]
  <2>1. \A j \in 1 .. k : s[j] = y[j] BY <1>6, <1>7
  <2>2. k \in 1 .. k /\ \A j \in 1 .. k - 1 : j \in 1 .. k BY <1>7
  <2>3. y[k] = pkt /\ \A j \in 1 .. k - 1 : y[j] = b[j] BY <1>4
  <2>. QED BY <2>1, <2>2, <2>3
<1>9. ASSUME NEW j \in k + 1 .. Len(b) + 1 PROVE s[j] = b[j - 1]
  <2>1. j \in 1 .. Len(y) + Len(z) /\ j > Len(y) /\ j \in Int BY <1>7
  <2>2. s[j] = z[j - k] BY <1>6, <1>7, <2>1
  <2>3. j - k \in 1 .. Len(b) - k + 1 BY <1>7
  <2>4. z[j - k] = b[j - k + k - 1] BY <1>2, <2>3
  <2>5. j - k + k - 1 = j - 1 BY <1>7, <2>1
  <2>. QED BY <2>2, <2>4, <2>5
<1>. QED BY <1>6, <1>7, <1>8, <1>9 DEF s

LEMMA InsertIs ==
    ASSUME NEW c \in Outputs, packet_buffer[c] \in Seq(Handed), NEW pkt \in Handed
    PROVE  \E k \in 1 .. Len(packet_buffer[c]) + 1 :
              /\ PutAt(packet_buffer[c], pkt, k, Insert(c, pkt))
              /\ \A j \in 1 .. k - 1 : \/ ~Behind(c, packet_buffer[c][j], pkt)
                                       \/ \E i \in j .. k - 1 : packet_buffer[c][i].st = pkt.st
              /\ k <= Len(packet_buffer[c]) => Behind(c, packet_buffer[c][k], pkt)
<1>. DEFINE b    == packet_buffer[c]
            own  == {k \in DOMAIN b : b[k].st = pkt.st}
            last == IF own = {} THEN 0 ELSE Greatest(own)
            S    == {j \in last + 1 .. Len(b) : Behind(c, b[j], pkt)} \union {Len(b) + 1}
            k    == Least(S)
<1>1. b \in Seq(Handed) /\ DOMAIN b = 1 .. Len(b) /\ Len(b) \in Nat OBVIOUS
<1>2. /\ last \in 0 .. Len(b) /\ \A j \in own : j <= last
      /\ last # 0 => last \in own
  <2>1. own \in SUBSET (0 .. Len(b)) BY <1>1
  <2>2. own # {} => Greatest(own) \in own /\ \A j \in own : Greatest(own) >= j
    BY <2>1, <1>1, GreatestIs
  <2>. QED BY <2>1, <2>2, <1>1
<1>. HIDE DEF b, last
<1>3. S \in SUBSET Nat /\ S # {} /\ S \subseteq last + 1 .. Len(b) + 1 BY <1>1, <1>2
<1>4. k \in S /\ \A j \in S : k <= j
  <2>. HIDE DEF S
  <2>. QED BY <1>3, LeastIs
<1>. HIDE DEF k
<1>5. k \in last + 1 .. Len(b) + 1 BY <1>3, <1>4
<1>6. k <= Len(b) => Behind(c, b[k], pkt) BY <1>4, <1>1
<1>7. ASSUME NEW j \in 1 .. k - 1
      PROVE  ~Behind(c, b[j], pkt) \/ \E i \in j .. k - 1 : b[i].st = pkt.st
  <2>1. CASE j <= last
    <3>1. last \in own /\ last \in j .. k - 1 BY <1>2, <1>5, <2>1
    <3>2. b[last].st = pkt.st BY <3>1
    <3>. QED BY <3>1, <3>2
  <2>2. CASE j > last
    <3>1. j \in last + 1 .. Len(b) /\ j \notin S BY <1>1, <1>2, <1>4, <1>5, <2>2
    <3>. QED BY <3>1
  <2>. QED BY <2>1, <2>2, <1>2
<1>8. \A j \in k .. Len(b) : b[j].st # pkt.st
  <2>1. ASSUME NEW j \in k .. Len(b), b[j].st = pkt.st PROVE FALSE
    <3>1. j \in own BY <2>1, <1>1, <1>2, <1>5
    <3>2. j <= last BY <3>1, <1>2
    <3>. QED BY <3>2, <1>2, <1>5
  <2>. QED BY <2>1
<1>9. Insert(c, pkt) = SubSeq(b, 1, k - 1) \o <<pkt>> \o SubSeq(b, k, Len(b))
  BY DEF Insert, b, k, S, own, last
<1>10. k \in 1 .. Len(b) + 1 BY <1>1, <1>2, <1>5
<1>. HIDE DEF S, own
<1>11. PutAt(b, pkt, k, Insert(c, pkt))
  <2>. DEFINE s == Insert(c, pkt)
  <2>. HIDE DEF s
  <2>1. s = Spliced(b, pkt, k) BY <1>9 DEF s, Spliced
  <2>2. /\ s \in Seq(Handed) /\ Len(s) = Len(b) + 1 /\ s[k] = pkt
        /\ \A j \in 1 .. k - 1 : s[j] = b[j]
        /\ \A j \in k + 1 .. Len(b) + 1 : s[j] = b[j - 1]
    <3>1. b \in Seq(Handed) /\ k \in 1 .. Len(b) + 1 BY <1>1, <1>10
    <3>. HIDE DEF s, b
    <3>2. /\ Spliced(b, pkt, k) \in Seq(Handed)
          /\ Len(Spliced(b, pkt, k)) = Len(b) + 1 /\ Spliced(b, pkt, k)[k] = pkt
          /\ \A j \in 1 .. k - 1 : Spliced(b, pkt, k)[j] = b[j]
          /\ \A j \in k + 1 .. Len(b) + 1 : Spliced(b, pkt, k)[j] = b[j - 1]
      BY <3>1, SpliceIs, Zenon
    <3>. QED BY <3>2, <2>1
  <2>3. PutAt(b, pkt, k, s) BY <1>8, <1>10, <2>2 DEF PutAt
  <2>. QED BY <2>3 DEF s
<1>. QED BY <1>6, <1>7, <1>10, <1>11 DEF b

-----------------------------------------------------------------------------
(***************************************************************************)
(* The steps.  Only five kinds of step touch the outputs.                  *)
(***************************************************************************)
Early == Setup \union {"header"}

Calm ==
    /\ UNCHANGED <<input, streams, header, ready, cur_dts, priv_pts, packet_buffer, forced, written>>
    /\ pc \in Setup <=> pc' \in Setup
    /\ pc' = "header" <=> pc = "header"
    /\ pc \in Early => nread' = nread /\ frame_index' = frame_index
    /\ pc' \in {"read", "interleave"} => (pc' = pc /\ at' = at) \/ Wait

Writes == \E from \in {"interleave", "trailer"} : WriteOne(from)

LEMMA StepKinds ==
    ASSUME [Next]_vars
    PROVE  Calm \/ NewStreams \/ WriteHeader \/ CopyRaw \/ Submit \/ Writes
<1>. USE DEF Calm, Setup, Early, muxing, input, Goto
<1>1. CASE UNCHANGED vars BY <1>1 DEF vars
<1>2. CASE OpenFails BY <1>2 DEF OpenFails
<1>3. CASE NullContext BY <1>3 DEF NullContext
<1>4. CASE NotFound BY <1>4 DEF NotFound
<1>5. CASE Skip BY <1>5 DEF Skip
<1>6. CASE LateStream BY <1>6 DEF LateStream
<1>7. CASE InvalidIndex BY <1>7 DEF InvalidIndex
<1>8. CASE NoPrivPts BY <1>8 DEF NoPrivPts
<1>9. CASE Wait BY <1>9 DEF Wait
<1>10. CASE EndOfInput BY <1>10 DEF EndOfInput
<1>11. CASE TrailerEnds BY <1>11 DEF TrailerEnds
<1>12. CASE Close BY <1>12 DEF Close
<1>13. CASE Interleave \/ Trailer BY <1>13 DEF Interleave, Trailer, Writes
<1>. QED BY <1>1, <1>2, <1>3, <1>4, <1>5, <1>6, <1>7, <1>8, <1>9, <1>10, <1>11, <1>12, <1>13 DEF Next

\* The names of the LET of WriteOne.
WPkt == Head(packet_buffer[at])
WHdr == IF header[at] # "none" THEN header[at] ELSE IF Refuses(at) THEN "refused" ELSE "ok"

LEMMA WritesIs ==
    ASSUME Writes
    PROVE  /\ ~crashed /\ pc \in {"interleave", "trailer"} /\ Leaves(at)
           /\ pc' = IF WHdr = "ok" THEN pc ELSE IF pc = "interleave" THEN "read" ELSE "closing"
           /\ packet_buffer' = [packet_buffer EXCEPT ![at] = Tail(@)]
           /\ header' = [header EXCEPT ![at] = WHdr]
           /\ written' = IF WHdr = "ok" THEN [written EXCEPT ![at] = Append(@, WPkt)] ELSE written
           /\ forced' = IF pc = "trailer" \/ AllWait(at) THEN forced ELSE forced \union {at}
           /\ UNCHANGED <<input, nread, frame_index, streams, ready, cur_dts, priv_pts, at, crashed>>
<1>1. PICK from \in {"interleave", "trailer"} : WriteOne(from) BY DEF Writes
<1>2. /\ ~crashed /\ pc = from /\ Leaves(at)
      /\ pc' = IF WHdr = "ok" THEN from ELSE IF from = "interleave" THEN "read" ELSE "closing"
      /\ packet_buffer' = [packet_buffer EXCEPT ![at] = Tail(@)]
      /\ header' = [header EXCEPT ![at] = WHdr]
      /\ written' = IF WHdr = "ok" THEN [written EXCEPT ![at] = Append(@, WPkt)] ELSE written
      /\ forced' = IF pc = "trailer" \/ AllWait(at) THEN forced ELSE forced \union {at}
      /\ UNCHANGED <<input, nread, frame_index, streams, ready, cur_dts, priv_pts, at, crashed>>
  BY <1>1, Zenon DEF WriteOne, Goto, WPkt, WHdr
<1>3. pc' = IF WHdr = "ok" THEN pc ELSE IF pc = "interleave" THEN "read" ELSE "closing"
  BY <1>2
<1>. QED BY <1>2, <1>3

LEMMA WriteTypes ==
    ASSUME TypeOK, Leaves(at)
    PROVE  /\ packet_buffer[at] \in Seq(Handed) /\ packet_buffer[at] # <<>>
           /\ WPkt \in Handed /\ WHdr \in {"ok", "refused"} /\ at \in Outputs
           /\ Len(packet_buffer[at]) \in Nat \ {0} /\ WPkt = packet_buffer[at][1]
           /\ Tail(packet_buffer[at]) \in Seq(Handed)
           /\ Len(Tail(packet_buffer[at])) = Len(packet_buffer[at]) - 1
           /\ \A j \in 1 .. Len(packet_buffer[at]) - 1 :
                 Tail(packet_buffer[at])[j] = packet_buffer[at][j + 1]
<1>1. at \in Outputs /\ packet_buffer[at] \in Seq(Handed) /\ packet_buffer[at] # <<>>
  BY DEF TypeOK, PlaceOK, PacketsOK, Leaves
<1>2. header[at] \in {"none", "ok", "refused"} BY <1>1 DEF TypeOK, StreamsOK
<1>3. WHdr \in {"ok", "refused"} BY <1>2 DEF WHdr
<1>. DEFINE b == packet_buffer[at]
<1>4. b \in Seq(Handed) /\ b # <<>> BY <1>1
<1>. HIDE DEF b
<1>5. /\ Head(b) \in Handed /\ Len(b) \in Nat \ {0} /\ Head(b) = b[1]
      /\ Tail(b) \in Seq(Handed) /\ Len(Tail(b)) = Len(b) - 1
      /\ \A j \in 1 .. Len(b) - 1 : Tail(b)[j] = b[j + 1]
  BY <1>4
<1>. QED BY <1>1, <1>3, <1>4, <1>5 DEF b, WPkt

LEMMA GivenStays == ASSUME [Next]_vars PROVE UNCHANGED input
<1>1. CASE Calm BY <1>1 DEF Calm
<1>2. CASE NewStreams \/ WriteHeader \/ CopyRaw BY <1>2 DEF NewStreams, WriteHeader, CopyRaw
<1>3. CASE Submit BY <1>3, SubmitIs
<1>4. CASE Writes BY <1>4, WritesIs
<1>. QED BY <1>1, <1>2, <1>3, <1>4, StepKinds

LEMMA PlaceStep == ASSUME TypeOK, [Next]_vars PROVE PlaceOK'
<1>1. file' = file BY GivenStays DEF input
<1>2. nread' \in 0 .. Len(file.pkts) /\ frame_index' \in 0 .. nread'
  <2>1. nread \in 0 .. Len(file.pkts) /\ frame_index \in 0 .. nread BY DEF TypeOK, PlaceOK
  <2>2. Len(file.pkts) \in Nat BY FileIs DEF TypeOK, GivenOK
  <2>3. \/ nread' = nread /\ frame_index' = frame_index
        \/ nread' = nread + 1 /\ HasNext /\ frame_index' \in {frame_index, frame_index + 1}
    BY DEF Next, OpenFails, NullContext, NotFound, NewStreams, WriteHeader, Skip, LateStream,
       CopyRaw, InvalidIndex, NoPrivPts, Submit, Interleave, Trailer, WriteOne, Wait, EndOfInput,
       TrailerEnds, Close, vars
  <2>. QED BY <2>1, <2>2, <2>3 DEF HasNext
<1>3. pc' \in Locations
  BY DEF Next, OpenFails, NullContext, NotFound, NewStreams, WriteHeader, Skip, LateStream,
     CopyRaw, InvalidIndex, NoPrivPts, Submit, Interleave, Trailer, WriteOne, Wait, EndOfInput,
     TrailerEnds, Close, vars, Goto, Locations, TypeOK, PlaceOK
<1>4. crashed' \in BOOLEAN
  BY DEF Next, OpenFails, NullContext, NotFound, NewStreams, WriteHeader, Skip, LateStream,
     CopyRaw, InvalidIndex, NoPrivPts, Submit, Interleave, Trailer, WriteOne, Wait, EndOfInput,
     TrailerEnds, Close, vars, TypeOK, PlaceOK
<1>5. at' \in Outputs
  <2>1. at \in Outputs BY DEF TypeOK, PlaceOK
  <2>2. CASE Submit BY <2>2, SubmitIs, PacketIs DEF SubC
  <2>3. CASE ~Submit
    BY <2>1, <2>3 DEF Next, OpenFails, NullContext, NotFound, NewStreams, WriteHeader, Skip,
       LateStream, CopyRaw, InvalidIndex, NoPrivPts, Interleave, Trailer, WriteOne, Wait,
       EndOfInput, TrailerEnds, Close, vars, muxing, Outputs
  <2>. QED BY <2>2, <2>3
<1>6. forced' \in SUBSET Outputs
  <2>1. at \in Outputs /\ forced \in SUBSET Outputs BY DEF TypeOK, PlaceOK
  <2>2. CASE Calm BY <2>1, <2>2 DEF Calm
  <2>3. CASE NewStreams \/ WriteHeader \/ CopyRaw
    BY <2>1, <2>3 DEF NewStreams, WriteHeader, CopyRaw, muxing
  <2>4. CASE Submit BY <2>1, <2>4, SubmitIs
  <2>5. CASE Writes BY <2>1, <2>5, WritesIs
  <2>. QED BY <2>2, <2>3, <2>4, <2>5, StepKinds
<1>. QED BY <1>1, <1>2, <1>3, <1>4, <1>5, <1>6 DEF PlaceOK

LEMMA StreamsStep == ASSUME TypeOK, [Next]_vars PROVE StreamsOK'
<1>1. UNCHANGED input BY GivenStays
<1>2. \A kind : Found(kind)' = Found(kind) BY <1>1 DEF input, Found
<1>3. \A kind : Index(kind)' = Index(kind) BY <1>1, <1>2 DEF input, Index
<1>4. MissingStream' = MissingStream BY <1>1, <1>2 DEF input, MissingStream
<1>5. \A kind : OfKind(kind)' = OfKind(kind) BY <1>2 DEF OfKind
<1>6. \A c : StreamsMade(c)' = StreamsMade(c)
  BY <1>1, <1>3, <1>5 DEF input, StreamsMade, AllProbed
<1>. DEFINE Made == pc \notin Setup => ~MissingStream /\ \A c \in Outputs : streams[c] = StreamsMade(c)
<1>7. StreamsOK /\ file' = file BY <1>1 DEF TypeOK, input
<1>8. CASE Calm
  <2>1. UNCHANGED <<streams, header, ready, cur_dts, priv_pts>> /\ (pc \in Setup <=> pc' \in Setup)
    BY <1>8 DEF Calm
  <2>2. Made' BY <1>4, <1>6, <1>7, <2>1 DEF StreamsOK
  <2>. QED BY <1>7, <2>1, <2>2 DEF StreamsOK
<1>9. CASE NewStreams
  <2>1. ~MissingStream /\ streams' = [c \in Outputs |-> StreamsMade(c)]
        /\ cur_dts' = [c \in Outputs |-> [i \in DOMAIN StreamsMade(c) |-> 0]] /\ priv_pts' = cur_dts'
        /\ UNCHANGED <<header, ready>>
    BY <1>9 DEF NewStreams
  <2>2. \A c \in Outputs : StreamsMade(c) \in Seq(1 .. file.probed)
    BY <2>1, MadeAre DEF TypeOK, GivenOK
  <2>3. streams' \in [Outputs -> Seq(1 .. file.probed)] BY <2>1, <2>2
  <2>4. \A c \in Outputs : [i \in DOMAIN StreamsMade(c) |-> 0] \in Seq(Nat)
    <3>1. ASSUME NEW c \in Outputs PROVE [i \in DOMAIN StreamsMade(c) |-> 0] \in Seq(Nat)
      <4>. DEFINE s == StreamsMade(c)
      <4>1. s \in Seq(1 .. file.probed) BY <2>2
      <4>. HIDE DEF s
      <4>2. Len(s) \in Nat /\ DOMAIN s = 1 .. Len(s) BY <4>1
      <4>3. [i \in 1 .. Len(s) |-> 0] \in Seq(Nat) BY <4>2
      <4>4. [i \in DOMAIN s |-> 0] \in Seq(Nat) BY <4>2, <4>3
      <4>. QED BY <4>4 DEF s
    <3>. QED BY <3>1
  <2>5. cur_dts' \in [Outputs -> Seq(Nat)] BY <2>1, <2>4
  <2>6. \A c \in Outputs : DOMAIN cur_dts'[c] = DOMAIN streams'[c] BY <2>1
  <2>7. \A c \in Outputs : streams'[c] = StreamsMade(c)' BY <2>1, <1>6
  <2>. QED BY <1>4, <1>7, <2>1, <2>3, <2>5, <2>6, <2>7 DEF StreamsOK
<1>10. CASE WriteHeader
  <2>1. /\ pc = "header" /\ UNCHANGED <<streams, cur_dts, priv_pts>>
        /\ header' = [c \in Outputs |->
                        IF streams[c] = <<>> \/ fmt[c].deferred THEN "none"
                        ELSE IF Refuses(c) THEN "refused" ELSE "ok"]
        /\ ready' = {c \in Outputs : streams[c] # <<>> /\ header'[c] # "refused"}
    BY <1>10 DEF WriteHeader, Goto
  <2>2. header' \in [Outputs -> {"none", "ok", "refused"}] BY <2>1
  <2>3. ready' \in SUBSET Outputs BY <2>1
  <2>4. Made' BY <1>4, <1>6, <1>7, <2>1 DEF StreamsOK, Setup
  <2>. QED BY <1>7, <2>1, <2>2, <2>3, <2>4 DEF StreamsOK
<1>11. CASE CopyRaw
  <2>1. UNCHANGED <<streams, header, ready, cur_dts, priv_pts>> /\ pc = "read"
    BY <1>11 DEF CopyRaw, muxing, Goto
  <2>2. Made' BY <1>4, <1>6, <1>7, <2>1 DEF StreamsOK, Setup
  <2>. QED BY <1>7, <2>1, <2>2 DEF StreamsOK
<1>12. CASE Submit
  <2>1. /\ pc = "read" /\ UNCHANGED <<streams, header, ready>> /\ SubI \in DOMAIN streams[SubC] /\ HasNext
        /\ cur_dts' = IF SubBad THEN cur_dts ELSE [cur_dts EXCEPT ![SubC][SubI] = SubDts]
        /\ priv_pts' = IF SubBad THEN priv_pts ELSE [priv_pts EXCEPT ![SubC][SubI] = SubDts + 1]
    BY <1>12, SubmitIs
  <2>2. Made' BY <1>4, <1>6, <1>7, <2>1 DEF StreamsOK, Setup
  <2>3. SubC \in Outputs /\ SubDts \in Nat BY <2>1, SubTypes
  <2>4. ASSUME NEW v \in Nat, NEW f \in [Outputs -> Seq(Nat)], DOMAIN f[SubC] = DOMAIN streams[SubC]
        PROVE  LET g == [f EXCEPT ![SubC][SubI] = v] IN
               g \in [Outputs -> Seq(Nat)] /\ \A c \in Outputs : DOMAIN g[c] = DOMAIN f[c]
    <3>. DEFINE g == [f EXCEPT ![SubC][SubI] = v]
                x == f[SubC]
                y == [x EXCEPT ![SubI] = v]
    <3>1. x \in Seq(Nat) BY <2>3
    <3>. HIDE DEF x
    <3>2. y \in Seq(Nat) /\ DOMAIN y = DOMAIN x
      <4>1. x \in [1 .. Len(x) -> Nat] /\ Len(x) \in Nat BY <3>1
      <4>2. y \in [1 .. Len(x) -> Nat] /\ DOMAIN y = DOMAIN x BY <4>1
      <4>. QED BY <4>1, <4>2
    <3>. HIDE DEF y
    <3>3. g = [f EXCEPT ![SubC] = y] BY DEF x, y
    <3>4. g \in [Outputs -> Seq(Nat)] BY <3>2, <3>3, <2>3
    <3>5. \A c \in Outputs : DOMAIN g[c] = DOMAIN f[c] BY <3>2, <3>3, <2>3 DEF x
    <3>. QED BY <3>4, <3>5
  <2>5. cur_dts' \in [Outputs -> Seq(Nat)] /\ \A c \in Outputs : DOMAIN cur_dts'[c] = DOMAIN cur_dts[c]
    BY <1>7, <2>1, <2>3, <2>4 DEF StreamsOK
  <2>6. priv_pts' \in [Outputs -> Seq(Nat)] /\ \A c \in Outputs : DOMAIN priv_pts'[c] = DOMAIN priv_pts[c]
    <3>1. SubDts + 1 \in Nat BY <2>3
    <3>. QED BY <1>7, <2>1, <2>3, <2>4, <3>1 DEF StreamsOK
  <2>. QED BY <1>7, <2>1, <2>2, <2>5, <2>6 DEF StreamsOK
<1>13. CASE Writes
  <2>1. pc \notin Setup /\ UNCHANGED <<streams, ready, cur_dts, priv_pts>>
        /\ header' = [header EXCEPT ![at] = WHdr] /\ Leaves(at)
    BY <1>13, WritesIs DEF Setup
  <2>2. Made' BY <1>4, <1>6, <1>7, <2>1 DEF StreamsOK
  <2>3. WHdr \in {"ok", "refused"} BY <2>1, WriteTypes
  <2>4. header' \in [Outputs -> {"none", "ok", "refused"}] BY <1>7, <2>1, <2>3 DEF StreamsOK
  <2>. QED BY <1>7, <2>1, <2>2, <2>4 DEF StreamsOK
<1>. QED BY <1>8, <1>9, <1>10, <1>11, <1>12, <1>13, StepKinds

LEMMA PacketsStep == ASSUME TypeOK, [Next]_vars PROVE PacketsOK'
<1>1. PacketsOK BY DEF TypeOK
<1>. DEFINE Types == packet_buffer \in [Outputs -> Seq(Handed)] /\ written \in [Outputs -> Seq(Handed)]
            Empty == /\ nread = 0 /\ frame_index = 0 /\ ready = {} /\ forced = {}
                     /\ \A c \in Outputs : header[c] = "none" /\ written[c] = <<>> /\ packet_buffer[c] = <<>>
<1>2. CASE Calm
  <2>1. /\ UNCHANGED <<ready, header, forced, packet_buffer, written>>
        /\ pc' \in Early => pc \in Early
        /\ pc \in Early => nread' = nread /\ frame_index' = frame_index
    BY <1>2 DEF Calm, Early
  <2>2. pc' \in Early => Empty' BY <1>1, <2>1 DEF PacketsOK, Early
  <2>. QED BY <1>1, <2>1, <2>2 DEF PacketsOK, Early
<1>3. CASE NewStreams
  <2>1. pc = "open" /\ UNCHANGED <<nread, frame_index, header, ready, packet_buffer, forced, written>>
    BY <1>3 DEF NewStreams, Goto
  <2>. QED BY <1>1, <2>1 DEF PacketsOK, Setup
<1>4. CASE WriteHeader
  <2>1. pc' = "read" /\ UNCHANGED <<packet_buffer, written>> BY <1>4 DEF WriteHeader, Goto
  <2>. QED BY <1>1, <2>1 DEF PacketsOK, Setup
<1>5. CASE CopyRaw
  <2>. DEFINE pkt == [st |-> 1, from |-> Packet.st, n |-> nread + 1, dts |-> Packet.dts]
              c   == Output(Packet.st)
  <2>1. /\ pc' = "read" /\ UNCHANGED packet_buffer /\ HasNext
        /\ written' = [written EXCEPT ![c] = Append(@, pkt)]
    BY <1>5 DEF CopyRaw, Goto, muxing
  <2>2. c \in Outputs /\ pkt \in Handed
    <3>1. /\ nread + 1 \in Nat \ {0} /\ Packet.st \in Nat \ {0} /\ Packet.dts \in Nat \union {NoPts}
          /\ c \in Outputs
      BY <2>1, PacketIs, FileIs DEF TypeOK, GivenOK
    <3>. QED BY <3>1 DEF Handed
  <2>. HIDE DEF pkt, c
  <2>3. written' \in [Outputs -> Seq(Handed)]
    <3>1. Append(written[c], pkt) \in Seq(Handed) BY <1>1, <2>2 DEF PacketsOK
    <3>. QED BY <1>1, <2>1, <2>2, <3>1 DEF PacketsOK
  <2>. QED BY <1>1, <2>1, <2>3 DEF PacketsOK, Setup
<1>6. CASE Submit
  <2>1. /\ pc' \notin Early /\ HasNext /\ SubI \in DOMAIN streams[SubC]
        /\ packet_buffer' = IF SubOut /\ job # "pusher"
                            THEN [packet_buffer EXCEPT ![SubC] = Insert(SubC, SubPkt)]
                            ELSE packet_buffer
        /\ written' = IF SubOut /\ job = "pusher"
                      THEN [written EXCEPT ![SubC] = Append(@, SubPkt)] ELSE written
    BY <1>6, SubmitIs DEF Early, Setup
  <2>2. SubC \in Outputs /\ SubPkt \in Handed BY <2>1, SubTypes
  <2>3. packet_buffer[SubC] \in Seq(Handed) /\ written[SubC] \in Seq(Handed)
    BY <1>1, <2>2 DEF PacketsOK
  <2>4. Insert(SubC, SubPkt) \in Seq(Handed) BY <2>2, <2>3, InsertIs DEF PutAt
  <2>5. Append(written[SubC], SubPkt) \in Seq(Handed) BY <2>2, <2>3
  <2>6. packet_buffer' \in [Outputs -> Seq(Handed)] BY <1>1, <2>1, <2>2, <2>4 DEF PacketsOK
  <2>7. written' \in [Outputs -> Seq(Handed)] BY <1>1, <2>1, <2>2, <2>5 DEF PacketsOK
  <2>. QED BY <2>1, <2>6, <2>7 DEF PacketsOK, Early
<1>7. CASE Writes
  <2>1. /\ pc' \notin Early /\ Leaves(at)
        /\ packet_buffer' = [packet_buffer EXCEPT ![at] = Tail(@)]
        /\ written' = IF WHdr = "ok" THEN [written EXCEPT ![at] = Append(@, WPkt)] ELSE written
    BY <1>7, WritesIs DEF Early, Setup
  <2>2. at \in Outputs /\ Tail(packet_buffer[at]) \in Seq(Handed) /\ WPkt \in Handed
    BY <2>1, WriteTypes
  <2>3. Append(written[at], WPkt) \in Seq(Handed) BY <1>1, <2>2 DEF PacketsOK
  <2>4. packet_buffer' \in [Outputs -> Seq(Handed)] BY <1>1, <2>1, <2>2 DEF PacketsOK
  <2>5. written' \in [Outputs -> Seq(Handed)] BY <1>1, <2>1, <2>2, <2>3 DEF PacketsOK
  <2>. QED BY <2>1, <2>4, <2>5 DEF PacketsOK, Early
<1>. QED BY <1>2, <1>3, <1>4, <1>5, <1>6, <1>7, StepKinds

LEMMA TypeStep == ASSUME TypeOK, [Next]_vars PROVE TypeOK'
<1>1. GivenOK' BY GivenStays DEF TypeOK, GivenOK, input
<1>. QED BY <1>1, PlaceStep, StreamsStep, PacketsStep DEF TypeOK

LEMMA TypeInit == ASSUME Init PROVE TypeOK
<1>1. GivenOK
  <2>1. PICK o \in IF job = "remuxer" THEN Formats ELSE {Flv} :
           fmt = [c \in Outputs |-> CASE c = "V" -> H264 [] c = "A" -> Adts [] OTHER -> o]
    BY DEF Init
  <2>2. o \in Format BY FormatsAssumption
  <2>3. \A c \in Outputs : fmt[c] = IF c = "V" THEN H264 ELSE IF c = "A" THEN Adts ELSE o
    BY <2>1 DEF Outputs
  <2>4. fmt \in [Outputs -> Format] BY <2>1, <2>2, <2>3, FormatsAre DEF Outputs
  <2>5. fmt["V"] = H264 /\ fmt["A"] = Adts /\ (job # "remuxer" => fmt["O"] = Flv)
    BY <2>1, <2>3 DEF Outputs
  <2>. QED BY <2>4, <2>5 DEF GivenOK, Init
<1>2. PlaceOK
  <2>1. Len(file.pkts) \in Nat BY <1>1, FileIs DEF GivenOK
  <2>2. pc = "open" /\ at = "O" /\ forced = {} /\ crashed = FALSE /\ nread = 0 /\ frame_index = 0
    BY DEF Init
  <2>3. crashed \in BOOLEAN BY <2>2
  <2>4. nread \in 0 .. Len(file.pkts) /\ frame_index \in 0 .. nread BY <2>1, <2>2
  <2>5. pc \in Locations /\ at \in Outputs /\ forced \in SUBSET Outputs
    BY <2>2 DEF Locations, Outputs
  <2>. QED BY <2>3, <2>4, <2>5 DEF PlaceOK
<1>3. StreamsOK
  <2>1. <<>> \in Seq(1 .. file.probed) /\ <<>> \in Seq(Nat) OBVIOUS
  <2>. QED BY <2>1 DEF StreamsOK, Init, Setup
<1>4. PacketsOK
  <2>1. <<>> \in Seq(Handed) OBVIOUS
  <2>. QED BY <2>1 DEF PacketsOK, Init, Setup
<1>. QED BY <1>1, <1>2, <1>3, <1>4 DEF TypeOK

\* Every variable of the copying jobs keeps its type: a packet that is handed
\* over has a time, and the streams of an output were found in the input.
THEOREM CopyTypeCorrect == Spec => []TypeOK
<1>1. Init => TypeOK BY TypeInit
<1>2. TypeOK /\ [Next]_vars => TypeOK' BY TypeStep
<1>. QED BY <1>1, <1>2, PTL DEF Spec

-----------------------------------------------------------------------------
(***************************************************************************)
(* What ends the process, and under which header packets are written.      *)
(* An output that has streams is prepared, unless its header was refused;  *)
(* a header is not accepted if it is to be refused; and nothing is written *)
(* before it.                                                              *)
(***************************************************************************)
Prepared ==
    pc \notin Early /\ job # "demuxer" =>
        \A c \in Outputs : c \in ready \/ streams[c] = <<>> \/ header[c] = "refused"

HeaderSays ==
    \A c \in Outputs :
        /\ header[c] = "ok" => ~Refuses(c)
        /\ c \in ready /\ ~fmt[c].deferred => header[c] = "ok"
        /\ c \in ready /\ header[c] = "refused" => Refuses(c)
        /\ job # "demuxer" /\ written[c] # <<>> => header[c] = "ok"

HeaderInv == Prepared /\ HeaderSays /\ OnlyKnownCrashes

\* A step that leaves the streams leaves what the header says of them.
LEMMA RefusesStays ==
    ASSUME UNCHANGED input, streams' = streams
    PROVE  \A c : Refuses(c)' <=> Refuses(c)
BY DEF Refuses, input

LEMMA PreparedStep == ASSUME TypeOK, Prepared, [Next]_vars PROVE Prepared'
<1>1. UNCHANGED input BY GivenStays
<1>2. CASE Calm
  <2>1. UNCHANGED <<ready, streams, header>> /\ (pc' \notin Early => pc \notin Early)
    BY <1>2 DEF Calm, Early
  <2>. QED BY <1>1, <1>2, <2>1 DEF Prepared, input, Calm, Early
<1>3. CASE NewStreams
  <2>1. pc' = "read" => job = "demuxer" BY <1>3 DEF NewStreams, Goto
  <2>2. pc' \in {"read", "header"} BY <1>3 DEF NewStreams, Goto
  <2>. QED BY <1>1, <2>1, <2>2 DEF Prepared, Early, input
<1>4. CASE WriteHeader
  <2>1. ready' = {c \in Outputs : streams[c] # <<>> /\ header'[c] # "refused"} /\ streams' = streams
    BY <1>4 DEF WriteHeader
  <2>. QED BY <2>1 DEF Prepared
<1>5. CASE CopyRaw
  <2>1. UNCHANGED <<ready, streams, header>> /\ pc = "read" BY <1>5 DEF CopyRaw, Goto, muxing
  <2>. QED BY <1>1, <2>1 DEF Prepared, Early, Setup, input
<1>6. CASE Submit
  <2>1. UNCHANGED <<ready, streams, header>> /\ pc = "read" BY <1>6, SubmitIs
  <2>. QED BY <1>1, <2>1 DEF Prepared, Early, Setup, input
<1>7. CASE Writes
  <2>1. /\ UNCHANGED <<ready, streams>> /\ pc \notin Early
        /\ header' = [header EXCEPT ![at] = WHdr]
    BY <1>7, WritesIs DEF Early, Setup
  <2>2. header \in [Outputs -> {"none", "ok", "refused"}] BY DEF TypeOK, StreamsOK
  <2>3. header[at] = "refused" => WHdr = "refused" BY DEF WHdr
  <2>4. \A c \in Outputs : header[c] = "refused" => header'[c] = "refused" BY <2>1, <2>2, <2>3
  <2>. QED BY <1>1, <2>1, <2>4 DEF Prepared, input
<1>. QED BY <1>2, <1>3, <1>4, <1>5, <1>6, <1>7, StepKinds

LEMMA HeaderSaysStep == ASSUME TypeOK, HeaderSays, [Next]_vars PROVE HeaderSays'
<1>1. UNCHANGED input BY GivenStays
<1>2. CASE Calm
  <2>1. UNCHANGED <<ready, streams, header, written>> BY <1>2 DEF Calm
  <2>2. \A c : Refuses(c)' <=> Refuses(c) BY <1>1, <2>1, RefusesStays
  <2>. QED BY <1>1, <2>1, <2>2 DEF HeaderSays, input
<1>3. CASE NewStreams
  <2>1. pc \in Setup /\ UNCHANGED <<header, ready, written>> BY <1>3 DEF NewStreams, Goto, Setup
  <2>2. ready = {} /\ \A c \in Outputs : header[c] = "none" /\ written[c] = <<>>
    BY <2>1 DEF TypeOK, PacketsOK
  <2>. QED BY <2>1, <2>2 DEF HeaderSays
<1>4. CASE WriteHeader
  <2>1. /\ pc = "header" /\ UNCHANGED <<written, streams>>
        /\ ready' = {c \in Outputs : streams[c] # <<>> /\ header'[c] # "refused"}
    BY <1>4 DEF WriteHeader, Goto
  <2>2. \A c \in Outputs : header'[c] = IF streams[c] = <<>> \/ fmt[c].deferred THEN "none"
                                        ELSE IF Refuses(c) THEN "refused" ELSE "ok"
    BY <1>4 DEF WriteHeader
  <2>3. \A c \in Outputs : written[c] = <<>> BY <2>1 DEF TypeOK, PacketsOK
  <2>4. \A c : Refuses(c)' <=> Refuses(c) BY <1>1, <2>1, RefusesStays
  <2>5. ASSUME NEW c \in Outputs
        PROVE  /\ header'[c] = "ok" => ~Refuses(c)
               /\ c \in ready' => header'[c] # "refused" /\ streams[c] # <<>>
               /\ c \in ready' /\ ~fmt[c].deferred => header'[c] = "ok"
    BY <2>1, <2>2
  <2>. QED BY <1>1, <2>1, <2>3, <2>4, <2>5 DEF HeaderSays, input
<1>5. CASE CopyRaw
  <2>1. UNCHANGED <<ready, streams, header>> /\ job = "demuxer" BY <1>5 DEF CopyRaw, muxing
  <2>2. \A c : Refuses(c)' <=> Refuses(c) BY <1>1, <2>1, RefusesStays
  <2>. QED BY <1>1, <2>1, <2>2 DEF HeaderSays, input
<1>6. CASE Submit
  <2>1. /\ UNCHANGED <<ready, streams, header>> /\ SubC \in ready /\ HasNext
        /\ SubI \in DOMAIN streams[SubC]
        /\ written' = IF SubOut /\ job = "pusher"
                      THEN [written EXCEPT ![SubC] = Append(@, SubPkt)] ELSE written
    BY <1>6, SubmitIs
  <2>2. \A c : Refuses(c)' <=> Refuses(c) BY <1>1, <2>1, RefusesStays
  <2>3. written \in [Outputs -> Seq(Handed)] BY DEF TypeOK, PacketsOK
  <2>4. job = "pusher" => header[SubC] = "ok"
    <3>1. job = "pusher" => SubC = "O" BY DEF SubC, Output
    <3>2. job = "pusher" => ~fmt["O"].deferred
      BY FormatsAssumption DEF TypeOK, GivenOK
    <3>. QED BY <2>1, <3>1, <3>2 DEF HeaderSays, Outputs
  <2>5. \A c \in Outputs : written'[c] = written[c] \/ header[c] = "ok" BY <2>1, <2>3, <2>4
  <2>. QED BY <1>1, <2>1, <2>2, <2>5 DEF HeaderSays, input
<1>7. CASE Writes
  <2>1. /\ UNCHANGED <<ready, streams>> /\ Leaves(at)
        /\ header' = [header EXCEPT ![at] = WHdr]
        /\ written' = IF WHdr = "ok" THEN [written EXCEPT ![at] = Append(@, WPkt)] ELSE written
    BY <1>7, WritesIs
  <2>2. \A c : Refuses(c)' <=> Refuses(c) BY <1>1, <2>1, RefusesStays
  <2>3. /\ written \in [Outputs -> Seq(Handed)] /\ header \in [Outputs -> {"none", "ok", "refused"}]
        /\ at \in Outputs
    BY DEF TypeOK, PacketsOK, StreamsOK, PlaceOK
  <2>4. /\ header[at] = "ok" => WHdr = "ok"
        /\ header[at] # "refused" => (WHdr = "ok" <=> ~Refuses(at))
        /\ header[at] = "refused" => WHdr = "refused"
    <3>1. CASE header[at] = "ok" BY <3>1, <2>3 DEF HeaderSays, WHdr
    <3>2. CASE header[at] # "ok" BY <3>2, <2>3 DEF WHdr
    <3>. QED BY <3>1, <3>2
  <2>5. WHdr \in {"ok", "refused"} BY <2>1, WriteTypes
  <2>6. \A c \in Outputs : c # at => header'[c] = header[c] /\ written'[c] = written[c]
    BY <2>1, <2>3
  <2>7. header'[at] = WHdr /\ (WHdr # "ok" => written'[at] = written[at]) BY <2>1, <2>3
  <2>8. ASSUME NEW c \in Outputs, c = at
        PROVE  /\ header'[c] = "ok" => ~Refuses(c)
               /\ c \in ready /\ ~fmt[c].deferred => header'[c] = "ok"
               /\ c \in ready /\ header'[c] = "refused" => Refuses(c)
               /\ job # "demuxer" /\ written'[c] # <<>> => header'[c] = "ok"
    BY <2>3, <2>4, <2>5, <2>7, <2>8 DEF HeaderSays
  <2>9. ASSUME NEW c \in Outputs, c # at
        PROVE  /\ header'[c] = "ok" => ~Refuses(c)
               /\ c \in ready /\ ~fmt[c].deferred => header'[c] = "ok"
               /\ c \in ready /\ header'[c] = "refused" => Refuses(c)
               /\ job # "demuxer" /\ written'[c] # <<>> => header'[c] = "ok"
    BY <2>6, <2>9 DEF HeaderSays
  <2>. QED BY <1>1, <2>1, <2>2, <2>8, <2>9 DEF HeaderSays, input
<1>. QED BY <1>2, <1>3, <1>4, <1>5, <1>6, <1>7, StepKinds

LEMMA CrashStep ==
    ASSUME TypeOK, Prepared, OnlyKnownCrashes, [Next]_vars
    PROVE  OnlyKnownCrashes'
<1>. DEFINE Known == \/ job = "demuxer2" /\ Found("other") # {}
                     \/ job = "remuxer" /\ file.probed < Len(file.streams)
                     \/ \E c \in Outputs : header[c] = "refused"
<1>1. UNCHANGED input BY GivenStays
<1>2. \A kind : Found(kind)' = Found(kind) BY <1>1 DEF Found, input
<1>3. \A c \in Outputs : header[c] = "refused" => header'[c] = "refused"
  <2>1. header \in [Outputs -> {"none", "ok", "refused"}] BY DEF TypeOK, StreamsOK
  <2>2. CASE Calm BY <2>2 DEF Calm
  <2>3. CASE NewStreams \/ CopyRaw BY <2>3 DEF NewStreams, CopyRaw, muxing
  <2>4. CASE WriteHeader
    <3>1. \A c \in Outputs : header[c] = "none"
      BY <2>4 DEF WriteHeader, Goto, TypeOK, PacketsOK
    <3>. QED BY <3>1
  <2>5. CASE Submit BY <2>5, SubmitIs
  <2>6. CASE Writes
    <3>1. header' = [header EXCEPT ![at] = WHdr] BY <2>6, WritesIs
    <3>2. header[at] = "refused" => WHdr = "refused" BY DEF WHdr
    <3>. QED BY <2>1, <3>1, <3>2
  <2>. QED BY <2>2, <2>3, <2>4, <2>5, <2>6, StepKinds
<1>4. Known => Known' BY <1>1, <1>2, <1>3 DEF input
<1>5. crashed' => crashed \/ NullContext \/ LateStream \/ NoPrivPts
  BY DEF Next, OpenFails, NullContext, NotFound, NewStreams, WriteHeader, Skip, LateStream,
     CopyRaw, InvalidIndex, NoPrivPts, Submit, Interleave, Trailer, WriteOne, Wait, EndOfInput,
     TrailerEnds, Close, vars
<1>6. NullContext => Known BY DEF NullContext
<1>7. LateStream => Known
  <2>1. ASSUME LateStream PROVE job = "remuxer" /\ file.probed < Len(file.streams)
    <3>1. job = "remuxer" /\ Packet.st > file.probed /\ HasNext BY <2>1 DEF LateStream
    <3>2. Packet.st \in 1 .. Len(file.streams) BY <3>1, PacketIs
    <3>3. Len(file.streams) \in Nat /\ file.probed \in Nat BY FileIs, FoundAre DEF TypeOK, GivenOK
    <3>. QED BY <3>1, <3>2, <3>3
  <2>. QED BY <2>1
<1>8. NoPrivPts => Known
  <2>1. ASSUME NoPrivPts PROVE \E c \in Outputs : header[c] = "refused"
    <3>1. /\ pc = "read" /\ job # "demuxer" /\ HasNext
          /\ StreamIndex(Packet.st) \in DOMAIN streams[Output(Packet.st)]
          /\ Output(Packet.st) \notin ready
      BY <2>1 DEF NoPrivPts, Goto
    <3>2. Output(Packet.st) \in Outputs BY <3>1, PacketIs
    <3>3. streams[Output(Packet.st)] # <<>> BY <3>1
    <3>. QED BY <3>1, <3>2, <3>3 DEF Prepared, Early, Setup
  <2>. QED BY <2>1
<1>. HIDE DEF Known
<1>9. crashed => Known BY DEF OnlyKnownCrashes, Known
<1>10. crashed' => Known' BY <1>4, <1>5, <1>6, <1>7, <1>8, <1>9
<1>. QED BY <1>10 DEF OnlyKnownCrashes, Known

LEMMA HeaderInit == ASSUME Init PROVE HeaderInv
<1>1. /\ ready = {} /\ crashed = FALSE /\ pc = "open"
      /\ \A c \in Outputs : header[c] = "none" /\ written[c] = <<>>
  BY DEF Init
<1>. QED BY <1>1 DEF HeaderInv, Prepared, HeaderSays, OnlyKnownCrashes, Early, Setup

\* However the files are made and whatever the format: the process is ended
\* only by a third kind of stream in demuxer2, by a stream that appears after
\* the remuxer has made its own, and by an output whose header was refused.
THEOREM KnownCrashesOnly == Spec => []OnlyKnownCrashes
<1>1. Init => TypeOK /\ HeaderInv BY TypeInit, HeaderInit
<1>2. TypeOK /\ HeaderInv /\ [Next]_vars => (TypeOK /\ HeaderInv)'
  BY TypeStep, PreparedStep, HeaderSaysStep, CrashStep DEF HeaderInv
<1>3. HeaderInv => OnlyKnownCrashes BY DEF HeaderInv
<1>. QED BY <1>1, <1>2, <1>3, PTL DEF Spec

-----------------------------------------------------------------------------
(***************************************************************************)
(* Every packet in an output, or waiting for it, is one that was read and  *)
(* sent there, under the number of its stream.                             *)
(***************************************************************************)
Packets(s) == {s[k] : k \in DOMAIN s}
Placed(c)  == Packets(written[c])
Waiting(c) == Packets(packet_buffer[c])

\* The time a packet was read with, in the time base of its output: what it
\* has there, unless the pusher makes up another.
Given(c, p) == Rescale(file.pkts[p.n].dts, file.streams[p.from].base, BaseFor(c, p.from))

Known(c, p) ==
    /\ p \in Handed /\ p.n \in Routed(c) /\ p.from = file.pkts[p.n].st
    /\ job # "demuxer" => /\ p.st \in DOMAIN streams[c] /\ p.dts \in Nat
                          /\ p.st = StreamIndex(p.from)
                          /\ job # "pusher" /\ file.pkts[p.n].dts # NoPts => p.dts = Given(c, p)
    /\ job = "demuxer" => p.st = 1

AllKnown == \A c \in Outputs : \A p \in Placed(c) \union Waiting(c) : Known(c, p)

LEMMA RoutedIs ==
    ASSUME TypeOK, NEW c \in Outputs
    PROVE  /\ Routed(c) \in SUBSET (1 .. nread) /\ nread \in Nat
           /\ \A n \in Routed(c) : /\ n \in 1 .. Len(file.pkts)
                                   /\ file.pkts[n].st \in 1 .. file.probed
                                   /\ Wanted(file.pkts[n].st) /\ Output(file.pkts[n].st) = c
<1>1. Routed(c) \in SUBSET (1 .. nread) BY DEF Routed
<1>2. nread \in 0 .. Len(file.pkts) /\ Len(file.pkts) \in Nat
  BY FileIs DEF TypeOK, PlaceOK, GivenOK
<1>3. ASSUME NEW n \in Routed(c)
      PROVE  /\ n \in 1 .. Len(file.pkts) /\ file.pkts[n].st \in 1 .. file.probed
             /\ Wanted(file.pkts[n].st) /\ Output(file.pkts[n].st) = c
  <2>1. n \in 1 .. Len(file.pkts) BY <1>1, <1>2
  <2>2. file.pkts[n].st \in 1 .. Len(file.streams) /\ Len(file.streams) \in Nat
    <3>1. file \in Files BY DEF TypeOK, GivenOK
    <3>2. file.pkts[n].st \in 1 .. Len(file.streams) BY <2>1, <3>1, FileIs
    <3>3. file.streams \in Seq(Stream) BY <3>1, FileIs
    <3>. QED BY <3>2, <3>3
  <2>3. file.probed \in Nat BY FoundAre DEF TypeOK, GivenOK
  <2>. QED BY <2>1, <2>2, <2>3 DEF Routed
<1>. QED BY <1>1, <1>2, <1>3

\* What is sent where depends on what the job is given only, so that what was
\* sent remains sent.
LEMMA RoutedStays ==
    ASSUME TypeOK, [Next]_vars, NEW c \in Outputs
    PROVE  /\ \A st : (Wanted(st)' <=> Wanted(st)) /\ Output(st)' = Output(st)
                      /\ StreamIndex(st)' = StreamIndex(st)
           /\ \A n \in Nat : n <= nread => (n \in Routed(c)' <=> n \in Routed(c))
           /\ nread' = nread => Routed(c)' = Routed(c)
           /\ nread <= nread' /\ nread \in Nat /\ nread' \in {nread, nread + 1}
<1>1. UNCHANGED input BY GivenStays
<1>2. \A kind : Found(kind)' = Found(kind) BY <1>1 DEF Found, input
<1>3. \A kind : Index(kind)' = Index(kind) BY <1>1, <1>2 DEF Index, input
<1>4. \A st : (Wanted(st)' <=> Wanted(st)) /\ Output(st)' = Output(st)
                 /\ StreamIndex(st)' = StreamIndex(st)
  BY <1>1, <1>3 DEF Wanted, Output, StreamIndex, input
<1>5. nread' \in {nread, nread + 1}
  BY DEF Next, OpenFails, NullContext, NotFound, NewStreams, WriteHeader, Skip, LateStream,
     CopyRaw, InvalidIndex, NoPrivPts, Submit, Interleave, Trailer, WriteOne, Wait, EndOfInput,
     TrailerEnds, Close, vars
<1>6. nread \in Nat BY RoutedIs
<1>7. nread <= nread' /\ nread' \in Nat BY <1>5, <1>6
<1>8. \A n \in Nat : n <= nread => (n \in Routed(c)' <=> n \in Routed(c))
  <2>1. ASSUME NEW n \in Nat, n <= nread PROVE n \in 1 .. nread <=> n \in 1 .. nread'
    BY <2>1, <1>6, <1>7
  <2>. QED BY <1>1, <1>4, <2>1 DEF Routed, input
<1>9. nread' = nread => Routed(c)' = Routed(c) BY <1>1, <1>4 DEF Routed, input
<1>. QED BY <1>4, <1>5, <1>6, <1>7, <1>8, <1>9

LEMMA KnownStays ==
    ASSUME TypeOK, [Next]_vars, streams' = streams, NEW c \in Outputs, NEW p, Known(c, p)
    PROVE  Known(c, p)'
<1>1. UNCHANGED input BY GivenStays
<1>2. p.n \in Nat /\ p.n <= nread BY RoutedIs DEF Known
<1>3. p.n \in Routed(c)' BY <1>2, RoutedStays DEF Known
<1>4. StreamIndex(p.from)' = StreamIndex(p.from) BY RoutedStays
<1>5. Given(c, p)' = Given(c, p) BY <1>1 DEF Given, BaseFor, input
<1>. QED BY <1>1, <1>3, <1>4, <1>5 DEF Known, input

\* What a step puts where.
LEMMA RangeAppend ==
    ASSUME NEW S, NEW s \in Seq(S), NEW x \in S
    PROVE  Packets(Append(s, x)) = Packets(s) \union {x}
<1>1. /\ DOMAIN s = 1 .. Len(s) /\ Len(s) \in Nat /\ DOMAIN Append(s, x) = 1 .. Len(s) + 1
      /\ \A k \in 1 .. Len(s) : Append(s, x)[k] = s[k]
      /\ Append(s, x)[Len(s) + 1] = x
  OBVIOUS
<1>. DEFINE t == Append(s, x)
            n == Len(s)
<1>2. /\ DOMAIN s = 1 .. n /\ n \in Nat /\ DOMAIN t = 1 .. n + 1
      /\ \A k \in 1 .. n : t[k] = s[k]
      /\ t[n + 1] = x
  BY <1>1
<1>. HIDE DEF t, n
<1>3. 1 .. n + 1 = 1 .. n \union {n + 1} BY <1>2
<1>4. {t[k] : k \in DOMAIN t} = {s[k] : k \in DOMAIN s} \union {x} BY <1>2, <1>3
<1>. QED BY <1>4 DEF t, Packets

LEMMA RangePut ==
    ASSUME NEW b \in Seq(Handed), NEW pkt \in Handed, NEW k, NEW s, PutAt(b, pkt, k, s)
    PROVE  Packets(s) = Packets(b) \union {pkt}
<1>1. /\ DOMAIN b = 1 .. Len(b) /\ Len(b) \in Nat /\ k \in 1 .. Len(b) + 1
      /\ DOMAIN s = 1 .. Len(b) + 1 /\ s[k] = pkt
      /\ \A j \in 1 .. k - 1 : s[j] = b[j]
      /\ \A j \in k + 1 .. Len(b) + 1 : s[j] = b[j - 1]
  BY DEF PutAt
<1>. DEFINE n == Len(b)
<1>2. ASSUME NEW j \in 1 .. n + 1 PROVE s[j] = pkt \/ \E i \in 1 .. n : s[j] = b[i]
  <2>1. CASE j < k
    <3>1. j \in 1 .. n /\ s[j] = b[j] BY <1>1, <2>1
    <3>. QED BY <3>1
  <2>2. CASE j = k BY <1>1, <2>2
  <2>3. CASE j > k
    <3>1. j - 1 \in 1 .. n /\ j \in k + 1 .. n + 1 BY <1>1, <2>3
    <3>2. s[j] = b[j - 1] BY <1>1, <3>1
    <3>. QED BY <3>1, <3>2
  <2>. QED BY <1>1, <2>1, <2>2, <2>3
<1>3. ASSUME NEW i \in 1 .. n PROVE \E j \in 1 .. n + 1 : s[j] = b[i]
  <2>1. CASE i < k
    <3>1. i \in 1 .. k - 1 /\ i \in 1 .. n + 1 BY <1>1, <2>1
    <3>2. s[i] = b[i] BY <1>1, <3>1
    <3>. QED BY <3>1, <3>2
  <2>2. CASE i >= k
    <3>1. i + 1 \in k + 1 .. n + 1 /\ i + 1 \in 1 .. n + 1 /\ i + 1 - 1 = i BY <1>1, <2>2
    <3>2. s[i + 1] = b[i + 1 - 1] BY <1>1, <3>1
    <3>3. s[i + 1] = b[i] BY <3>1, <3>2
    <3>. QED BY <3>1, <3>3
  <2>. QED BY <1>1, <2>1, <2>2
<1>4. \E j \in 1 .. n + 1 : s[j] = pkt BY <1>1
<1>5. DOMAIN b = 1 .. n /\ DOMAIN s = 1 .. n + 1 BY <1>1
<1>. HIDE DEF n
<1>6. \A j \in DOMAIN s : s[j] \in {b[i] : i \in DOMAIN b} \union {pkt}
  <2>1. ASSUME NEW j \in 1 .. n + 1 PROVE s[j] \in {b[i] : i \in 1 .. n} \union {pkt}
    BY <1>2
  <2>. QED BY <1>5, <2>1
<1>7. \A i \in DOMAIN b : b[i] \in {s[j] : j \in DOMAIN s}
  <2>1. ASSUME NEW i \in 1 .. n PROVE b[i] \in {s[j] : j \in 1 .. n + 1}
    <3>1. PICK j \in 1 .. n + 1 : s[j] = b[i] BY <1>3
    <3>. QED BY <3>1
  <2>. QED BY <1>5, <2>1
<1>8. pkt \in {s[j] : j \in DOMAIN s}
  <2>1. PICK j \in 1 .. n + 1 : s[j] = pkt BY <1>4
  <2>. QED BY <1>5, <2>1
<1>. QED BY <1>6, <1>7, <1>8 DEF Packets

LEMMA RangeTail ==
    ASSUME NEW S, NEW s \in Seq(S), s # <<>>
    PROVE  Packets(s) = Packets(Tail(s)) \union {Head(s)}
<1>. DEFINE t == Tail(s)
            n == Len(s)
<1>1. /\ DOMAIN s = 1 .. n /\ n \in Nat \ {0} /\ DOMAIN t = 1 .. n - 1
      /\ \A k \in 1 .. n - 1 : t[k] = s[k + 1]
      /\ Head(s) = s[1]
  OBVIOUS
<1>. HIDE DEF t, n
<1>2. \A k \in DOMAIN s : s[k] \in {t[i] : i \in DOMAIN t} \union {Head(s)}
  <2>1. ASSUME NEW k \in 1 .. n, k # 1 PROVE s[k] \in {t[i] : i \in 1 .. n - 1}
    <3>1. k - 1 \in 1 .. n - 1 /\ k - 1 + 1 = k BY <1>1, <2>1
    <3>2. t[k - 1] = s[k] BY <1>1, <3>1
    <3>. QED BY <3>1, <3>2
  <2>. QED BY <1>1, <2>1
<1>3. \A i \in DOMAIN t : t[i] \in {s[k] : k \in DOMAIN s}
  <2>1. ASSUME NEW i \in 1 .. n - 1 PROVE t[i] \in {s[k] : k \in 1 .. n}
    <3>1. i + 1 \in 1 .. n /\ t[i] = s[i + 1] BY <1>1
    <3>. QED BY <3>1
  <2>. QED BY <1>1, <2>1
<1>4. Head(s) \in {s[k] : k \in DOMAIN s}
  <2>1. 1 \in DOMAIN s BY <1>1
  <2>. QED BY <1>1, <2>1
<1>. QED BY <1>2, <1>3, <1>4 DEF t, Packets

LEMMA RawPuts ==
    ASSUME TypeOK, CopyRaw
    PROVE  LET c   == Output(Packet.st)
               pkt == [st |-> 1, from |-> Packet.st, n |-> nread + 1, dts |-> Packet.dts]
           IN  /\ c \in Outputs /\ pkt \in Handed /\ job = "demuxer" /\ HasNext /\ Wanted(Packet.st)
               /\ nread' = nread + 1 /\ UNCHANGED <<streams, packet_buffer>>
               /\ \A d \in Outputs : d # c => written'[d] = written[d]
               /\ written'[c] = Append(written[c], pkt)
               /\ written[c] \in Seq(Handed) /\ pc = "read"
<1>. DEFINE c   == Output(Packet.st)
            pkt == [st |-> 1, from |-> Packet.st, n |-> nread + 1, dts |-> Packet.dts]
<1>1. /\ job = "demuxer" /\ HasNext /\ Wanted(Packet.st) /\ nread' = nread + 1 /\ pc = "read"
      /\ UNCHANGED <<streams, packet_buffer>> /\ written' = [written EXCEPT ![c] = Append(@, pkt)]
  BY DEF CopyRaw, muxing, Goto
<1>2. /\ nread + 1 \in Nat \ {0} /\ Packet.st \in Nat \ {0} /\ Packet.dts \in Nat \union {NoPts}
      /\ c \in Outputs
  BY <1>1, PacketIs, FileIs DEF TypeOK, GivenOK
<1>3. pkt \in Handed BY <1>2 DEF Handed
<1>4. written \in [Outputs -> Seq(Handed)] BY DEF TypeOK, PacketsOK
<1>. HIDE DEF pkt, c
<1>5. /\ \A d \in Outputs : d # c => written'[d] = written[d]
      /\ written'[c] = Append(written[c], pkt) /\ written[c] \in Seq(Handed)
  BY <1>1, <1>2, <1>4
<1>. QED BY <1>1, <1>2, <1>3, <1>5 DEF pkt, c

LEMMA SubmitPuts ==
    ASSUME TypeOK, Submit
    PROVE  /\ SubC \in Outputs /\ SubPkt \in Handed /\ SubPkt.dts = SubDts /\ SubPkt.st = SubI
           /\ SubPkt.n = nread + 1 /\ SubPkt.from = Packet.st
           /\ packet_buffer[SubC] \in Seq(Handed) /\ written[SubC] \in Seq(Handed)
           /\ \A d \in Outputs : d # SubC => /\ written'[d] = written[d]
                                             /\ packet_buffer'[d] = packet_buffer[d]
           /\ SubOut /\ job # "pusher" => /\ packet_buffer'[SubC] = Insert(SubC, SubPkt)
                                          /\ written' = written
           /\ SubOut /\ job = "pusher" => /\ written'[SubC] = Append(written[SubC], SubPkt)
                                          /\ packet_buffer' = packet_buffer
           /\ ~SubOut => written' = written /\ packet_buffer' = packet_buffer
<1>1. /\ HasNext /\ SubI \in DOMAIN streams[SubC]
      /\ packet_buffer' = IF SubOut /\ job # "pusher"
                          THEN [packet_buffer EXCEPT ![SubC] = Insert(SubC, SubPkt)]
                          ELSE packet_buffer
      /\ written' = IF SubOut /\ job = "pusher"
                    THEN [written EXCEPT ![SubC] = Append(@, SubPkt)] ELSE written
  BY SubmitIs
<1>2. SubC \in Outputs /\ SubPkt \in Handed BY <1>1, SubTypes
<1>3. packet_buffer \in [Outputs -> Seq(Handed)] /\ written \in [Outputs -> Seq(Handed)]
  BY DEF TypeOK, PacketsOK
<1>4. /\ SubPkt.dts = SubDts /\ SubPkt.st = SubI
      /\ SubPkt.n = nread + 1 /\ SubPkt.from = Packet.st
  BY DEF SubPkt
<1>. QED BY <1>1, <1>2, <1>3, <1>4

LEMMA WritePuts ==
    ASSUME TypeOK, Writes
    PROVE  /\ at \in Outputs /\ written[at] \in Seq(Handed)
           /\ \A d \in Outputs : d # at => /\ written'[d] = written[d]
                                           /\ packet_buffer'[d] = packet_buffer[d]
                                           /\ header'[d] = header[d]
           /\ packet_buffer'[at] = Tail(packet_buffer[at]) /\ header'[at] = WHdr
           /\ written'[at] = IF WHdr = "ok" THEN Append(written[at], WPkt) ELSE written[at]
<1>1. /\ packet_buffer' = [packet_buffer EXCEPT ![at] = Tail(@)]
      /\ header' = [header EXCEPT ![at] = WHdr]
      /\ written' = IF WHdr = "ok" THEN [written EXCEPT ![at] = Append(@, WPkt)] ELSE written
  BY WritesIs
<1>2. packet_buffer \in [Outputs -> Seq(Handed)] /\ written \in [Outputs -> Seq(Handed)]
      /\ header \in [Outputs -> {"none", "ok", "refused"}] /\ at \in Outputs
  BY DEF TypeOK, PacketsOK, StreamsOK, PlaceOK
<1>. QED BY <1>1, <1>2

\* The same for the sets of packets.
LEMMA SetsStep ==
    ASSUME TypeOK, [Next]_vars, NEW c \in Outputs
    PROVE  \/ /\ Submit /\ SubC = c /\ SubOut
              /\ Placed(c)' \union Waiting(c)' = Placed(c) \union Waiting(c) \union {SubPkt}
           \/ /\ CopyRaw /\ Output(Packet.st) = c /\ Waiting(c)' = Waiting(c)
              /\ Placed(c)' = Placed(c) \union
                    {[st |-> 1, from |-> Packet.st, n |-> nread + 1, dts |-> Packet.dts]}
           \/ Placed(c)' \union Waiting(c)' \subseteq Placed(c) \union Waiting(c)
<1>1. CASE Calm \/ NewStreams \/ WriteHeader
  <2>1. written' = written /\ packet_buffer' = packet_buffer
    BY <1>1 DEF Calm, NewStreams, WriteHeader
  <2>2. Placed(c)' = Placed(c) /\ Waiting(c)' = Waiting(c) BY <2>1 DEF Placed, Waiting
  <2>. QED BY <2>2
<1>2. CASE CopyRaw
  <2>. DEFINE pkt == [st |-> 1, from |-> Packet.st, n |-> nread + 1, dts |-> Packet.dts]
  <2>1. /\ pkt \in Handed /\ job = "demuxer" /\ packet_buffer' = packet_buffer
        /\ c # Output(Packet.st) => written'[c] = written[c]
        /\ c = Output(Packet.st) => /\ written'[c] = Append(written[c], pkt)
                                    /\ written[c] \in Seq(Handed)
    BY <1>2, RawPuts
  <2>. HIDE DEF pkt
  <2>2. ~Submit BY <2>1, SubmitIs
  <2>3. Waiting(c)' = Waiting(c) BY <2>1 DEF Waiting
  <2>4. CASE c # Output(Packet.st)
    <3>1. Placed(c)' = Placed(c) BY <2>1, <2>4 DEF Placed
    <3>. QED BY <2>2, <2>3, <2>4, <3>1
  <2>5. CASE c = Output(Packet.st)
    <3>1. Placed(c)' = Placed(c) \union {pkt}
      <4>1. written'[c] = Append(written[c], pkt) /\ written[c] \in Seq(Handed) BY <2>1, <2>5
      <4>. QED BY <2>1, <4>1, RangeAppend DEF Placed
    <3>. QED BY <1>2, <2>2, <2>3, <2>5, <3>1 DEF pkt
  <2>. QED BY <2>4, <2>5
<1>3. CASE Submit
  <2>1. ~CopyRaw BY <1>3, SubmitIs DEF CopyRaw
  <2>2. SubPkt \in Handed /\ packet_buffer[SubC] \in Seq(Handed) /\ written[SubC] \in Seq(Handed)
    BY <1>3, SubmitPuts
  <2>3. CASE SubC # c \/ ~SubOut
    <3>1. written'[c] = written[c] /\ packet_buffer'[c] = packet_buffer[c]
      BY <1>3, <2>3, SubmitPuts
    <3>2. Placed(c)' = Placed(c) /\ Waiting(c)' = Waiting(c) BY <3>1 DEF Placed, Waiting
    <3>. QED BY <2>1, <2>3, <3>2
  <2>4. CASE SubC = c /\ SubOut /\ job = "pusher"
    <3>1. written'[c] = Append(written[c], SubPkt) /\ packet_buffer' = packet_buffer
      BY <1>3, <2>4, SubmitPuts
    <3>2. Placed(c)' = Placed(c) \union {SubPkt}
      <4>1. written[c] \in Seq(Handed) BY <2>2, <2>4
      <4>2. written'[c] = Append(written[c], SubPkt) /\ SubPkt \in Handed BY <2>2, <2>4, <3>1
      <4>. QED BY <4>1, <4>2, RangeAppend DEF Placed
    <3>3. Waiting(c)' = Waiting(c) BY <3>1 DEF Waiting
    <3>. QED BY <1>3, <2>1, <2>4, <3>2, <3>3
  <2>5. CASE SubC = c /\ SubOut /\ job # "pusher"
    <3>1. packet_buffer'[c] = Insert(c, SubPkt) /\ written' = written
      BY <1>3, <2>5, SubmitPuts
    <3>2. PICK k : PutAt(packet_buffer[c], SubPkt, k, Insert(c, SubPkt)) BY <2>2, <2>5, InsertIs
    <3>3. Waiting(c)' = Waiting(c) \union {SubPkt}
      <4>1. packet_buffer[c] \in Seq(Handed) BY <2>2, <2>5
      <4>2. PutAt(packet_buffer[c], SubPkt, k, packet_buffer'[c]) /\ SubPkt \in Handed
        BY <2>2, <3>1, <3>2
      <4>. QED BY <4>1, <4>2, RangePut DEF Waiting
    <3>4. Placed(c)' = Placed(c) BY <3>1 DEF Placed
    <3>. QED BY <1>3, <2>1, <2>5, <3>3, <3>4
  <2>. QED BY <2>3, <2>4, <2>5
<1>4. CASE Writes
  <2>1. pc # "read" BY <1>4, WritesIs
  <2>2. ~CopyRaw /\ ~Submit BY <2>1, SubmitIs DEF CopyRaw, Goto
  <2>3. CASE c # at
    <3>1. written'[c] = written[c] /\ packet_buffer'[c] = packet_buffer[c] BY <1>4, <2>3, WritePuts
    <3>2. Placed(c)' = Placed(c) /\ Waiting(c)' = Waiting(c) BY <3>1 DEF Placed, Waiting
    <3>. QED BY <2>2, <3>2
  <2>4. CASE c = at
    <3>1. /\ packet_buffer'[c] = Tail(packet_buffer[c]) /\ written[c] \in Seq(Handed)
          /\ written'[c] = Append(written[c], WPkt) \/ written'[c] = written[c]
      BY <1>4, <2>4, WritePuts
    <3>2. packet_buffer[c] \in Seq(Handed) /\ packet_buffer[c] # <<>> /\ WPkt \in Handed
          /\ WPkt = Head(packet_buffer[c])
      BY <1>4, <2>4, WritesIs, WriteTypes DEF WPkt
    <3>3. Waiting(c) = Waiting(c)' \union {WPkt} BY <3>1, <3>2, RangeTail DEF Waiting
    <3>4. Placed(c)' = Placed(c) \union {WPkt} \/ Placed(c)' = Placed(c)
      <4>1. CASE written'[c] = Append(written[c], WPkt)
        BY <4>1, <3>1, <3>2, RangeAppend DEF Placed
      <4>2. CASE written'[c] = written[c] BY <4>2 DEF Placed
      <4>. QED BY <3>1, <4>1, <4>2
    <3>. QED BY <2>2, <3>3, <3>4
  <2>. QED BY <2>3, <2>4
<1>. QED BY <1>1, <1>2, <1>3, <1>4, StepKinds

\* What is sent once another packet has been read.
LEMMA RoutedNext ==
    ASSUME TypeOK, [Next]_vars, HasNext, nread' = nread + 1, NEW c \in Outputs
    PROVE  /\ nread + 1 \in Routed(c)' <=>
                  Wanted(Packet.st) /\ Packet.st <= file.probed /\ Output(Packet.st) = c
           /\ Routed(c)' = Routed(c) \union (IF nread + 1 \in Routed(c)' THEN {nread + 1} ELSE {})
           /\ nread + 1 \notin Routed(c)
<1>1. UNCHANGED input BY GivenStays
<1>2. nread \in Nat /\ 1 .. nread' = 1 .. nread \union {nread + 1} /\ nread + 1 \notin 1 .. nread
  BY RoutedIs
<1>3. PICK st : st = Packet.st OBVIOUS
<1>4. (Wanted(st)' <=> Wanted(st)) /\ Output(st)' = Output(st) BY RoutedStays
<1>5. nread + 1 \in Routed(c)' <=> Wanted(st)' /\ st <= file.probed /\ Output(st)' = c
  <2>1. file.pkts[nread + 1].st = st BY <1>3 DEF Packet
  <2>2. nread + 1 \in 1 .. nread' BY <1>2
  <2>. QED BY <1>1, <2>1, <2>2 DEF Routed, input
<1>6. \A n \in 1 .. nread : n \in Routed(c)' <=> n \in Routed(c)
  <2>1. \A n \in 1 .. nread : n \in Nat /\ n <= nread BY <1>2
  <2>. QED BY <2>1, RoutedStays
<1>7. Routed(c) \subseteq 1 .. nread /\ Routed(c)' \subseteq 1 .. nread' BY DEF Routed
<1>. QED BY <1>2, <1>3, <1>4, <1>5, <1>6, <1>7

\* The packet that is handed over is known at once.
LEMMA SubKnown ==
    ASSUME TypeOK, Submit
    PROVE  /\ Packet.st \in 1 .. file.probed
           /\ \A c \in Outputs : c = SubC => nread + 1 \in Routed(c)'
           /\ \A c \in Outputs, p \in Handed : c = SubC /\ p = SubPkt => Known(c, p)'
<1>1. /\ HasNext /\ job # "demuxer" /\ Wanted(Packet.st) /\ SubI \in DOMAIN streams[SubC]
      /\ pc = "read" /\ nread' = nread + 1 /\ streams' = streams /\ UNCHANGED input
  BY SubmitIs
<1>2. SubC \in Outputs /\ SubPkt \in Handed /\ SubDts \in Nat BY <1>1, SubTypes
<1>3. /\ ~MissingStream /\ streams[SubC] = StreamsMade(SubC)
      /\ file \in Files /\ job \in Jobs
  BY <1>1, <1>2 DEF TypeOK, StreamsOK, GivenOK, Setup
<1>4. Packet.st \in 1 .. file.probed
  <2>1. CASE job = "remuxer"
    <3>1. SubC = "O" /\ SubI = Packet.st BY <2>1 DEF SubC, SubI, Output, StreamIndex
    <3>2. DOMAIN streams[SubC] = 1 .. file.probed
      BY <1>3, <2>1, <3>1 DEF StreamsMade, AllProbed
    <3>. QED BY <1>1, <3>1, <3>2
  <2>2. CASE job \in {"pusher", "puller"}
    <3>1. Found("video") # {} BY <1>3, <2>2 DEF MissingStream
    <3>. QED BY <1>1, <1>3, <2>2, <3>1, FoundAre DEF Wanted
  <2>3. CASE job = "demuxer2"
    <3>1. Found("video") # {} /\ Found("audio") # {} BY <1>3, <2>3 DEF MissingStream
    <3>2. Packet.st \in {Index("video"), Index("audio")} BY <1>1, <2>3 DEF Wanted
    <3>. QED BY <1>3, <3>1, <3>2, FoundAre
  <2>. QED BY <1>1, <1>3, <2>1, <2>2, <2>3 DEF Jobs
<1>5. ASSUME NEW c \in Outputs, c = SubC PROVE nread + 1 \in Routed(c)'
  <2>1. [Next]_vars BY DEF Next
  <2>2. Packet.st <= file.probed /\ Output(Packet.st) = c BY <1>4, <1>5 DEF SubC
  <2>. QED BY <1>1, <2>1, <2>2, RoutedNext
<1>6. ASSUME NEW c \in Outputs, NEW p \in Handed, c = SubC, p = SubPkt PROVE Known(c, p)'
  <2>1. /\ p.st = SubI /\ p.n = nread + 1 /\ p.from = Packet.st /\ p.dts = SubDts
    BY <1>6 DEF SubPkt
  <2>2. p.n \in Routed(c)' BY <1>5, <1>6, <2>1
  <2>3. p.from = file.pkts[p.n].st BY <2>1 DEF Packet
  <2>4. p.st \in DOMAIN streams[c] /\ p.dts \in Nat BY <1>1, <1>2, <1>6, <2>1
  <2>5. [Next]_vars BY DEF Next
  <2>6. p.st = StreamIndex(p.from)' /\ p.st = StreamIndex(p.from)
    <3>1. StreamIndex(p.from)' = StreamIndex(p.from) BY <1>2, <2>5, RoutedStays
    <3>. QED BY <2>1, <3>1 DEF SubI
  <2>7. ASSUME job # "pusher", file.pkts[p.n].dts # NoPts PROVE p.dts = Given(c, p)'
    <3>1. file.pkts[p.n].dts = Packet.dts /\ Packet.dts # NoPts BY <2>1, <2>7 DEF Packet
    <3>2. Packet.dts \in Nat \union {NoPts} /\ Packet.st \in 1 .. Len(file.streams)
          /\ Output(Packet.st) = c /\ frame_index \in 0 .. Len(file.made) - 1
      BY <1>1, <1>6, PacketIs, MadeForAll DEF SubC
    <3>3. SubT \in Nat /\ SubT = Rescale(Packet.dts, file.streams[Packet.st].base, BaseFor(c, Packet.st))
      BY <2>7, <3>1, <3>2, StampIs DEF SubT
    <3>4. SubDts = SubT BY <3>3, TimesAssumption DEF SubDts
    <3>5. Given(c, p) = SubDts BY <2>1, <3>1, <3>3, <3>4 DEF Given
    <3>6. Given(c, p)' = Given(c, p) BY <1>1 DEF Given, BaseFor, input
    <3>. QED BY <2>1, <3>5, <3>6
  <2>. QED BY <1>1, <2>2, <2>3, <2>4, <2>6, <2>7 DEF Known, input
<1>. QED BY <1>4, <1>5, <1>6

LEMMA RawKnown ==
    ASSUME TypeOK, CopyRaw, NEW c \in Outputs, c = Output(Packet.st), NEW p,
           p = [st |-> 1, from |-> Packet.st, n |-> nread + 1, dts |-> Packet.dts]
    PROVE  Known(c, p)' /\ nread + 1 \in Routed(c)' /\ p.n = nread + 1
<1>1. /\ p \in Handed /\ job = "demuxer" /\ HasNext /\ Wanted(Packet.st) /\ nread' = nread + 1
      /\ pc = "read"
  BY RawPuts
<1>2. ~MissingStream /\ file \in Files BY <1>1 DEF TypeOK, StreamsOK, GivenOK, Setup
<1>3. Packet.st \in 1 .. file.probed
  <2>1. Found("video") # {} /\ Found("audio") # {} BY <1>1, <1>2 DEF MissingStream
  <2>2. Packet.st \in {Index("video"), Index("audio")} BY <1>1 DEF Wanted
  <2>. QED BY <1>2, <2>1, <2>2, FoundAre
<1>4. [Next]_vars /\ UNCHANGED input
  <2>1. [Next]_vars BY DEF Next
  <2>. QED BY <2>1, GivenStays
<1>5. nread + 1 \in Routed(c)'
  <2>1. Packet.st <= file.probed BY <1>3
  <2>. QED BY <1>1, <1>4, <2>1, RoutedNext
<1>6. p.n = nread + 1 /\ p.from = Packet.st /\ p.st = 1 OBVIOUS
<1>7. p.from = file.pkts[p.n].st BY <1>6 DEF Packet
<1>. QED BY <1>1, <1>4, <1>5, <1>6, <1>7 DEF Known, input

LEMMA KnownStep == ASSUME TypeOK, AllKnown, [Next]_vars PROVE AllKnown'
<1>1. SUFFICES ASSUME NEW c \in Outputs, NEW p \in Placed(c)' \union Waiting(c)'
               PROVE  Known(c, p)'
  BY DEF AllKnown
<1>2. CASE NewStreams
  <2>1. pc \in Setup /\ UNCHANGED <<written, packet_buffer>> BY <1>2 DEF NewStreams, Goto, Setup
  <2>2. written'[c] = <<>> /\ packet_buffer'[c] = <<>> BY <2>1 DEF TypeOK, PacketsOK
  <2>. QED BY <2>2 DEF Placed, Waiting, Packets
<1>3. CASE ~NewStreams
  <2>1. streams' = streams
    <3>1. CASE Calm \/ WriteHeader \/ CopyRaw BY <3>1 DEF Calm, WriteHeader, CopyRaw, muxing
    <3>2. CASE Submit BY <3>2, SubmitIs
    <3>3. CASE Writes BY <3>3, WritesIs
    <3>. QED BY <1>3, <3>1, <3>2, <3>3, StepKinds
  <2>2. CASE p \in Placed(c) \union Waiting(c) BY <2>1, <2>2, KnownStays DEF AllKnown
  <2>3. CASE Submit /\ SubC = c /\ p = SubPkt
    <3>1. p \in Handed BY <2>3, SubmitPuts
    <3>. QED BY <2>3, <3>1, SubKnown
  <2>4. CASE /\ CopyRaw /\ Output(Packet.st) = c
             /\ p = [st |-> 1, from |-> Packet.st, n |-> nread + 1, dts |-> Packet.dts]
    BY <2>4, RawKnown
  <2>5. \/ p \in Placed(c) \union Waiting(c)
        \/ Submit /\ SubC = c /\ p = SubPkt
        \/ /\ CopyRaw /\ Output(Packet.st) = c
           /\ p = [st |-> 1, from |-> Packet.st, n |-> nread + 1, dts |-> Packet.dts]
    <3>. DEFINE raw == [st |-> 1, from |-> Packet.st, n |-> nread + 1, dts |-> Packet.dts]
    <3>1. \/ /\ Submit /\ SubC = c
             /\ Placed(c)' \union Waiting(c)' = Placed(c) \union Waiting(c) \union {SubPkt}
          \/ /\ CopyRaw /\ Output(Packet.st) = c /\ Waiting(c)' = Waiting(c)
             /\ Placed(c)' = Placed(c) \union {raw}
          \/ Placed(c)' \union Waiting(c)' \subseteq Placed(c) \union Waiting(c)
      BY SetsStep
    <3>. HIDE DEF raw
    <3>2. \/ p \in Placed(c) \union Waiting(c)
          \/ Submit /\ SubC = c /\ p = SubPkt
          \/ CopyRaw /\ Output(Packet.st) = c /\ p = raw
      BY <3>1
    <3>. QED BY <3>2 DEF raw
  <2>. QED BY <2>2, <2>3, <2>4, <2>5
<1>. QED BY <1>2, <1>3

LEMMA KnownInit == ASSUME Init PROVE AllKnown
<1>1. \A c \in Outputs : written[c] = <<>> /\ packet_buffer[c] = <<>> BY DEF Init
<1>. QED BY <1>1 DEF AllKnown, Placed, Waiting, Packets

\* The stream a known packet is put into was made from the stream it comes
\* from; of demuxer2 if there is one stream of the kind.
LEMMA KnownFrom ==
    ASSUME TypeOK, NEW c \in Outputs, NEW p, Known(c, p), job # "demuxer", pc \notin Setup,
           c = "V" /\ job = "demuxer2" => Cardinality(Found("video")) = 1,
           c = "A" /\ job = "demuxer2" => Cardinality(Found("audio")) = 1
    PROVE  streams[c][p.st] = p.from
<1>1. /\ file \in Files /\ job \in Jobs /\ ~MissingStream /\ streams[c] = StreamsMade(c)
      /\ p.n \in Routed(c) /\ p.from = file.pkts[p.n].st
      /\ p.st \in DOMAIN streams[c] /\ p.st = StreamIndex(p.from)
  BY DEF Known, TypeOK, GivenOK, StreamsOK
<1>2. p.from \in 1 .. file.probed /\ Wanted(p.from) /\ Output(p.from) = c BY <1>1, RoutedIs
<1>3. CASE job = "remuxer"
  <2>1. c = "O" /\ p.st = p.from BY <1>1, <1>2, <1>3 DEF Output, StreamIndex
  <2>. QED BY <1>1, <1>2, <1>3, <2>1 DEF StreamsMade, AllProbed
<1>4. CASE job \in {"pusher", "puller"}
  <2>1. c = "O" /\ p.from = Index("video") BY <1>2, <1>4 DEF Output, Wanted
  <2>2. streams[c] = <<Index("video")>> BY <1>1, <1>4, <2>1 DEF StreamsMade
  <2>3. p.st = 1 BY <1>1, <2>2
  <2>. QED BY <2>1, <2>2, <2>3
<1>5. CASE job = "demuxer2"
  <2>1. ASSUME NEW kind \in Kinds, streams[c] = OfKind(kind), p.from = Index(kind),
               Found(kind) # {}, Cardinality(Found(kind)) = 1
        PROVE  streams[c][p.st] = p.from
    <3>1. Index(kind) \in Found(kind) /\ IsFiniteSet(Found(kind)) BY <1>1, <2>1, FoundAre
    <3>2. PICK x : Found(kind) = {x} BY <2>1, <3>1, FS_Singleton
    <3>3. streams[c][p.st] \in Found(kind) BY <1>1, <2>1, OfKindIs
    <3>. QED BY <2>1, <3>1, <3>2, <3>3
  <2>2. Found("video") # {} /\ Found("audio") # {} BY <1>1, <1>5 DEF MissingStream
  <2>3. p.from \in {Index("video"), Index("audio")} BY <1>2, <1>5 DEF Wanted
  <2>4. c # "O" BY <1>2, <1>5 DEF Output
  <2>5. CASE c = "V"
    <3>1. p.from = Index("video") BY <1>2, <1>5, <2>5 DEF Output
    <3>2. streams[c] = OfKind("video") BY <1>1, <1>5, <2>5 DEF StreamsMade
    <3>. QED BY <1>5, <2>1, <2>2, <2>5, <3>1, <3>2 DEF Kinds
  <2>6. CASE c = "A"
    <3>1. p.from = Index("audio") BY <1>2, <1>5, <2>3, <2>6 DEF Output
    <3>2. streams[c] = OfKind("audio") BY <1>1, <1>5, <2>6 DEF StreamsMade
    <3>. QED BY <1>5, <2>1, <2>2, <2>6, <3>1, <3>2 DEF Kinds
  <2>. QED BY <2>4, <2>5, <2>6 DEF Outputs
<1>. QED BY <1>1, <1>3, <1>4, <1>5 DEF Jobs

LEMMA HeaderOwn ==
    ASSUME TypeOK, HeaderInv, AllKnown
    PROVE  OwnHeader
<1>1. SUFFICES ASSUME job # "demuxer", NEW c \in Outputs, NEW k \in DOMAIN written[c],
                      ~(job = "demuxer2" /\ c = "A" /\ Cardinality(Found("audio")) > 1)
               PROVE  streams[c][written[c][k].st] = written[c][k].from
  BY DEF OwnHeader
<1>2. written[c] # <<>> BY <1>1
<1>3. pc \notin Setup /\ header[c] = "ok" /\ ~Refuses(c)
  BY <1>1, <1>2 DEF TypeOK, PacketsOK, HeaderInv, HeaderSays
<1>4. Known(c, written[c][k])
  <2>1. written[c][k] \in Placed(c) BY DEF Placed, Packets
  <2>. QED BY <2>1 DEF AllKnown
<1>5. streams[c] = StreamsMade(c) /\ ~MissingStream /\ file \in Files
  BY <1>3 DEF TypeOK, StreamsOK, GivenOK
<1>6. ASSUME c = "V", job = "demuxer2" PROVE Cardinality(Found("video")) = 1
  <2>1. fmt[c].single BY <1>6 DEF TypeOK, GivenOK, H264, Raw
  <2>2. Len(streams[c]) = 1 BY <1>3, <2>1 DEF Refuses
  <2>3. streams[c] = OfKind("video") BY <1>5, <1>6 DEF StreamsMade
  <2>4. DOMAIN OfKind("video") = 1 .. Cardinality(Found("video")) /\ Cardinality(Found("video")) \in Nat
        /\ OfKind("video") \in Seq(1 .. file.probed)
    BY <1>5, OfKindIs, FoundAre
  <2>5. Len(OfKind("video")) = Cardinality(Found("video")) BY <2>4
  <2>. QED BY <2>2, <2>3, <2>5
<1>7. ASSUME c = "A", job = "demuxer2" PROVE Cardinality(Found("audio")) = 1
  <2>1. Found("audio") # {} BY <1>5, <1>7 DEF MissingStream
  <2>2. IsFiniteSet(Found("audio")) /\ Cardinality(Found("audio")) \in Nat BY <1>5, FoundAre
  <2>3. Cardinality(Found("audio")) # 0 BY <2>1, <2>2, FS_EmptySet
  <2>. QED BY <1>1, <1>7, <2>2, <2>3
<1>. QED BY <1>1, <1>3, <1>4, <1>6, <1>7, KnownFrom

\* For all files and formats: what an output holds was read from the stream
\* its header describes, unless demuxer2 reads a file with several audio
\* streams.
THEOREM UnderOwnHeader == Spec => []OwnHeader
<1>1. Init => TypeOK /\ HeaderInv /\ AllKnown BY TypeInit, HeaderInit, KnownInit
<1>2. TypeOK /\ HeaderInv /\ AllKnown /\ [Next]_vars => (TypeOK /\ HeaderInv /\ AllKnown)'
  BY TypeStep, PreparedStep, HeaderSaysStep, CrashStep, KnownStep DEF HeaderInv
<1>3. TypeOK /\ HeaderInv /\ AllKnown => OwnHeader BY HeaderOwn
<1>. QED BY <1>1, <1>2, <1>3, PTL DEF Spec

-----------------------------------------------------------------------------
(***************************************************************************)
(* The order of what is written and of what waits.  An order is a set of   *)
(* pairs of packets; a sequence is in it if each of its packets is before  *)
(* those behind it.                                                        *)
(***************************************************************************)
InTurn(s, R)   == \A j, k \in DOMAIN s : j < k => <<s[j], s[k]>> \in R
Ahead(P, Q, R) == \A x \in P, y \in Q : <<x, y>> \in R

Queued(c, R) ==
    /\ InTurn(written[c], R) /\ InTurn(packet_buffer[c], R)
    /\ Ahead(Placed(c), Waiting(c), R)

Pairs == Handed \X Handed
Earlier == {r \in Pairs : r[1].st = r[2].st => r[1].n < r[2].n}
Other   == {r \in Pairs : r[1].n # r[2].n}

\* The packets of a stream are in their order, and no packet is there twice.
Numbered == \A c \in Outputs : Queued(c, Earlier) /\ Queued(c, Other)

\* The last time of a stream is behind all of its packets.
TickBase(c, i) == fmt[c].base[file.streams[streams[c][i]].kind]
Sooner(c) == {r \in Pairs : Ticks(c, r[1]) <= Ticks(c, r[2])}

CurLast ==
    job # "demuxer" =>
        \A c \in Outputs : fmt[c].timed =>
            \A p \in Placed(c) \union Waiting(c) : p.dts <= cur_dts[c][p.st]

\* The pusher and the first demuxer let none wait.  What waits is in the
\* order of time.  What was written while none had to leave is before all that
\* waits or is to come.
WaitsNot == job \in {"pusher", "demuxer"} => \A c \in Outputs : packet_buffer[c] = <<>>

BufferSorted ==
    \A c \in Outputs : job # "demuxer" /\ (fmt[c].timed \/ Steady(c)) =>
                            InTurn(packet_buffer[c], Sooner(c))

Covers(c) == \A p \in Placed(c), i \in DOMAIN streams[c] : Ticks(c, p) <= cur_dts[c][i] * TickBase(c, i)

FileSorted ==
    \A c \in Outputs : job # "demuxer" /\ fmt[c].timed /\ c \notin forced =>
        /\ InTurn(written[c], Sooner(c)) /\ Ahead(Placed(c), Waiting(c), Sooner(c))
        /\ pc \in {"read", "interleave"} => Covers(c)

OrderInv == Numbered /\ CurLast /\ WaitsNot /\ BufferSorted /\ FileSorted

LEMMA TurnAppend ==
    ASSUME NEW R, NEW S, NEW s \in Seq(S), NEW x \in S, InTurn(s, R),
           \A y \in Packets(s) : <<y, x>> \in R
    PROVE  InTurn(Append(s, x), R)
<1>1. /\ DOMAIN s = 1 .. Len(s) /\ Len(s) \in Nat /\ DOMAIN Append(s, x) = 1 .. Len(s) + 1
      /\ \A k \in 1 .. Len(s) : Append(s, x)[k] = s[k]
      /\ Append(s, x)[Len(s) + 1] = x
  OBVIOUS
<1>. DEFINE t == Append(s, x)
            n == Len(s)
<1>2. /\ DOMAIN s = 1 .. n /\ n \in Nat /\ DOMAIN t = 1 .. n + 1
      /\ \A k \in 1 .. n : t[k] = s[k]
      /\ t[n + 1] = x
  BY <1>1
<1>. HIDE DEF t, n
<1>3. ASSUME NEW j \in 1 .. n + 1, NEW k \in 1 .. n + 1, j < k PROVE <<t[j], t[k]>> \in R
  <2>1. j \in 1 .. n /\ t[j] = s[j] BY <1>2, <1>3
  <2>2. CASE k \in 1 .. n BY <1>2, <1>3, <2>1, <2>2 DEF InTurn
  <2>3. CASE k = n + 1
    <3>1. s[j] \in Packets(s) BY <1>2, <2>1 DEF Packets
    <3>. QED BY <1>2, <2>1, <2>3, <3>1
  <2>. QED BY <1>2, <2>2, <2>3
<1>. QED BY <1>2, <1>3 DEF InTurn, t

LEMMA TurnTail ==
    ASSUME NEW R, NEW S, NEW s \in Seq(S), s # <<>>, InTurn(s, R)
    PROVE  InTurn(Tail(s), R) /\ \A y \in Packets(Tail(s)) : <<Head(s), y>> \in R
<1>. DEFINE t == Tail(s)
            n == Len(s)
<1>1. /\ DOMAIN s = 1 .. n /\ n \in Nat \ {0} /\ DOMAIN t = 1 .. n - 1
      /\ \A k \in 1 .. n - 1 : t[k] = s[k + 1]
      /\ Head(s) = s[1]
  OBVIOUS
<1>. HIDE DEF t, n
<1>2. ASSUME NEW j \in 1 .. n - 1, NEW k \in 1 .. n - 1, j < k PROVE <<t[j], t[k]>> \in R
  <2>1. j + 1 \in DOMAIN s /\ k + 1 \in DOMAIN s /\ j + 1 < k + 1 BY <1>1, <1>2
  <2>2. t[j] = s[j + 1] /\ t[k] = s[k + 1] BY <1>1
  <2>. QED BY <2>1, <2>2 DEF InTurn
<1>3. ASSUME NEW k \in 1 .. n - 1 PROVE <<s[1], t[k]>> \in R
  <2>1. 1 \in DOMAIN s /\ k + 1 \in DOMAIN s /\ 1 < k + 1 BY <1>1
  <2>2. t[k] = s[k + 1] BY <1>1
  <2>. QED BY <2>1, <2>2 DEF InTurn
<1>. QED BY <1>1, <1>2, <1>3 DEF InTurn, Packets, t

LEMMA TurnPut ==
    ASSUME NEW R, NEW b \in Seq(Handed), NEW pkt \in Handed, NEW k \in Nat, NEW s,
           PutAt(b, pkt, k, s), InTurn(b, R),
           \A j \in 1 .. k - 1 : <<b[j], pkt>> \in R,
           \A j \in k .. Len(b) : <<pkt, b[j]>> \in R
    PROVE  InTurn(s, R)
<1>. DEFINE n == Len(b)
<1>1. DOMAIN b = 1 .. n /\ n \in Nat OBVIOUS
<1>2. /\ k \in 1 .. n + 1
      /\ DOMAIN s = 1 .. n + 1 /\ s[k] = pkt
      /\ \A j \in 1 .. k - 1 : s[j] = b[j]
      /\ \A j \in k + 1 .. n + 1 : s[j] = b[j - 1]
      /\ \A j \in 1 .. k - 1 : <<b[j], pkt>> \in R
      /\ \A j \in k .. n : <<pkt, b[j]>> \in R
  BY <1>1 DEF PutAt
<1>. HIDE DEF n
<1>3. ASSUME NEW i \in 1 .. n + 1, NEW j \in 1 .. n + 1, i < j PROVE <<s[i], s[j]>> \in R
  <2>1. CASE j < k
    <3>1. s[i] = b[i] /\ s[j] = b[j] /\ i \in 1 .. n /\ j \in 1 .. n BY <1>1, <1>2, <1>3, <2>1
    <3>. QED BY <1>1, <1>3, <3>1 DEF InTurn
  <2>2. CASE j = k
    <3>1. i \in 1 .. k - 1 BY <1>1, <1>2, <1>3, <2>2
    <3>. QED BY <1>2, <2>2, <3>1
  <2>3. CASE j > k /\ i < k
    <3>1. i \in 1 .. k - 1 /\ j \in k + 1 .. n + 1 /\ i \in 1 .. n /\ j - 1 \in 1 .. n /\ i < j - 1
      BY <1>1, <1>2, <2>3
    <3>2. s[i] = b[i] /\ s[j] = b[j - 1] BY <1>2, <3>1
    <3>. QED BY <1>1, <3>1, <3>2 DEF InTurn
  <2>4. CASE j > k /\ i = k
    <3>1. j \in k + 1 .. n + 1 /\ j - 1 \in k .. n BY <1>1, <1>2, <2>4
    <3>2. s[i] = pkt /\ s[j] = b[j - 1] BY <1>2, <2>4, <3>1
    <3>. QED BY <1>2, <3>1, <3>2
  <2>5. CASE j > k /\ i > k
    <3>1. /\ i \in k + 1 .. n + 1 /\ j \in k + 1 .. n + 1 /\ i - 1 \in 1 .. n /\ j - 1 \in 1 .. n
          /\ i - 1 < j - 1
      BY <1>1, <1>2, <1>3, <2>5
    <3>2. s[i] = b[i - 1] /\ s[j] = b[j - 1] BY <1>2, <3>1
    <3>. QED BY <1>1, <3>1, <3>2 DEF InTurn
  <2>. QED BY <1>1, <1>2, <2>1, <2>2, <2>3, <2>4, <2>5
<1>. QED BY <1>2, <1>3 DEF InTurn

\* What a step that writes the first packet that waits keeps of an order.
LEMMA WriteKeeps ==
    ASSUME NEW R, NEW w \in Seq(Handed), NEW b \in Seq(Handed), b # <<>>,
           InTurn(b, R)
    PROVE  /\ InTurn(Tail(b), R)
           /\ Ahead(Packets(w), Packets(b), R) =>
                 /\ Ahead(Packets(w), Packets(Tail(b)), R)
                 /\ Ahead(Packets(Append(w, Head(b))), Packets(Tail(b)), R)
                 /\ InTurn(w, R) => InTurn(Append(w, Head(b)), R)
<1>1. InTurn(Tail(b), R) /\ \A y \in Packets(Tail(b)) : <<Head(b), y>> \in R BY TurnTail
<1>2. Packets(b) = Packets(Tail(b)) \union {Head(b)} BY RangeTail
<1>3. Head(b) \in Handed OBVIOUS
<1>4. Packets(Append(w, Head(b))) = Packets(w) \union {Head(b)} BY <1>3, RangeAppend
<1>5. ASSUME Ahead(Packets(w), Packets(b), R)
      PROVE  /\ Ahead(Packets(w), Packets(Tail(b)), R)
             /\ Ahead(Packets(Append(w, Head(b))), Packets(Tail(b)), R)
             /\ InTurn(w, R) => InTurn(Append(w, Head(b)), R)
  <2>1. Ahead(Packets(w), Packets(Tail(b)), R) BY <1>2, <1>5 DEF Ahead
  <2>2. Ahead(Packets(Append(w, Head(b))), Packets(Tail(b)), R) BY <1>1, <1>4, <2>1 DEF Ahead
  <2>3. \A y \in Packets(w) : <<y, Head(b)>> \in R BY <1>2, <1>5 DEF Ahead
  <2>4. InTurn(w, R) => InTurn(Append(w, Head(b)), R) BY <1>3, <2>3, TurnAppend
  <2>. QED BY <2>1, <2>2, <2>4
<1>. QED BY <1>1, <1>5

LEMMA NumberRelations ==
    ASSUME NEW x \in Handed, NEW y \in Handed
    PROVE  /\ <<x, y>> \in Earlier <=> (x.st = y.st => x.n < y.n)
           /\ <<x, y>> \in Other <=> x.n # y.n
BY DEF Earlier, Other, Pairs

LEMMA OnesAreOlder ==
    ASSUME TypeOK, AllKnown, NEW c \in Outputs, NEW p \in Placed(c) \union Waiting(c)
    PROVE  p \in Handed /\ p.n \in Nat /\ nread \in Nat /\ p.n < nread + 1
<1>1. Known(c, p) BY DEF AllKnown
<1>2. p.n \in 1 .. nread /\ nread \in Nat BY <1>1, RoutedIs DEF Known
<1>. QED BY <1>1, <1>2 DEF Known

LEMMA QueuedStays ==
    ASSUME NEW R, NEW c, written'[c] = written[c], packet_buffer'[c] = packet_buffer[c], Queued(c, R)
    PROVE  Queued(c, R)'
BY DEF Queued, Placed, Waiting

LEMMA QueuedWrite ==
    ASSUME TypeOK, Writes, NEW R, NEW c \in Outputs, Queued(c, R)
    PROVE  Queued(c, R)'
<1>1. CASE c # at
  <2>1. written'[c] = written[c] /\ packet_buffer'[c] = packet_buffer[c] BY <1>1, WritePuts
  <2>. QED BY <2>1, QueuedStays
<1>2. CASE c = at
  <2>. DEFINE w == written[c]
              b == packet_buffer[c]
  <2>1. /\ w \in Seq(Handed) /\ b \in Seq(Handed) /\ b # <<>>
        /\ packet_buffer'[c] = Tail(b)
        /\ written'[c] = Append(w, Head(b)) \/ written'[c] = w
    BY <1>2, WritePuts, WritesIs, WriteTypes DEF WPkt
  <2>2. InTurn(w, R) /\ InTurn(b, R) /\ Ahead(Packets(w), Packets(b), R)
    BY DEF Queued, Placed, Waiting
  <2>. HIDE DEF w, b
  <2>3. /\ InTurn(Tail(b), R)
        /\ Ahead(Packets(w), Packets(Tail(b)), R)
        /\ Ahead(Packets(Append(w, Head(b))), Packets(Tail(b)), R)
        /\ InTurn(Append(w, Head(b)), R)
    BY <2>1, <2>2, WriteKeeps
  <2>4. /\ InTurn(written'[c], R) /\ InTurn(packet_buffer'[c], R)
        /\ Ahead(Packets(written'[c]), Packets(packet_buffer'[c]), R)
    BY <2>1, <2>2, <2>3
  <2>. QED BY <2>4 DEF Queued, Placed, Waiting
<1>. QED BY <1>1, <1>2

\* A packet that is newer than all and is put behind those of its stream.
LEMMA QueuedAppend ==
    ASSUME NEW R, NEW c, NEW p \in Handed, written[c] \in Seq(Handed),
           written'[c] = Append(written[c], p), packet_buffer[c] = <<>>, packet_buffer'[c] = <<>>,
           \A x \in Placed(c) : <<x, p>> \in R, Queued(c, R)
    PROVE  Queued(c, R)'
<1>1. InTurn(written'[c], R) BY TurnAppend DEF Queued, Placed
<1>2. Waiting(c)' = {} /\ InTurn(packet_buffer'[c], R) BY DEF Waiting, Packets, InTurn
<1>. QED BY <1>1, <1>2 DEF Queued, Ahead

LEMMA QueuedPut ==
    ASSUME NEW R, NEW c, NEW p \in Handed, packet_buffer[c] \in Seq(Handed), NEW k \in Nat,
           PutAt(packet_buffer[c], p, k, packet_buffer'[c]), written'[c] = written[c],
           \A x \in Placed(c) \union Waiting(c) : <<x, p>> \in R,
           \A j \in k .. Len(packet_buffer[c]) : <<p, packet_buffer[c][j]>> \in R,
           Queued(c, R)
    PROVE  Queued(c, R)'
<1>. DEFINE b == packet_buffer[c]
            s == packet_buffer'[c]
<1>1. b \in Seq(Handed) /\ PutAt(b, p, k, s) /\ InTurn(b, R) BY DEF Queued
<1>2. \A j \in 1 .. k - 1 : <<b[j], p>> \in R
  <2>1. ASSUME NEW j \in 1 .. k - 1 PROVE <<b[j], p>> \in R
    <3>1. j \in DOMAIN b BY <1>1 DEF PutAt
    <3>2. b[j] \in Waiting(c) BY <3>1 DEF Waiting, Packets
    <3>. QED BY <3>2
  <2>. QED BY <2>1
<1>3. \A j \in k .. Len(b) : <<p, b[j]>> \in R OBVIOUS
<1>. HIDE DEF b, s
<1>4. InTurn(s, R) BY <1>1, <1>2, <1>3, TurnPut
<1>5. Packets(s) = Packets(b) \union {p} BY <1>1, RangePut
<1>6. Waiting(c)' = Waiting(c) \union {p} /\ Placed(c)' = Placed(c)
  BY <1>5 DEF Waiting, Placed, b, s
<1>7. Ahead(Placed(c)', Waiting(c)', R) BY <1>6 DEF Ahead, Queued
<1>. QED BY <1>4, <1>7 DEF Queued, s

LEMMA WaitsNotStep == ASSUME TypeOK, WaitsNot, [Next]_vars PROVE WaitsNot'
<1>1. UNCHANGED input BY GivenStays
<1>2. SUFFICES ASSUME job \in {"pusher", "demuxer"}, NEW c \in Outputs PROVE packet_buffer'[c] = <<>>
  BY <1>1 DEF WaitsNot, input
<1>3. packet_buffer[c] = <<>> /\ \A d \in Outputs : packet_buffer[d] = <<>> BY <1>2 DEF WaitsNot
<1>4. CASE Calm \/ NewStreams \/ WriteHeader \/ CopyRaw
  BY <1>3, <1>4 DEF Calm, NewStreams, WriteHeader, CopyRaw, muxing
<1>5. CASE Submit
  <2>1. job = "pusher" BY <1>2, <1>5, SubmitIs
  <2>. QED BY <1>3, <1>5, <2>1, SubmitIs
<1>6. CASE Writes
  <2>1. packet_buffer[at] # <<>> /\ at \in Outputs BY <1>6, WritesIs, WriteTypes
  <2>. QED BY <1>3, <2>1
<1>. QED BY <1>4, <1>5, <1>6, StepKinds

LEMMA NumberedStep ==
    ASSUME TypeOK, AllKnown, WaitsNot, Numbered, [Next]_vars
    PROVE  Numbered'
<1>1. SUFFICES ASSUME NEW c \in Outputs, NEW R \in {Earlier, Other} PROVE Queued(c, R)'
  <2>1. Earlier' = Earlier /\ Other' = Other BY DEF Earlier, Other, Pairs, Handed
  <2>. QED BY <1>1, <2>1 DEF Numbered
<1>2. Queued(c, R) BY <1>1 DEF Numbered
<1>3. ASSUME NEW p \in Handed, p.n = nread + 1
      PROVE  \A x \in Placed(c) \union Waiting(c) : <<x, p>> \in R
  <2>1. ASSUME NEW x \in Placed(c) \union Waiting(c) PROVE <<x, p>> \in R
    <3>1. x \in Handed /\ x.n < p.n /\ x.n # p.n BY <1>3, OnesAreOlder
    <3>2. <<x, p>> \in Earlier /\ <<x, p>> \in Other BY <3>1, NumberRelations
    <3>. QED BY <3>2
  <2>. QED BY <2>1
<1>4. CASE Calm \/ NewStreams \/ WriteHeader
  <2>1. written' = written /\ packet_buffer' = packet_buffer
    BY <1>4 DEF Calm, NewStreams, WriteHeader
  <2>. QED BY <1>2, <2>1, QueuedStays
<1>5. CASE CopyRaw
  <2>. DEFINE p == [st |-> 1, from |-> Packet.st, n |-> nread + 1, dts |-> Packet.dts]
  <2>1. /\ p \in Handed /\ p.n = nread + 1 /\ job = "demuxer" /\ packet_buffer' = packet_buffer
        /\ c # Output(Packet.st) => written'[c] = written[c]
        /\ c = Output(Packet.st) => written'[c] = Append(written[c], p) /\ written[c] \in Seq(Handed)
    BY <1>5, RawPuts
  <2>. HIDE DEF p
  <2>2. CASE c # Output(Packet.st) BY <1>2, <2>1, <2>2, QueuedStays
  <2>3. CASE c = Output(Packet.st)
    <3>1. packet_buffer[c] = <<>> /\ packet_buffer'[c] = <<>> BY <2>1 DEF WaitsNot
    <3>2. written'[c] = Append(written[c], p) /\ written[c] \in Seq(Handed) BY <2>1, <2>3
    <3>3. \A x \in Placed(c) : <<x, p>> \in R BY <1>3, <2>1
    <3>. QED BY <1>2, <2>1, <3>1, <3>2, <3>3, QueuedAppend
  <2>. QED BY <2>2, <2>3
<1>6. CASE Submit
  <2>1. /\ SubPkt \in Handed /\ SubPkt.n = nread + 1
        /\ packet_buffer[SubC] \in Seq(Handed) /\ written[SubC] \in Seq(Handed)
    BY <1>6, SubmitPuts
  <2>2. CASE c # SubC \/ ~SubOut
    <3>1. written'[c] = written[c] /\ packet_buffer'[c] = packet_buffer[c] BY <1>6, <2>2, SubmitPuts
    <3>. QED BY <1>2, <3>1, QueuedStays
  <2>3. CASE c = SubC /\ SubOut
    <3>1. PICK p \in Handed : p = SubPkt BY <2>1
    <3>2. \A x \in Placed(c) \union Waiting(c) : <<x, p>> \in R BY <1>3, <2>1, <3>1
    <3>3. CASE job = "pusher"
      <4>1. packet_buffer[c] = <<>> /\ packet_buffer' = packet_buffer
            /\ written'[c] = Append(written[c], p) /\ written[c] \in Seq(Handed)
        BY <1>6, <2>1, <2>3, <3>1, <3>3, SubmitPuts DEF WaitsNot
      <4>. QED BY <1>2, <3>2, <4>1, QueuedAppend
    <3>4. CASE job # "pusher"
      <4>1. packet_buffer'[c] = Insert(c, p) /\ written'[c] = written[c]
            /\ packet_buffer[c] \in Seq(Handed)
        BY <1>6, <2>1, <2>3, <3>1, <3>4, SubmitPuts
      <4>2. PICK k \in 1 .. Len(packet_buffer[c]) + 1 : PutAt(packet_buffer[c], p, k, packet_buffer'[c])
        BY <4>1, InsertIs
      <4>3. k \in Nat BY <4>1
      <4>4. ASSUME NEW j \in k .. Len(packet_buffer[c]) PROVE <<p, packet_buffer[c][j]>> \in R
        <5>1. j \in DOMAIN packet_buffer[c] BY <4>1
        <5>2. packet_buffer[c][j] \in Waiting(c) BY <5>1 DEF Waiting, Packets
        <5>3. packet_buffer[c][j] \in Handed /\ packet_buffer[c][j].n < nread + 1
              /\ packet_buffer[c][j].n \in Nat /\ nread \in Nat
          BY <5>2, OnesAreOlder
        <5>4. packet_buffer[c][j].st # p.st BY <4>2 DEF PutAt
        <5>5. p.n # packet_buffer[c][j].n BY <2>1, <3>1, <5>3
        <5>6. <<p, packet_buffer[c][j]>> \in Earlier /\ <<p, packet_buffer[c][j]>> \in Other
          BY <5>3, <5>4, <5>5, NumberRelations
        <5>. QED BY <5>6
      <4>. QED BY <1>2, <3>2, <4>1, <4>2, <4>3, <4>4, QueuedPut
    <3>. QED BY <3>3, <3>4
  <2>. QED BY <2>2, <2>3
<1>7. CASE Writes BY <1>2, <1>7, QueuedWrite
<1>. QED BY <1>4, <1>5, <1>6, <1>7, StepKinds

LEMMA TickIs ==
    ASSUME TypeOK, NEW c \in Outputs, NEW i \in DOMAIN streams[c]
    PROVE  /\ TickBase(c, i) \in Nat \ {0}
           /\ \A p : p.st = i => Ticks(c, p) = p.dts * TickBase(c, i)
           /\ \A p : p.st = i /\ p.dts \in Nat => Ticks(c, p) \in Nat
<1>1. streams[c] \in Seq(1 .. file.probed) /\ file \in Files BY DEF TypeOK, StreamsOK, GivenOK
<1>2. streams[c][i] \in 1 .. file.probed
  <2>. DEFINE s == streams[c]
  <2>1. s \in Seq(1 .. file.probed) /\ i \in DOMAIN s BY <1>1
  <2>. HIDE DEF s
  <2>2. i \in 1 .. Len(s) BY <2>1
  <2>3. s[i] \in 1 .. file.probed BY <2>1, <2>2, ElementOf
  <2>. QED BY <2>3 DEF s
<1>3. streams[c][i] \in 1 .. Len(file.streams) BY <1>1, <1>2, FileIs
<1>4. TickBase(c, i) \in Nat \ {0} BY <1>3, BaseIs DEF TickBase, BaseFor
<1>5. \A p : p.st = i => Ticks(c, p) = p.dts * TickBase(c, i) BY DEF Ticks, TickBase
<1>6. ASSUME NEW p, p.st = i, p.dts \in Nat PROVE Ticks(c, p) \in Nat
  <2>1. p.dts * TickBase(c, i) \in Nat BY <1>4, <1>6, TimesIsNat
  <2>. QED BY <1>5, <1>6, <2>1
<1>. QED BY <1>4, <1>5, <1>6

LEMMA KnownTicks ==
    ASSUME TypeOK, AllKnown, job # "demuxer", NEW c \in Outputs, NEW p \in Placed(c) \union Waiting(c)
    PROVE  /\ p \in Handed /\ p.st \in DOMAIN streams[c] /\ p.dts \in Nat /\ Ticks(c, p) \in Nat
           /\ Ticks(c, p) = p.dts * TickBase(c, p.st) /\ TickBase(c, p.st) \in Nat \ {0}
<1>1. p \in Handed /\ p.st \in DOMAIN streams[c] /\ p.dts \in Nat BY DEF AllKnown, Known
<1>. QED BY <1>1, TickIs

LEMMA SoonerIs ==
    ASSUME NEW c, NEW x \in Handed, NEW y \in Handed
    PROVE  <<x, y>> \in Sooner(c) <=> Ticks(c, x) <= Ticks(c, y)
BY DEF Sooner, Pairs

LEMMA TicksStay ==
    ASSUME UNCHANGED input, streams' = streams
    PROVE  /\ \A c, p : Ticks(c, p)' = Ticks(c, p)
           /\ \A c, i : TickBase(c, i)' = TickBase(c, i)
           /\ \A c : Sooner(c)' = Sooner(c)
<1>1. \A c, p : Ticks(c, p)' = Ticks(c, p) BY DEF Ticks, input
<1>2. \A c, i : TickBase(c, i)' = TickBase(c, i) BY DEF TickBase, input
<1>3. \A c : Sooner(c)' = Sooner(c) BY <1>1 DEF Sooner, Pairs, Handed
<1>. QED BY <1>1, <1>2, <1>3

\* Packets under one number of an output come from one stream.
LEMMA SameStream ==
    ASSUME job \in Jobs, NEW c \in Outputs, NEW a, NEW b,
           Wanted(a), Wanted(b), Output(a) = c, Output(b) = c, StreamIndex(a) = StreamIndex(b)
    PROVE  a = b
<1>1. CASE job = "remuxer" BY <1>1 DEF StreamIndex
<1>2. CASE job \in {"pusher", "puller"} BY <1>2 DEF Wanted
<1>3. CASE job \in {"demuxer", "demuxer2"} BY <1>3 DEF Wanted, Output
<1>. QED BY <1>1, <1>2, <1>3 DEF Jobs

\* A step keeps the input of an output steady at most.
LEMMA SteadyStays ==
    ASSUME TypeOK, [Next]_vars, NEW c \in Outputs, Steady(c)'
    PROVE  Steady(c)
<1>1. UNCHANGED input BY GivenStays
<1>2. \A n \in Routed(c) : n \in Routed(c)'
  <2>1. \A n \in Routed(c) : n \in Nat /\ n <= nread BY RoutedIs
  <2>. QED BY <2>1, RoutedStays
<1>. QED BY <1>1, <1>2 DEF Steady, input

LEMMA SubAfterCur ==
    ASSUME TypeOK, Submit, ~SubBad
    PROVE  cur_dts[SubC][SubI] \in Nat /\ cur_dts[SubC][SubI] <= SubDts
<1>1. SubC \in Outputs /\ SubDts \in Nat /\ SubI \in DOMAIN streams[SubC]
  BY SubmitIs, SubTypes
<1>2. cur_dts[SubC] \in Seq(Nat) /\ DOMAIN cur_dts[SubC] = DOMAIN streams[SubC]
  BY <1>1 DEF TypeOK, StreamsOK
<1>3. cur_dts[SubC][SubI] \in Nat BY <1>1, <1>2
<1>. QED BY <1>1, <1>3 DEF SubBad, Backwards

\* The packet that is handed over is not before those of its stream.
LEMMA OwnBefore ==
    ASSUME TypeOK, AllKnown, CurLast, Submit, SubOut, NEW c \in Outputs, c = SubC,
           fmt[c].timed \/ (Steady(c)' /\ job # "pusher"),
           NEW p \in Placed(c) \union Waiting(c), p.st = SubI
    PROVE  p.dts <= SubDts
<1>1. job # "demuxer" /\ HasNext /\ SubDts \in Nat /\ Wanted(Packet.st) /\ Output(Packet.st) = c
  BY SubmitIs, SubTypes DEF SubC
<1>2. Known(c, p) BY DEF AllKnown
<1>3. CASE fmt[c].timed
  <2>1. ~SubBad BY <1>3 DEF SubOut
  <2>2. p.dts <= cur_dts[c][p.st] BY <1>1, <1>3 DEF CurLast
  <2>3. p.dts \in Nat BY <1>1, <1>2 DEF Known
  <2>. QED BY <1>1, <2>1, <2>2, <2>3, SubAfterCur
<1>4. CASE Steady(c)' /\ job # "pusher"
  <2>1. p.n \in Routed(c) /\ p.from = file.pkts[p.n].st /\ p.st = StreamIndex(p.from)
    BY <1>1, <1>2 DEF Known
  <2>2. p.from = Packet.st
    <3>1. Wanted(p.from) /\ Output(p.from) = c BY <2>1, RoutedIs
    <3>. QED BY <1>1, <2>1, <3>1, SameStream DEF SubI, TypeOK, GivenOK
  <2>3. p.n \in Routed(c)' /\ nread + 1 \in Routed(c)' /\ p.n < nread + 1
    <3>1. [Next]_vars BY DEF Next
    <3>2. p.n \in Nat /\ p.n <= nread /\ nread \in Nat BY <2>1, RoutedIs
    <3>3. p.n \in Routed(c)' BY <2>1, <3>1, <3>2, RoutedStays
    <3>. QED BY <3>2, <3>3, SubKnown
  <2>4. /\ file.pkts[p.n].dts # NoPts /\ Packet.dts # NoPts
        /\ file.pkts[p.n].dts <= Packet.dts
    <3>1. file' = file BY GivenStays DEF Next, input
    <3>2. file.pkts[p.n].st = file.pkts[nread + 1].st BY <2>1, <2>2 DEF Packet
    <3>3. \A n, m \in Routed(c)' : n < m /\ file.pkts[n].st = file.pkts[m].st =>
             file.pkts[n].dts # NoPts /\ file.pkts[m].dts # NoPts
             /\ file.pkts[n].dts <= file.pkts[m].dts
      BY <1>4, <3>1 DEF Steady
    <3>. QED BY <2>3, <3>2, <3>3 DEF Packet
  <2>. DEFINE d == file.pkts[p.n].dts
              e == Packet.dts
              x == file.streams[Packet.st].base
              y == BaseFor(c, Packet.st)
  <2>5. p.n \in 1 .. Len(file.pkts) /\ file \in Files BY <2>1, RoutedIs DEF TypeOK, GivenOK
  <2>6. d \in Nat /\ e \in Nat /\ d <= e
    <3>1. d \in Nat \union {NoPts} BY <2>5, FileIs
    <3>. QED BY <1>1, <2>4, <3>1, PacketIs
  <2>7. Packet.st \in 1 .. Len(file.streams) /\ x \in Nat \ {0} /\ y \in Nat \ {0}
    <3>1. Packet.st \in 1 .. Len(file.streams) BY <1>1, PacketIs
    <3>. QED BY <2>5, <3>1, StreamIs, BaseIs
  <2>8. p.dts = Rescale(d, x, y) BY <1>1, <1>2, <1>4, <2>2, <2>4 DEF Known, Given
  <2>9. SubDts = Rescale(e, x, y)
    <3>1. SubT \in Nat /\ SubT = Rescale(e, x, y)
      <4>1. frame_index \in 0 .. Len(file.made) - 1 BY <1>1, MadeForAll
      <4>2. Packet.dts \in Nat \union {NoPts} /\ Packet.dts # NoPts BY <2>4, <2>6
      <4>. QED BY <1>1, <1>4, <2>7, <4>1, <4>2, StampIs DEF SubT
    <3>. QED BY <3>1, TimesAssumption DEF SubDts
  <2>. HIDE DEF d, e, x, y
  <2>. QED BY <2>6, <2>7, <2>8, <2>9, RescaleIs
<1>. QED BY <1>3, <1>4

LEMMA CurLastStep ==
    ASSUME TypeOK, AllKnown, CurLast, [Next]_vars
    PROVE  CurLast'
<1>1. UNCHANGED input BY GivenStays
<1>2. SUFFICES ASSUME job # "demuxer", NEW c \in Outputs, fmt[c].timed,
                      NEW p \in Placed(c)' \union Waiting(c)'
               PROVE  p.dts <= cur_dts'[c][p.st]
  BY <1>1 DEF CurLast, input
<1>3. p \in Placed(c) \union Waiting(c) => /\ p.dts <= cur_dts[c][p.st] /\ p.dts \in Nat
                                           /\ p.st \in DOMAIN streams[c]
  BY <1>2, KnownTicks DEF CurLast
<1>4. CASE Calm \/ WriteHeader
  <2>1. UNCHANGED <<written, packet_buffer, cur_dts>> BY <1>4 DEF Calm, WriteHeader
  <2>. QED BY <1>3, <2>1 DEF Placed, Waiting
<1>5. CASE NewStreams
  <2>1. pc \in Setup /\ UNCHANGED <<written, packet_buffer>> BY <1>5 DEF NewStreams, Goto, Setup
  <2>2. written'[c] = <<>> /\ packet_buffer'[c] = <<>> BY <2>1 DEF TypeOK, PacketsOK
  <2>. QED BY <2>2 DEF Placed, Waiting, Packets
<1>6. CASE CopyRaw BY <1>2, <1>6, RawPuts
<1>7. CASE Writes
  <2>1. cur_dts' = cur_dts /\ pc # "read" BY <1>7, WritesIs
  <2>2. ~Submit /\ ~CopyRaw BY <2>1, SubmitIs DEF CopyRaw, Goto
  <2>3. p \in Placed(c) \union Waiting(c) BY <2>2, SetsStep
  <2>. QED BY <1>3, <2>1, <2>3
<1>8. CASE Submit
  <2>1. /\ SubC \in Outputs /\ SubI \in DOMAIN streams[SubC] /\ SubDts \in Nat
        /\ SubPkt.dts = SubDts /\ SubPkt.st = SubI /\ pc = "read" /\ job # "demuxer"
        /\ cur_dts' = IF SubBad THEN cur_dts ELSE [cur_dts EXCEPT ![SubC][SubI] = SubDts]
    BY <1>8, SubmitIs, SubTypes DEF SubPkt
  <2>2. cur_dts \in [Outputs -> Seq(Nat)] /\ DOMAIN cur_dts[SubC] = DOMAIN streams[SubC]
    BY <2>1 DEF TypeOK, StreamsOK
  <2>3. ~CopyRaw BY <2>1 DEF CopyRaw
  <2>4. CASE c # SubC
    <3>1. cur_dts'[c] = cur_dts[c] BY <2>1, <2>2, <2>4
    <3>2. p \in Placed(c) \union Waiting(c) BY <2>3, <2>4, SetsStep
    <3>. QED BY <1>3, <3>1, <3>2
  <2>5. CASE c = SubC /\ SubBad
    <3>1. cur_dts' = cur_dts /\ ~SubOut BY <1>2, <2>1, <2>5 DEF SubOut
    <3>2. written' = written /\ packet_buffer' = packet_buffer BY <1>8, <3>1, SubmitPuts
    <3>. QED BY <1>3, <3>1, <3>2 DEF Placed, Waiting
  <2>6. CASE c = SubC /\ ~SubBad
    <3>. DEFINE s == cur_dts[c]
                t == cur_dts'[c]
    <3>1. s \in Seq(Nat) /\ DOMAIN s = DOMAIN streams[c] /\ t = [s EXCEPT ![SubI] = SubDts]
          /\ SubI \in DOMAIN s
      BY <2>1, <2>2, <2>6
    <3>. HIDE DEF s, t
    <3>2. t[SubI] = SubDts /\ \A i \in DOMAIN s : i # SubI => t[i] = s[i] BY <3>1
    <3>3. p \in Placed(c) \union Waiting(c) \/ p = SubPkt BY <2>3, SetsStep
    <3>4. CASE p = SubPkt BY <2>1, <3>2, <3>4 DEF t
    <3>5. CASE p \in Placed(c) \union Waiting(c) /\ p.st # SubI
      BY <1>3, <3>1, <3>2, <3>5 DEF s, t
    <3>6. CASE p \in Placed(c) \union Waiting(c) /\ p.st = SubI
      <4>1. SubOut BY <2>6 DEF SubOut
      <4>2. p.dts <= SubDts BY <1>2, <1>8, <2>6, <3>6, <4>1, OwnBefore
      <4>. QED BY <3>2, <3>6, <4>2 DEF t
    <3>. QED BY <3>3, <3>4, <3>5, <3>6
  <2>. QED BY <2>4, <2>5, <2>6
<1>. QED BY <1>4, <1>5, <1>6, <1>7, <1>8, StepKinds

\* The packet that is inserted is in the order of time with all that wait.
LEMMA SortedPut ==
    ASSUME TypeOK, AllKnown, CurLast, Submit, SubOut, job # "pusher", NEW c \in Outputs, c = SubC,
           fmt[c].timed \/ Steady(c)', InTurn(packet_buffer[c], Sooner(c))
    PROVE  InTurn(packet_buffer'[c], Sooner(c))
<1>. DEFINE b == packet_buffer[c]
            T(p) == Ticks(c, p)
<1>1. /\ SubPkt \in Handed /\ SubPkt.st = SubI /\ SubPkt.dts = SubDts /\ SubDts \in Nat
      /\ b \in Seq(Handed) /\ packet_buffer'[c] = Insert(c, SubPkt) /\ job # "demuxer"
      /\ SubI \in DOMAIN streams[c]
  BY SubmitIs, SubmitPuts, SubTypes
<1>2. PICK pkt \in Handed : pkt = SubPkt BY <1>1
<1>3. /\ pkt.st = SubI /\ pkt.dts = SubDts /\ packet_buffer'[c] = Insert(c, pkt)
      /\ TickBase(c, SubI) \in Nat \ {0} /\ T(pkt) = SubDts * TickBase(c, SubI) /\ T(pkt) \in Nat
  BY <1>1, <1>2, TickIs
<1>4. PICK k \in 1 .. Len(b) + 1 :
         /\ PutAt(b, pkt, k, Insert(c, pkt))
         /\ \A j \in 1 .. k - 1 : ~Behind(c, b[j], pkt) \/ \E i \in j .. k - 1 : b[i].st = pkt.st
         /\ k <= Len(b) => Behind(c, b[k], pkt)
  BY <1>1, InsertIs
<1>5. DOMAIN b = 1 .. Len(b) /\ Len(b) \in Nat /\ k \in Nat BY <1>1
<1>6. \A j \in 1 .. Len(b) : b[j] \in Waiting(c) BY <1>5 DEF Waiting, Packets
<1>7. ASSUME NEW j \in 1 .. Len(b)
      PROVE  /\ b[j] \in Handed /\ T(b[j]) \in Nat /\ b[j].dts \in Nat
             /\ T(b[j]) = b[j].dts * TickBase(c, b[j].st)
  BY <1>1, <1>6, KnownTicks
<1>8. \A i, j \in 1 .. Len(b) : i < j => T(b[i]) <= T(b[j])
  <2>1. ASSUME NEW i \in 1 .. Len(b), NEW j \in 1 .. Len(b), i < j PROVE T(b[i]) <= T(b[j])
    <3>1. <<b[i], b[j]>> \in Sooner(c) BY <1>5, <2>1 DEF InTurn
    <3>. QED BY <1>7, <3>1, SoonerIs
  <2>. QED BY <2>1
<1>9. ASSUME NEW i \in 1 .. Len(b), b[i].st = pkt.st PROVE T(b[i]) <= T(pkt)
  <2>1. b[i].dts <= SubDts
    <3>1. b[i] \in Placed(c) \union Waiting(c) BY <1>6
    <3>. QED BY <1>3, <1>9, <3>1, OwnBefore
  <2>2. b[i].dts * TickBase(c, SubI) <= SubDts * TickBase(c, SubI)
    BY <1>1, <1>3, <1>7, <2>1, TimesKeepsOrder
  <2>. QED BY <1>3, <1>7, <1>9, <2>2
<1>10. ASSUME NEW j \in 1 .. k - 1 PROVE <<b[j], pkt>> \in Sooner(c)
  <2>1. j \in 1 .. Len(b) BY <1>5
  <2>2. T(b[j]) <= T(pkt)
    <3>1. CASE ~Behind(c, b[j], pkt)
      <4>1. ~(T(b[j]) > T(pkt)) BY <3>1 DEF Behind
      <4>2. T(b[j]) \in Nat /\ T(pkt) \in Nat BY <1>3, <1>7, <2>1
      <4>. HIDE DEF T
      <4>. QED BY <4>1, <4>2
    <3>2. CASE \E i \in j .. k - 1 : b[i].st = pkt.st
      <4>1. PICK i \in j .. k - 1 : b[i].st = pkt.st BY <3>2
      <4>2. i \in 1 .. Len(b) /\ (i = j \/ j < i) BY <1>5, <4>1
      <4>3. T(b[i]) <= T(pkt) BY <1>9, <4>1, <4>2
      <4>4. i = j \/ T(b[j]) <= T(b[i]) BY <1>8, <2>1, <4>2
      <4>5. T(b[j]) \in Nat /\ T(b[i]) \in Nat /\ T(pkt) \in Nat BY <1>3, <1>7, <2>1, <4>2
      <4>. HIDE DEF T
      <4>. QED BY <4>3, <4>4, <4>5
    <3>. QED BY <1>4, <3>1, <3>2
  <2>. QED BY <1>7, <2>1, <2>2, SoonerIs
<1>11. ASSUME NEW j \in k .. Len(b) PROVE <<pkt, b[j]>> \in Sooner(c)
  <2>1. j \in 1 .. Len(b) /\ k \in 1 .. Len(b) /\ (k = j \/ k < j) BY <1>5
  <2>2. T(pkt) <= T(b[k])
    <3>1. Behind(c, b[k], pkt) BY <1>4, <2>1
    <3>2. T(b[k]) > T(pkt) \/ T(b[k]) = T(pkt) BY <3>1 DEF Behind
    <3>3. T(b[k]) \in Nat /\ T(pkt) \in Nat BY <1>3, <1>7, <2>1
    <3>. HIDE DEF T
    <3>. QED BY <3>2, <3>3
  <2>3. T(pkt) <= T(b[j])
    <3>1. k = j \/ T(b[k]) <= T(b[j]) BY <1>8, <2>1
    <3>2. T(b[k]) \in Nat /\ T(b[j]) \in Nat /\ T(pkt) \in Nat BY <1>3, <1>7, <2>1
    <3>. HIDE DEF T
    <3>. QED BY <2>2, <3>1, <3>2
  <2>. QED BY <1>7, <2>1, <2>3, SoonerIs
<1>. HIDE DEF b
<1>12. InTurn(Insert(c, pkt), Sooner(c))
  <2>1. b \in Seq(Handed) /\ InTurn(b, Sooner(c)) /\ k \in Nat BY <1>1, <1>5 DEF b
  <2>. QED BY <1>4, <1>10, <1>11, <2>1, TurnPut
<1>. QED BY <1>3, <1>12

LEMMA BufferSortedStep ==
    ASSUME TypeOK, AllKnown, CurLast, BufferSorted, [Next]_vars
    PROVE  BufferSorted'
<1>1. UNCHANGED input BY GivenStays
<1>2. SUFFICES ASSUME NEW c \in Outputs, job # "demuxer", fmt[c].timed \/ Steady(c)'
               PROVE  InTurn(packet_buffer'[c], Sooner(c)')
  BY <1>1 DEF BufferSorted, input
<1>3. fmt[c].timed \/ Steady(c) BY <1>2, SteadyStays
<1>4. InTurn(packet_buffer[c], Sooner(c)) BY <1>2, <1>3 DEF BufferSorted
<1>5. CASE NewStreams
  <2>1. pc \in Setup /\ UNCHANGED packet_buffer BY <1>5 DEF NewStreams, Goto, Setup
  <2>2. packet_buffer'[c] = <<>> BY <2>1 DEF TypeOK, PacketsOK
  <2>. QED BY <2>2 DEF InTurn
<1>6. CASE Calm \/ WriteHeader \/ CopyRaw
  <2>1. streams' = streams /\ packet_buffer' = packet_buffer
    BY <1>6 DEF Calm, WriteHeader, CopyRaw, muxing
  <2>. QED BY <1>1, <1>4, <2>1, TicksStay
<1>7. CASE Submit
  <2>1. streams' = streams BY <1>7, SubmitIs
  <2>2. Sooner(c)' = Sooner(c) BY <1>1, <2>1, TicksStay
  <2>3. CASE c = SubC /\ SubOut /\ job # "pusher"
    <3>1. InTurn(packet_buffer'[c], Sooner(c)) BY <1>2, <1>4, <1>7, <2>3, SortedPut
    <3>. QED BY <2>2, <3>1
  <2>4. CASE ~(c = SubC /\ SubOut /\ job # "pusher")
    <3>1. packet_buffer'[c] = packet_buffer[c] BY <1>7, <2>4, SubmitPuts
    <3>. QED BY <1>4, <2>2, <3>1
  <2>. QED BY <2>3, <2>4
<1>8. CASE Writes
  <2>1. streams' = streams BY <1>8, WritesIs
  <2>2. Sooner(c)' = Sooner(c) BY <1>1, <2>1, TicksStay
  <2>3. CASE c # at
    <3>1. packet_buffer'[c] = packet_buffer[c] BY <1>8, <2>3, WritePuts
    <3>. QED BY <1>4, <2>2, <3>1
  <2>4. CASE c = at
    <3>1. packet_buffer'[c] = Tail(packet_buffer[c]) /\ packet_buffer[c] \in Seq(Handed)
          /\ packet_buffer[c] # <<>>
      BY <1>8, <2>4, WritePuts, WritesIs, WriteTypes
    <3>2. InTurn(Tail(packet_buffer[c]), Sooner(c)) BY <1>4, <3>1, TurnTail
    <3>. QED BY <2>2, <3>1, <3>2
  <2>. QED BY <2>3, <2>4
<1>. QED BY <1>5, <1>6, <1>7, <1>8, StepKinds

\* The last times of the streams only grow.
LEMMA SubGrows ==
    ASSUME TypeOK, Submit, NEW c \in Outputs, NEW i \in DOMAIN streams[c]
    PROVE  /\ cur_dts[c][i] \in Nat /\ cur_dts'[c][i] \in Nat /\ cur_dts[c][i] <= cur_dts'[c][i]
           /\ c = SubC /\ ~SubBad => cur_dts'[SubC][SubI] = SubDts
<1>1. /\ SubC \in Outputs /\ SubI \in DOMAIN streams[SubC] /\ SubDts \in Nat
      /\ cur_dts' = IF SubBad THEN cur_dts ELSE [cur_dts EXCEPT ![SubC][SubI] = SubDts]
  BY SubmitIs, SubTypes
<1>2. /\ cur_dts \in [Outputs -> Seq(Nat)]
      /\ \A d \in Outputs : DOMAIN cur_dts[d] = DOMAIN streams[d]
  BY DEF TypeOK, StreamsOK
<1>3. cur_dts[c] \in Seq(Nat) /\ cur_dts[c][i] \in Nat
  <2>. DEFINE s == cur_dts[c]
  <2>1. s \in Seq(Nat) /\ i \in DOMAIN s BY <1>2
  <2>. HIDE DEF s
  <2>2. s[i] \in Nat BY <2>1
  <2>. QED BY <2>1, <2>2 DEF s
<1>4. CASE SubBad \/ c # SubC
  <2>1. cur_dts'[c] = cur_dts[c] BY <1>1, <1>2, <1>4
  <2>2. ~(c = SubC /\ ~SubBad) BY <1>4
  <2>. QED BY <1>3, <2>1, <2>2
<1>5. CASE ~SubBad /\ c = SubC
  <2>1. cur_dts'[c] = [cur_dts[c] EXCEPT ![SubI] = SubDts] BY <1>1, <1>2, <1>5
  <2>2. cur_dts[c][SubI] <= SubDts BY <1>5, SubAfterCur
  <2>. DEFINE s == cur_dts[c]
              t == cur_dts'[c]
  <2>3. t = [s EXCEPT ![SubI] = SubDts] /\ SubI \in DOMAIN s /\ s[SubI] <= SubDts
        /\ i \in DOMAIN s /\ s[i] \in Nat
    BY <1>1, <1>2, <1>3, <1>5, <2>1, <2>2
  <2>. HIDE DEF s, t
  <2>4. t[SubI] = SubDts /\ (i # SubI => t[i] = s[i]) BY <2>3
  <2>5. s[i] <= t[i] /\ t[i] \in Nat BY <1>1, <2>3, <2>4
  <2>. QED BY <1>5, <2>3, <2>4, <2>5 DEF s, t
<1>. QED BY <1>4, <1>5

LEMMA SubCovers ==
    ASSUME TypeOK, AllKnown, Submit, NEW c \in Outputs, Covers(c),
           NEW p \in Placed(c), NEW i \in DOMAIN streams[c]
    PROVE  /\ Ticks(c, p) <= cur_dts'[c][i] * TickBase(c, i)
           /\ Ticks(c, p) \in Nat /\ cur_dts'[c][i] * TickBase(c, i) \in Nat
<1>1. job # "demuxer" BY SubmitIs
<1>2. Ticks(c, p) \in Nat BY <1>1, KnownTicks
<1>3. TickBase(c, i) \in Nat \ {0} BY TickIs
<1>. DEFINE x == cur_dts[c][i]
            y == cur_dts'[c][i]
            d == TickBase(c, i)
            t == Ticks(c, p)
<1>4. x \in Nat /\ y \in Nat /\ x <= y BY SubGrows
<1>5. t <= x * d /\ t \in Nat /\ d \in Nat BY <1>2, <1>3 DEF Covers
<1>. HIDE DEF x, y, d, t
<1>6. x * d <= y * d /\ x * d \in Nat /\ y * d \in Nat BY <1>4, <1>5, TimesIsNat, TimesKeepsOrder
<1>7. t <= y * d BY <1>5, <1>6
<1>. QED BY <1>5, <1>6, <1>7 DEF x, y, d, t

\* The packet that is handed over is not before any that is written.
LEMMA SubSooner ==
    ASSUME TypeOK, AllKnown, Submit, NEW c \in Outputs, c = SubC, ~SubBad, Covers(c),
           NEW p \in Placed(c)
    PROVE  <<p, SubPkt>> \in Sooner(c)
<1>1. /\ job # "demuxer" /\ SubI \in DOMAIN streams[c] /\ SubPkt \in Handed
      /\ SubPkt.st = SubI /\ SubPkt.dts = SubDts
  BY SubmitIs, SubmitPuts
<1>2. p \in Handed BY <1>1, KnownTicks
<1>3. Ticks(c, p) <= cur_dts'[c][SubI] * TickBase(c, SubI) BY <1>1, SubCovers
<1>4. cur_dts'[c][SubI] = SubDts BY <1>1, SubGrows
<1>5. Ticks(c, SubPkt) = SubDts * TickBase(c, SubI) BY <1>1, TickIs
<1>6. Ticks(c, p) <= Ticks(c, SubPkt) BY <1>3, <1>4, <1>5
<1>. QED BY <1>1, <1>2, <1>6, SoonerIs

LEMMA SubmitSorted ==
    ASSUME TypeOK, AllKnown, WaitsNot, Submit, NEW c \in Outputs, c = SubC, fmt[c].timed,
           InTurn(written[c], Sooner(c)), Ahead(Placed(c), Waiting(c), Sooner(c)), Covers(c)
    PROVE  /\ InTurn(written'[c], Sooner(c)) /\ Ahead(Placed(c)', Waiting(c)', Sooner(c))
           /\ Covers(c)'
<1>1. /\ SubPkt \in Handed /\ written[c] \in Seq(Handed) /\ packet_buffer[c] \in Seq(Handed)
      /\ streams' = streams /\ UNCHANGED input /\ job # "demuxer" /\ SubI \in DOMAIN streams[c]
      /\ SubPkt.st = SubI /\ SubPkt.dts = SubDts /\ SubDts \in Nat
  BY SubmitIs, SubmitPuts, SubTypes
<1>2. SubOut <=> ~SubBad BY DEF SubOut
<1>3. /\ \A p : Ticks(c, p)' = Ticks(c, p) /\ \A i : TickBase(c, i)' = TickBase(c, i)
  BY <1>1, TicksStay
<1>4. ASSUME Placed(c)' = Placed(c) PROVE Covers(c)'
  <2>1. \A p \in Placed(c), i \in DOMAIN streams[c] : Ticks(c, p) <= cur_dts'[c][i] * TickBase(c, i)
    BY SubCovers
  <2>. QED BY <1>1, <1>3, <1>4, <2>1 DEF Covers
<1>5. CASE SubBad
  <2>1. written' = written /\ packet_buffer' = packet_buffer BY <1>2, <1>5, SubmitPuts
  <2>2. Placed(c)' = Placed(c) /\ Waiting(c)' = Waiting(c) BY <2>1 DEF Placed, Waiting
  <2>. QED BY <1>4, <2>1, <2>2
<1>6. CASE ~SubBad /\ job # "pusher"
  <2>1. written' = written /\ packet_buffer'[c] = Insert(c, SubPkt) BY <1>2, <1>6, SubmitPuts
  <2>2. Placed(c)' = Placed(c) BY <2>1 DEF Placed
  <2>3. PICK k : PutAt(packet_buffer[c], SubPkt, k, Insert(c, SubPkt)) BY <1>1, InsertIs
  <2>4. Packets(packet_buffer'[c]) = Packets(packet_buffer[c]) \union {SubPkt}
    <3>1. PICK s : s = packet_buffer'[c] OBVIOUS
    <3>2. PICK p \in Handed : p = SubPkt BY <1>1
    <3>3. PutAt(packet_buffer[c], p, k, s) BY <2>1, <2>3, <3>1, <3>2
    <3>4. Packets(s) = Packets(packet_buffer[c]) \union {p} BY <1>1, <3>3, RangePut
    <3>. QED BY <3>1, <3>2, <3>4
  <2>5. Waiting(c)' = Waiting(c) \union {SubPkt} BY <2>4 DEF Waiting
  <2>6. Ahead(Placed(c)', Waiting(c)', Sooner(c))
    <3>1. \A p \in Placed(c) : <<p, SubPkt>> \in Sooner(c) BY <1>6, SubSooner
    <3>. QED BY <2>2, <2>5, <3>1 DEF Ahead
  <2>. QED BY <1>4, <2>1, <2>2, <2>6
<1>7. CASE ~SubBad /\ job = "pusher"
  <2>1. written'[c] = Append(written[c], SubPkt) /\ packet_buffer' = packet_buffer
    BY <1>2, <1>7, SubmitPuts
  <2>2. packet_buffer[c] = <<>> BY <1>7 DEF WaitsNot
  <2>3. Waiting(c)' = {} BY <2>1, <2>2 DEF Waiting, Packets
  <2>4. \A p \in Placed(c) : <<p, SubPkt>> \in Sooner(c) BY <1>7, SubSooner
  <2>5. InTurn(Append(written[c], SubPkt), Sooner(c)) BY <1>1, <2>4, TurnAppend DEF Placed
  <2>6. Packets(Append(written[c], SubPkt)) = Packets(written[c]) \union {SubPkt}
    BY <1>1, RangeAppend
  <2>7. Placed(c)' = Placed(c) \union {SubPkt} BY <2>1, <2>6 DEF Placed
  <2>8. DOMAIN streams[c] = {SubI}
    <3>1. streams[c] = StreamsMade(c) BY SubmitIs DEF TypeOK, StreamsOK, Setup
    <3>2. c = "O" BY <1>7 DEF SubC, Output
    <3>3. DOMAIN streams[c] = {1} BY <1>7, <3>1, <3>2 DEF StreamsMade
    <3>. QED BY <1>1, <3>3
  <2>9. Ticks(c, SubPkt) = SubDts * TickBase(c, SubI)
        /\ SubDts * TickBase(c, SubI) \in Nat
    <3>1. TickBase(c, SubI) \in Nat BY <1>1, TickIs
    <3>2. SubDts * TickBase(c, SubI) \in Nat BY <1>1, <3>1, TimesIsNat
    <3>. QED BY <1>1, <3>2, TickIs
  <2>10. cur_dts'[c][SubI] = SubDts BY <1>1, <1>7, SubGrows
  <2>11. ASSUME NEW p \in Placed(c) \union {SubPkt}, NEW i \in DOMAIN streams[c]
         PROVE  Ticks(c, p) <= cur_dts'[c][i] * TickBase(c, i)
    <3>1. CASE p \in Placed(c) BY <3>1, SubCovers
    <3>2. CASE p = SubPkt
      <4>1. i = SubI BY <2>8
      <4>2. Ticks(c, p) = cur_dts'[c][i] * TickBase(c, i) BY <2>9, <2>10, <3>2, <4>1
      <4>3. Ticks(c, p) \in Nat BY <2>9, <3>2
      <4>. QED BY <4>2, <4>3
    <3>. QED BY <3>1, <3>2
  <2>12. Covers(c)' BY <1>1, <1>3, <2>7, <2>11 DEF Covers
  <2>. QED BY <2>1, <2>3, <2>5, <2>12 DEF Ahead
<1>. QED BY <1>5, <1>6, <1>7

\* If every stream has a packet that waits, the first is not behind the last
\* time of any.
LEMMA FirstCovered ==
    ASSUME TypeOK, AllKnown, CurLast, job # "demuxer", NEW c \in Outputs, fmt[c].timed,
           packet_buffer[c] # <<>>, InTurn(packet_buffer[c], Sooner(c)), AllWait(c),
           NEW i \in DOMAIN streams[c]
    PROVE  Ticks(c, Head(packet_buffer[c])) <= cur_dts[c][i] * TickBase(c, i)
<1>1. packet_buffer[c] \in Seq(Handed) BY DEF TypeOK, PacketsOK
<1>. DEFINE b == packet_buffer[c]
<1>2. /\ b \in Seq(Handed) /\ DOMAIN b = 1 .. Len(b) /\ Len(b) \in Nat \ {0} /\ Head(b) = b[1]
  BY <1>1
<1>3. PICK k \in DOMAIN b : b[k].st = i BY DEF AllWait
<1>4. \A j \in DOMAIN b : b[j] \in Waiting(c) BY DEF Waiting, Packets
<1>5. \A j \in DOMAIN b : b[j] \in Handed /\ Ticks(c, b[j]) \in Nat /\ b[j].dts \in Nat
                          /\ Ticks(c, b[j]) = b[j].dts * TickBase(c, b[j].st)
  BY <1>4, KnownTicks
<1>6. Ticks(c, b[1]) <= Ticks(c, b[k])
  <2>1. 1 \in DOMAIN b /\ (k = 1 \/ 1 < k) BY <1>2, <1>3
  <2>2. k # 1 => <<b[1], b[k]>> \in Sooner(c) BY <1>3, <2>1 DEF InTurn
  <2>3. k # 1 => Ticks(c, b[1]) <= Ticks(c, b[k]) BY <1>3, <1>5, <2>1, <2>2, SoonerIs
  <2>4. k = 1 => Ticks(c, b[1]) <= Ticks(c, b[k])
    <3>1. Ticks(c, b[1]) \in Nat BY <1>5, <2>1
    <3>. QED BY <3>1
  <2>. QED BY <2>3, <2>4
<1>7. b[k].dts <= cur_dts[c][i] BY <1>3, <1>4 DEF CurLast
<1>. DEFINE x == b[k].dts
            y == cur_dts[c][i]
            d == TickBase(c, i)
            t == Ticks(c, b[1])
            u == Ticks(c, b[k])
<1>8. x \in Nat /\ y \in Nat /\ d \in Nat /\ x <= y /\ u = x * d /\ t <= u /\ t \in Nat /\ u \in Nat
  <2>1. y \in Nat
    <3>. DEFINE s == cur_dts[c]
    <3>1. s \in Seq(Nat) /\ i \in DOMAIN s BY DEF TypeOK, StreamsOK
    <3>. HIDE DEF s
    <3>2. s[i] \in Nat BY <3>1
    <3>. QED BY <3>2 DEF s
  <2>2. d \in Nat BY TickIs
  <2>3. 1 \in DOMAIN b BY <1>2
  <2>. QED BY <1>3, <1>5, <1>6, <1>7, <2>1, <2>2, <2>3
<1>. HIDE DEF x, y, d, t, u
<1>9. x * d <= y * d /\ y * d \in Nat BY <1>8, TimesKeepsOrder, TimesIsNat
<1>10. t <= y * d BY <1>8, <1>9
<1>. QED BY <1>2, <1>10 DEF t, y, d
LEMMA FileSortedStep ==
    ASSUME TypeOK, AllKnown, CurLast, WaitsNot, BufferSorted, FileSorted, [Next]_vars
    PROVE  FileSorted'
<1>1. UNCHANGED input BY GivenStays
<1>. DEFINE Sorted(c) == /\ InTurn(written[c], Sooner(c)) /\ Ahead(Placed(c), Waiting(c), Sooner(c))
                         /\ pc \in {"read", "interleave"} => Covers(c)
<1>2. SUFFICES ASSUME job # "demuxer", NEW c \in Outputs, fmt[c].timed, c \notin forced'
               PROVE  Sorted(c)'
  BY <1>1 DEF FileSorted, input
<1>3. ASSUME c \notin forced PROVE Sorted(c) BY <1>2, <1>3 DEF FileSorted
<1>4. CASE NewStreams \/ WriteHeader
  <2>1. pc \in Setup \union {"header"} /\ UNCHANGED <<written, packet_buffer>>
    BY <1>4 DEF NewStreams, WriteHeader, Goto, Setup
  <2>2. written'[c] = <<>> /\ packet_buffer'[c] = <<>> BY <2>1 DEF TypeOK, PacketsOK
  <2>. QED BY <2>2 DEF InTurn, Ahead, Covers, Placed, Waiting, Packets
<1>5. ASSUME streams' = streams, cur_dts'[c] = cur_dts[c], Placed(c)' = Placed(c), Covers(c)
      PROVE  Covers(c)'
  <2>1. /\ \A p : Ticks(c, p)' = Ticks(c, p) /\ \A i : TickBase(c, i)' = TickBase(c, i)
    BY <1>1, <1>5, TicksStay
  <2>. QED BY <1>5, <2>1 DEF Covers
<1>6. ASSUME streams' = streams, cur_dts'[c] = cur_dts[c], written'[c] = written[c],
             packet_buffer'[c] = packet_buffer[c], forced' = forced,
             pc' \in {"read", "interleave"} => pc \in {"read", "interleave"}
      PROVE  Sorted(c)'
  <2>1. Sooner(c)' = Sooner(c) BY <1>1, <1>6, TicksStay
  <2>2. Placed(c)' = Placed(c) /\ Waiting(c)' = Waiting(c) BY <1>6 DEF Placed, Waiting
  <2>3. Sorted(c) BY <1>2, <1>3, <1>6
  <2>. QED BY <1>5, <1>6, <2>1, <2>2, <2>3
<1>7. CASE Calm
  <2>1. /\ streams' = streams /\ cur_dts' = cur_dts /\ written' = written
        /\ packet_buffer' = packet_buffer /\ forced' = forced
        /\ pc' \in {"read", "interleave"} => pc' = pc \/ Wait
    BY <1>7 DEF Calm
  <2>2. Wait => pc = "interleave" BY DEF Wait, Goto
  <2>. QED BY <1>6, <2>1, <2>2
<1>8. CASE CopyRaw BY <1>2, <1>8, RawPuts
<1>9. CASE Submit
  <2>1. /\ streams' = streams /\ forced' = forced /\ pc = "read" /\ SubC \in Outputs
        /\ cur_dts' = IF SubBad THEN cur_dts ELSE [cur_dts EXCEPT ![SubC][SubI] = SubDts]
    BY <1>9, SubmitIs, SubmitPuts
  <2>2. CASE c # SubC
    <3>1. cur_dts'[c] = cur_dts[c]
      <4>1. cur_dts \in [Outputs -> Seq(Nat)] BY DEF TypeOK, StreamsOK
      <4>. QED BY <2>1, <2>2, <4>1
    <3>2. written'[c] = written[c] /\ packet_buffer'[c] = packet_buffer[c]
      BY <1>9, <2>2, SubmitPuts
    <3>. QED BY <1>6, <2>1, <3>1, <3>2
  <2>3. CASE c = SubC
    <3>1. Sorted(c) BY <1>2, <1>3, <2>1
    <3>2. /\ InTurn(written'[c], Sooner(c)) /\ Ahead(Placed(c)', Waiting(c)', Sooner(c))
          /\ Covers(c)'
      BY <1>2, <1>9, <2>1, <2>3, <3>1, SubmitSorted
    <3>3. Sooner(c)' = Sooner(c) BY <1>1, <2>1, TicksStay
    <3>. QED BY <3>2, <3>3
  <2>. QED BY <2>2, <2>3
<1>10. CASE Writes
  <2>1. /\ streams' = streams /\ cur_dts' = cur_dts /\ pc \in {"interleave", "trailer"}
        /\ pc = "trailer" => pc' \in {"trailer", "closing"}
        /\ forced' = IF pc = "trailer" \/ AllWait(at) THEN forced ELSE forced \union {at}
    BY <1>10, WritesIs
  <2>2. Sooner(c)' = Sooner(c) BY <1>1, <2>1, TicksStay
  <2>3. Sorted(c) BY <1>2, <1>3, <2>1
  <2>4. InTurn(packet_buffer[c], Sooner(c)) BY <1>2 DEF BufferSorted
  <2>5. InTurn(written'[c], Sooner(c)') /\ Ahead(Placed(c)', Waiting(c)', Sooner(c)')
    <3>1. PICK R : R = Sooner(c) OBVIOUS
    <3>2. Queued(c, R) BY <2>3, <2>4, <3>1 DEF Queued
    <3>3. Queued(c, R)' BY <1>10, <3>2, QueuedWrite
    <3>4. InTurn(written'[c], R) /\ Ahead(Placed(c)', Waiting(c)', R) BY <3>3 DEF Queued
    <3>. QED BY <2>2, <3>1, <3>4
  <2>6. ASSUME pc' \in {"read", "interleave"} PROVE Covers(c)'
    <3>1. pc = "interleave" /\ Covers(c) BY <2>1, <2>3, <2>6
    <3>2. CASE written'[c] = written[c]
      <4>1. Placed(c)' = Placed(c) BY <3>2 DEF Placed
      <4>. QED BY <1>5, <2>1, <3>1, <4>1
    <3>3. CASE written'[c] # written[c]
      <4>1. /\ c = at /\ written'[c] = Append(written[c], WPkt) /\ written[c] \in Seq(Handed)
        BY <1>10, <3>3, WritePuts
      <4>2. WPkt \in Handed /\ packet_buffer[c] # <<>> BY <1>10, <4>1, WritesIs, WriteTypes
      <4>3. AllWait(c) BY <1>2, <2>1, <3>1, <4>1
      <4>4. \A i \in DOMAIN streams[c] : Ticks(c, WPkt) <= cur_dts[c][i] * TickBase(c, i)
        BY <1>2, <2>4, <4>1, <4>2, <4>3, FirstCovered DEF WPkt
      <4>5. Placed(c)' = Placed(c) \union {WPkt} BY <4>1, <4>2, RangeAppend DEF Placed
      <4>6. /\ \A p : Ticks(c, p)' = Ticks(c, p) /\ \A i : TickBase(c, i)' = TickBase(c, i)
        BY <1>1, <2>1, TicksStay
      <4>. QED BY <2>1, <3>1, <4>4, <4>5, <4>6 DEF Covers
    <3>. QED BY <3>2, <3>3
  <2>. QED BY <2>5, <2>6
<1>. QED BY <1>4, <1>7, <1>8, <1>9, <1>10, StepKinds

LEMMA OrderInit == ASSUME Init PROVE OrderInv
<1>1. /\ \A c \in Outputs : written[c] = <<>> /\ packet_buffer[c] = <<>>
      /\ pc = "open"
  BY DEF Init
<1>. QED BY <1>1 DEF OrderInv, Numbered, Queued, CurLast, WaitsNot, BufferSorted, FileSorted,
             InTurn, Ahead, Placed, Waiting, Packets

LEMMA OrderStep ==
    ASSUME TypeOK, AllKnown, OrderInv, [Next]_vars
    PROVE  OrderInv'
BY NumberedStep, CurLastStep, WaitsNotStep, BufferSortedStep, FileSortedStep DEF OrderInv

LEMMA OrderImplies ==
    ASSUME TypeOK, AllKnown, OrderInv
    PROVE  InOrder
<1>1. SUFFICES ASSUME NEW c \in Outputs, NEW j \in DOMAIN written[c], NEW k \in DOMAIN written[c],
                      j < k
               PROVE  /\ written[c][j].st = written[c][k].st => written[c][j].n < written[c][k].n
                      /\ job # "demuxer" /\ fmt[c].timed /\ c \notin forced =>
                            Ticks(c, written[c][j]) <= Ticks(c, written[c][k])
  BY DEF InOrder
<1>2. written[c][j] \in Placed(c) /\ written[c][k] \in Placed(c) BY DEF Placed, Packets
<1>3. written[c][j] \in Handed /\ written[c][k] \in Handed BY <1>2, OnesAreOlder
<1>4. <<written[c][j], written[c][k]>> \in Earlier
  BY <1>1 DEF OrderInv, Numbered, Queued, InTurn
<1>5. written[c][j].st = written[c][k].st => written[c][j].n < written[c][k].n
  BY <1>3, <1>4, NumberRelations
<1>6. ASSUME job # "demuxer", fmt[c].timed, c \notin forced
      PROVE  Ticks(c, written[c][j]) <= Ticks(c, written[c][k])
  <2>1. <<written[c][j], written[c][k]>> \in Sooner(c)
    BY <1>1, <1>6 DEF OrderInv, FileSorted, InTurn
  <2>. QED BY <1>3, <2>1, SoonerIs
<1>. QED BY <1>5, <1>6

\* For all files and formats: the packets of a stream are written in the
\* order they were read, and in a format that needs times all packets are
\* written in the order of time, unless one had to leave the buffer while a
\* stream had none there.
THEOREM CopiesInOrder == Spec => []InOrder
<1>1. Init => TypeOK /\ AllKnown /\ OrderInv BY TypeInit, KnownInit, OrderInit
<1>2. TypeOK /\ AllKnown /\ OrderInv /\ [Next]_vars => (TypeOK /\ AllKnown /\ OrderInv)'
  BY TypeStep, KnownStep, OrderStep
<1>3. TypeOK /\ AllKnown /\ OrderInv => InOrder BY OrderImplies
<1>. QED BY <1>1, <1>2, <1>3, PTL DEF Spec

-----------------------------------------------------------------------------
(***************************************************************************)
(* How much waits.  An output is settled when it is not its turn to be     *)
(* served: its buffer was found not to be due when it was served last.     *)
(***************************************************************************)
Bounded(c) ==
    /\ ~AllWait(c)
    /\ \A j, k \in DOMAIN packet_buffer[c] :
          Ticks(c, packet_buffer[c][j]) - Ticks(c, packet_buffer[c][k]) <= MaxDelta

Settled(c) == pc = "read" \/ (pc = "interleave" /\ c # at)

BoundInv ==
    job # "demuxer" =>
    \A c \in Outputs :
        Settled(c) /\ packet_buffer[c] # <<>> /\ header[c] # "refused" /\ (fmt[c].timed \/ Steady(c)) =>
            Bounded(c)

\* If what waits is in the order of time, the last packets of the streams
\* tell how far all are apart.
LEMMA SpanIs ==
    ASSUME TypeOK, AllKnown, job # "demuxer", NEW c \in Outputs, packet_buffer[c] # <<>>,
           InTurn(packet_buffer[c], Sooner(c)), ~TooFar(c),
           NEW j \in DOMAIN packet_buffer[c], NEW k \in DOMAIN packet_buffer[c]
    PROVE  Ticks(c, packet_buffer[c][j]) - Ticks(c, packet_buffer[c][k]) <= MaxDelta
<1>. DEFINE b == packet_buffer[c]
            T(i) == Ticks(c, b[i])
            own == {i \in DOMAIN b : b[i].st = b[j].st}
            l == Greatest(own)
<1>1. b \in Seq(Handed) /\ DOMAIN b = 1 .. Len(b) /\ Len(b) \in Nat /\ 1 \in DOMAIN b
  <2>1. b \in Seq(Handed) BY DEF TypeOK, PacketsOK
  <2>. QED BY <2>1
<1>2. ASSUME NEW i \in DOMAIN b PROVE b[i] \in Handed /\ T(i) \in Nat
  <2>1. b[i] \in Waiting(c) BY DEF Waiting, Packets
  <2>. QED BY <2>1, KnownTicks
<1>3. ASSUME NEW i \in DOMAIN b, NEW m \in DOMAIN b, i <= m PROVE T(i) <= T(m)
  <2>1. CASE i = m BY <1>2, <2>1
  <2>2. CASE i < m
    <3>1. <<b[i], b[m]>> \in Sooner(c) BY <2>2 DEF InTurn
    <3>. QED BY <1>2, <3>1, SoonerIs
  <2>. QED BY <1>1, <1>3, <2>1, <2>2
<1>4. l \in own /\ \A i \in own : i <= l
  <2>1. own \in SUBSET (0 .. Len(b)) /\ own # {} BY <1>1
  <2>2. Greatest(own) \in own /\ \A i \in own : Greatest(own) >= i
    BY <1>1, <2>1, GreatestIs
  <2>3. \A i \in own : i \in Nat /\ l \in Nat BY <1>1, <2>2
  <2>. HIDE DEF own
  <2>. QED BY <2>2, <2>3
<1>. HIDE DEF l
<1>5. l \in DOMAIN b /\ j <= l /\ l \in LastOnes(b)
  <2>1. l \in DOMAIN b /\ b[l].st = b[j].st /\ j \in own BY <1>4
  <2>2. \A i \in DOMAIN b : b[i].st = b[l].st => i <= l BY <1>4, <2>1
  <2>. QED BY <1>4, <2>1, <2>2 DEF LastOnes
<1>6. ~(T(l) - T(1) > MaxDelta) BY <1>5 DEF TooFar
<1>7. T(j) <= T(l) /\ T(1) <= T(k)
  <2>1. 1 <= k BY <1>1
  <2>. QED BY <1>1, <1>3, <1>5, <2>1
<1>8. T(j) \in Nat /\ T(l) \in Nat /\ T(1) \in Nat /\ T(k) \in Nat /\ MaxDelta \in Nat
  BY <1>1, <1>2, <1>5, TimesAssumption
<1>9. T(j) - T(k) <= MaxDelta
  <2>. HIDE DEF T
  <2>. QED BY <1>6, <1>7, <1>8
<1>. QED BY <1>9

LEMMA BoundStep ==
    ASSUME TypeOK, AllKnown, WaitsNot, BufferSorted, BoundInv, [Next]_vars
    PROVE  BoundInv'
<1>1. UNCHANGED input BY GivenStays
<1>2. SUFFICES ASSUME job # "demuxer", NEW c \in Outputs, Settled(c)', packet_buffer'[c] # <<>>,
                      header'[c] # "refused", fmt[c].timed \/ Steady(c)'
               PROVE  Bounded(c)'
  BY <1>1 DEF BoundInv, input
<1>3. fmt[c].timed \/ Steady(c) BY <1>2, SteadyStays
<1>4. ASSUME streams' = streams, packet_buffer'[c] = packet_buffer[c], Bounded(c) PROVE Bounded(c)'
  <2>1. \A p : Ticks(c, p)' = Ticks(c, p) BY <1>1, <1>4, TicksStay
  <2>2. AllWait(c)' <=> AllWait(c) BY <1>4 DEF AllWait
  <2>. QED BY <1>4, <2>1, <2>2 DEF Bounded
<1>5. ASSUME streams' = streams, packet_buffer'[c] = packet_buffer[c], header'[c] = header[c],
             Settled(c)
      PROVE  Bounded(c)'
  <2>1. Bounded(c) BY <1>2, <1>3, <1>5 DEF BoundInv
  <2>. QED BY <1>4, <1>5, <2>1
<1>6. CASE NewStreams \/ WriteHeader
  <2>1. pc \in Setup \union {"header"} /\ UNCHANGED packet_buffer
    BY <1>6 DEF NewStreams, WriteHeader, Goto, Setup
  <2>. QED BY <1>2, <2>1 DEF TypeOK, PacketsOK
<1>7. CASE Calm
  <2>1. /\ streams' = streams /\ packet_buffer' = packet_buffer /\ header' = header
        /\ pc' \in {"read", "interleave"} => (pc' = pc /\ at' = at) \/ Wait
    BY <1>7 DEF Calm
  <2>2. CASE pc' = pc /\ at' = at
    <3>1. Settled(c) BY <1>2, <2>2 DEF Settled
    <3>. QED BY <1>5, <2>1, <3>1
  <2>3. CASE Wait
    <3>1. pc = "interleave" /\ at' = at /\ ~Leaves(at) BY <2>3 DEF Wait, Goto, muxing
    <3>2. CASE c # at
      <4>1. Settled(c) BY <3>1, <3>2 DEF Settled
      <4>. QED BY <1>5, <2>1, <4>1
    <3>3. CASE c = at
      <4>1. ~AllWait(c) /\ ~TooFar(c) BY <1>2, <2>1, <3>1, <3>3 DEF Leaves
      <4>2. InTurn(packet_buffer[c], Sooner(c)) /\ packet_buffer[c] # <<>>
        BY <1>2, <1>3, <2>1 DEF BufferSorted
      <4>3. \A j, k \in DOMAIN packet_buffer[c] :
               Ticks(c, packet_buffer[c][j]) - Ticks(c, packet_buffer[c][k]) <= MaxDelta
        BY <1>2, <4>1, <4>2, SpanIs
      <4>4. Bounded(c) BY <4>1, <4>3 DEF Bounded
      <4>. QED BY <1>4, <2>1, <4>4
    <3>. QED BY <3>2, <3>3
  <2>4. pc' \in {"read", "interleave"} BY <1>2 DEF Settled
  <2>. QED BY <2>1, <2>2, <2>3, <2>4
<1>8. CASE CopyRaw BY <1>2, <1>8, RawPuts
<1>9. CASE Submit
  <2>1. /\ streams' = streams /\ header' = header /\ pc = "read" /\ at' = SubC
        /\ pc' = IF SubOut /\ job # "pusher" THEN "interleave" ELSE "read"
    BY <1>9, SubmitIs
  <2>2. Settled(c) BY <2>1 DEF Settled
  <2>3. packet_buffer'[c] = packet_buffer[c]
    <3>1. c # SubC \/ ~SubOut \/ job = "pusher" BY <1>2, <2>1 DEF Settled
    <3>. QED BY <1>9, <3>1, SubmitPuts
  <2>. QED BY <1>5, <2>1, <2>2, <2>3
<1>10. CASE Writes
  <2>1. /\ streams' = streams /\ pc \in {"interleave", "trailer"} /\ at' = at /\ Leaves(at)
        /\ pc' = IF WHdr = "ok" THEN pc ELSE IF pc = "interleave" THEN "read" ELSE "closing"
    BY <1>10, WritesIs
  <2>2. WHdr \in {"ok", "refused"} BY <2>1, WriteTypes
  <2>3. CASE c # at
    <3>1. Settled(c) BY <1>2, <2>1, <2>3 DEF Settled
    <3>2. packet_buffer'[c] = packet_buffer[c] /\ header'[c] = header[c] BY <1>10, <2>3, WritePuts
    <3>. QED BY <1>5, <2>1, <3>1, <3>2
  <2>4. CASE c = at
    <3>1. header'[c] = WHdr BY <1>10, <2>4, WritePuts
    <3>2. WHdr = "refused" BY <1>2, <2>1, <2>2, <2>4 DEF Settled
    <3>. QED BY <1>2, <3>1, <3>2
  <2>. QED BY <2>3, <2>4
<1>. QED BY <1>6, <1>7, <1>8, <1>9, <1>10, StepKinds

LEMMA BoundImplies ==
    ASSUME TypeOK, WaitsNot, BoundInv
    PROVE  BufferBounded
<1>1. SUFFICES ASSUME pc = "read", NEW c \in Outputs, packet_buffer[c] # <<>>,
                      header[c] # "refused", fmt[c].timed \/ Steady(c)
               PROVE  Bounded(c)
  BY DEF BufferBounded, Bounded
<1>2. job # "demuxer" BY <1>1 DEF WaitsNot
<1>3. Settled(c) BY <1>1 DEF Settled
<1>. QED BY <1>1, <1>2, <1>3 DEF BoundInv

\* For all files and formats and every max_interleave_delta: whenever the
\* next packet is read, the packets that wait for an output span no more than
\* max_interleave_delta and some stream has none, as long as the header is
\* not refused.
THEOREM WaitsAreBounded == Spec => []BufferBounded
<1>1. Init => TypeOK /\ AllKnown /\ OrderInv /\ BoundInv
  <2>1. Init => BoundInv BY DEF Init, BoundInv
  <2>. QED BY <2>1, TypeInit, KnownInit, OrderInit
<1>2. TypeOK /\ AllKnown /\ OrderInv /\ BoundInv /\ [Next]_vars
         => (TypeOK /\ AllKnown /\ OrderInv /\ BoundInv)'
  BY TypeStep, KnownStep, OrderStep, BoundStep DEF OrderInv
<1>3. TypeOK /\ OrderInv /\ BoundInv => BufferBounded BY BoundImplies DEF OrderInv
<1>. QED BY <1>1, <1>2, <1>3, PTL DEF Spec

-----------------------------------------------------------------------------
(***************************************************************************)
(* Nothing is lost and nothing doubled.  Every packet sent to an output    *)
(* that can be reached is in it, waits for it, or was overtaken; and when  *)
(* the job ends, none waits.                                               *)
(***************************************************************************)
All(c) == Placed(c) \union Waiting(c)

\* The pusher counts what it hands over.
Counted == job = "pusher" => frame_index = Cardinality(Routed("O"))

\* The time that would be made up is later than the last of the stream, and a
\* packet with the last time is still there.
MadeUp == \A c \in Outputs : \A i \in DOMAIN streams[c] :
              cur_dts[c][i] # 0 => priv_pts[c][i] = cur_dts[c][i] + 1

LastIsThere ==
    job # "demuxer" =>
    \A c \in Outputs : ~Unreached(c) /\ fmt[c].timed =>
        \A i \in DOMAIN streams[c] :
            cur_dts[c][i] # 0 => \E p \in All(c) : p.st = i /\ p.dts = cur_dts[c][i]

ReadyIs == \A c \in Outputs : /\ c \in ready => streams[c] # <<>>
                              /\ packet_buffer[c] # <<>> => c \in ready

\* What Overtaken says, of a packet that may still wait.
Turn(c, n) == Cardinality({m \in Routed(c) : m < n})

Passed(c, n) ==
    /\ fmt[c].timed
    /\ LET t == Stamp(file.pkts[n], Turn(c, n))
       IN  /\ t # NoPts
           /\ \E p \in All(c) : /\ p.from = file.pkts[n].st /\ p.n < n
                                /\ p.dts > t \/ (fmt[c].strict /\ p.dts = t)

Kept ==
    \A c \in Outputs : ~Unreached(c) =>
        \A n \in Routed(c) : (\E p \in All(c) : p.n = n) \/ Passed(c, n)

\* Of the trailers, that of V comes before that of A.
Drained(c) == ~Unreached(c) => packet_buffer[c] = <<>>

Ending ==
    /\ pc \in {"trailer", "closing", "done"} /\ job # "demuxer" =>
          /\ job = "demuxer2" <=> at # "O"
          /\ at = "A" => Drained("V")
    /\ pc = "closing" => Drained(at)
    /\ pc = "done" /\ job # "demuxer" => at # "V" /\ Drained(at)

OnceInv == Counted /\ MadeUp /\ LastIsThere /\ ReadyIs /\ Kept /\ Ending

LEMMA UnreachedStays ==
    ASSUME UNCHANGED input
    PROVE  \A c : Unreached(c)' <=> Unreached(c)
<1>1. \A kind : Found(kind)' = Found(kind) BY DEF Found, input
<1>2. \A kind : Index(kind)' = Index(kind) BY <1>1 DEF Index, input
<1>. QED BY <1>1, <1>2 DEF Unreached, input

LEMMA StreamsAre ==
    ASSUME TypeOK, pc \notin Setup, NEW c \in Outputs
    PROVE  /\ ~MissingStream /\ streams[c] = StreamsMade(c) /\ job \in Jobs /\ file \in Files
           /\ job = "remuxer" => /\ c = "O" => streams[c] = AllProbed /\ Len(streams[c]) = file.probed
                                 /\ c # "O" => streams[c] = <<>>
           /\ job \in {"pusher", "puller"} =>
                 /\ c = "O" => streams[c] = <<Index("video")>> /\ Len(streams[c]) = 1
                 /\ c # "O" => streams[c] = <<>>
           /\ job = "demuxer2" =>
                 /\ c = "V" => Len(streams[c]) = Cardinality(Found("video"))
                 /\ c = "A" => Len(streams[c]) = Cardinality(Found("audio"))
                 /\ c = "O" => streams[c] = <<>>
                 /\ Cardinality(Found("video")) \in Nat \ {0}
                 /\ Cardinality(Found("audio")) \in Nat \ {0}
<1>1. ~MissingStream /\ streams[c] = StreamsMade(c) /\ job \in Jobs /\ file \in Files
  BY DEF TypeOK, StreamsOK, GivenOK
<1>2. ASSUME job = "remuxer"
      PROVE  /\ c = "O" => streams[c] = AllProbed /\ Len(streams[c]) = file.probed
             /\ c # "O" => streams[c] = <<>>
  <2>1. file.probed \in Nat BY <1>1, FoundAre
  <2>2. Len(AllProbed) = file.probed
    <3>1. AllProbed \in [1 .. file.probed -> 1 .. file.probed] BY DEF AllProbed
    <3>. QED BY <2>1, <3>1
  <2>. QED BY <1>1, <1>2, <2>2 DEF StreamsMade
<1>3. ASSUME job \in {"pusher", "puller"}
      PROVE  /\ c = "O" => streams[c] = <<Index("video")>> /\ Len(streams[c]) = 1
             /\ c # "O" => streams[c] = <<>>
  <2>1. CASE c = "O"
    <3>1. streams[c] = <<Index("video")>> BY <1>1, <1>3, <2>1 DEF StreamsMade
    <3>2. Len(<<Index("video")>>) = 1 OBVIOUS
    <3>. QED BY <2>1, <3>1, <3>2
  <2>2. CASE c # "O" BY <1>1, <1>3, <2>2 DEF StreamsMade
  <2>. QED BY <2>1, <2>2
<1>4. ASSUME job = "demuxer2"
      PROVE  /\ c = "V" => Len(streams[c]) = Cardinality(Found("video"))
             /\ c = "A" => Len(streams[c]) = Cardinality(Found("audio"))
             /\ c = "O" => streams[c] = <<>>
             /\ Cardinality(Found("video")) \in Nat \ {0}
             /\ Cardinality(Found("audio")) \in Nat \ {0}
  <2>1. ASSUME NEW kind PROVE Len(OfKind(kind)) = Cardinality(Found(kind))
    <3>1. OfKind(kind) \in Seq(1 .. file.probed) BY <1>1, OfKindIs
    <3>2. DOMAIN OfKind(kind) = 1 .. Cardinality(Found(kind)) /\ Cardinality(Found(kind)) \in Nat
      BY <1>1, OfKindIs, FoundAre
    <3>. QED BY <3>1, <3>2
  <2>2. Found("video") # {} /\ Found("audio") # {} BY <1>1, <1>4 DEF MissingStream
  <2>3. \A kind : IsFiniteSet(Found(kind)) /\ Cardinality(Found(kind)) \in Nat BY <1>1, FoundAre
  <2>4. Cardinality(Found("video")) # 0 /\ Cardinality(Found("audio")) # 0
    BY <2>2, <2>3, FS_EmptySet
  <2>5. c = "V" => streams[c] = OfKind("video") BY <1>1, <1>4 DEF StreamsMade
  <2>6. c = "A" => streams[c] = OfKind("audio") BY <1>1, <1>4 DEF StreamsMade
  <2>7. c = "O" => streams[c] = <<>> BY <1>1, <1>4 DEF StreamsMade
  <2>. QED BY <2>1, <2>3, <2>4, <2>5, <2>6, <2>7
<1>. QED BY <1>1, <1>2, <1>3, <1>4

\* What a header refuses of an output that can be reached, and where nothing
\* is written.
LEMMA ReachedAccepts ==
    ASSUME TypeOK, pc \notin Setup, NEW c \in Outputs, streams[c] # <<>>, fmt[c].deferred, ~Unreached(c)
    PROVE  ~Refuses(c)
<1>1. \A i \in DOMAIN streams[c] : streams[c][i] \in 1 .. file.probed
  <2>. DEFINE s == streams[c]
  <2>1. s \in Seq(1 .. file.probed) BY DEF TypeOK, StreamsOK
  <2>. HIDE DEF s
  <2>2. DOMAIN s = 1 .. Len(s) BY <2>1
  <2>3. \A i \in DOMAIN s : s[i] \in 1 .. file.probed BY <2>1, <2>2, ElementOf
  <2>. QED BY <2>3 DEF s
<1>2. job \in Jobs /\ file \in Files BY StreamsAre
<1>3. fmt \in [Outputs -> Format] /\ fmt["V"] = H264 /\ fmt["A"] = Adts
      /\ (job # "remuxer" => fmt["O"] = Flv)
  BY DEF TypeOK, GivenOK
<1>4. ~Flv.deferred /\ ~Adts.deferred BY FormatsAssumption DEF Adts, Raw
<1>5. CASE c = "O"
  <2>1. job = "remuxer" BY <1>3, <1>4, <1>5
  <2>2. Len(streams[c]) = file.probed /\ file.probed \in Nat \ {0}
    BY <1>2, <1>5, <2>1, StreamsAre, FileIs
  <2>3. ~(fmt[c].single /\ file.probed > 1)
        /\ \A i \in 1 .. file.probed : file.streams[i].kind \in fmt[c].kinds
    BY <2>1 DEF Unreached
  <2>. QED BY <1>1, <2>2, <2>3 DEF Refuses
<1>6. CASE c = "V"
  <2>1. job = "demuxer2"
    <3>1. job \notin {"remuxer", "pusher", "puller"} BY <1>6, StreamsAre
    <3>2. job # "demuxer"
      <4>1. job = "demuxer" => StreamsMade(c) = <<>> BY DEF StreamsMade
      <4>. QED BY <4>1, StreamsAre
    <3>. QED BY <1>2, <3>1, <3>2 DEF Jobs
  <2>2. Len(streams[c]) = 1
    <3>1. Len(streams[c]) = Cardinality(Found("video")) /\ Cardinality(Found("video")) \in Nat \ {0}
      BY <1>6, <2>1, StreamsAre
    <3>2. ~(Cardinality(Found("video")) > 1) BY <1>6, <2>1 DEF Unreached
    <3>. QED BY <3>1, <3>2
  <2>3. \A i \in 1 .. file.probed : file.streams[i].kind \in fmt[c].kinds
    <3>1. fmt[c].kinds = Kinds BY <1>3, <1>6 DEF H264, Raw
    <3>2. \A i \in 1 .. file.probed : i \in 1 .. Len(file.streams) BY <1>2, FileIs
    <3>. QED BY <1>2, <3>1, <3>2, StreamIs
  <2>. QED BY <1>1, <2>2, <2>3 DEF Refuses
<1>7. CASE c = "A" BY <1>3, <1>4, <1>7
<1>. QED BY <1>5, <1>6, <1>7 DEF Outputs

LEMMA ReachedWrites ==
    ASSUME TypeOK, HeaderSays, ReadyIs, Writes, ~Unreached(at)
    PROVE  WHdr = "ok"
<1>1. /\ at \in Outputs /\ packet_buffer[at] # <<>> /\ WHdr \in {"ok", "refused"} /\ pc \notin Setup
  BY WritesIs, WriteTypes DEF Setup
<1>2. at \in ready /\ streams[at] # <<>> BY <1>1 DEF ReadyIs
<1>3. CASE ~fmt[at].deferred
  <2>1. header[at] = "ok" BY <1>1, <1>2, <1>3 DEF HeaderSays
  <2>. QED BY <2>1 DEF WHdr
<1>4. CASE fmt[at].deferred
  <2>1. ~Refuses(at) BY <1>1, <1>2, <1>4, ReachedAccepts
  <2>2. header[at] # "refused" BY <1>1, <1>2, <2>1 DEF HeaderSays
  <2>. QED BY <1>1, <2>1, <2>2 DEF WHdr, TypeOK, StreamsOK
<1>. QED BY <1>3, <1>4

LEMMA NothingUnreached ==
    ASSUME TypeOK, HeaderSays, AllKnown, job # "demuxer", pc \notin Setup,
           NEW c \in Outputs, Unreached(c)
    PROVE  written[c] = <<>>
<1>1. SUFFICES ASSUME written[c] # <<>> PROVE FALSE OBVIOUS
<1>2. written[c] \in Seq(Handed) BY DEF TypeOK, PacketsOK
<1>3. PICK p \in Placed(c) : TRUE
  <2>1. 1 \in DOMAIN written[c] BY <1>1, <1>2
  <2>. QED BY <2>1 DEF Placed, Packets
<1>4. Known(c, p) BY DEF AllKnown
<1>5. header[c] = "ok" /\ ~Refuses(c) BY <1>1 DEF HeaderSays
<1>6. p.st \in DOMAIN streams[c] /\ p.st = StreamIndex(p.from) BY <1>4 DEF Known
<1>7. Wanted(p.from) /\ Output(p.from) = c BY <1>4, RoutedIs DEF Known
<1>8. file \in Files /\ file.probed \in Nat \ {0} BY StreamsAre, FileIs
<1>9. CASE job = "pusher" /\ Index("video") # 1
  <2>1. p.st = Index("video") /\ c = "O" BY <1>6, <1>7, <1>9 DEF Wanted, Output, StreamIndex
  <2>2. streams[c] = <<Index("video")>> BY <1>9, <2>1, StreamsAre
  <2>3. p.st = 1 BY <1>6, <2>2
  <2>. QED BY <1>9, <2>1, <2>3
<1>10. CASE job = "demuxer2" /\ c = "V" /\ Cardinality(Found("video")) > 1
  <2>1. fmt[c].single BY <1>10 DEF TypeOK, GivenOK, H264, Raw
  <2>2. Len(streams[c]) = 1 BY <1>5, <2>1 DEF Refuses
  <2>3. Len(streams[c]) = Cardinality(Found("video")) BY <1>10, StreamsAre
  <2>4. Cardinality(Found("video")) = 1 BY <2>2, <2>3
  <2>. QED BY <1>10, <2>4
<1>11. CASE /\ job = "remuxer"
            /\ \/ fmt[c].single /\ file.probed > 1
               \/ \E i \in 1 .. file.probed : file.streams[i].kind \notin fmt[c].kinds
  <2>1. c = "O" BY <1>7, <1>11 DEF Output
  <2>2. streams[c] = AllProbed /\ Len(streams[c]) = file.probed BY <1>11, <2>1, StreamsAre
  <2>3. \A i \in 1 .. file.probed : i \in DOMAIN streams[c] /\ streams[c][i] = i
    BY <2>2 DEF AllProbed
  <2>4. fmt[c].single => file.probed = 1 BY <1>5, <2>2 DEF Refuses
  <2>5. \A i \in 1 .. file.probed : file.streams[i].kind \in fmt[c].kinds
    BY <1>5, <2>3 DEF Refuses
  <2>. QED BY <1>11, <2>4, <2>5
<1>. QED BY <1>9, <1>10, <1>11 DEF Unreached

\* What is read, and what that does to the outputs.
LEMMA ReadKinds ==
    ASSUME [Next]_vars
    PROVE  \/ nread' = nread /\ frame_index' = frame_index
           \/ Skip \/ InvalidIndex \/ CopyRaw \/ Submit
BY DEF Next, OpenFails, NullContext, NotFound, NewStreams, WriteHeader, LateStream, NoPrivPts,
   Interleave, Trailer, WriteOne, Wait, EndOfInput, TrailerEnds, Close, vars

LEMMA RoutedFinite ==
    ASSUME TypeOK, NEW c \in Outputs, NEW n
    PROVE  /\ IsFiniteSet(Routed(c)) /\ Cardinality(Routed(c)) \in Nat
           /\ Turn(c, n) \in Nat
<1>1. Routed(c) \in SUBSET (1 .. nread) /\ nread \in Nat BY RoutedIs
<1>2. IsFiniteSet(1 .. nread) BY <1>1, FS_Interval
<1>3. IsFiniteSet(Routed(c)) BY <1>1, <1>2, FS_Subset
<1>4. {m \in Routed(c) : m < n} \in SUBSET Routed(c) OBVIOUS
<1>5. IsFiniteSet({m \in Routed(c) : m < n}) BY <1>3, <1>4, FS_Subset
<1>. QED BY <1>3, <1>5, FS_CardinalityType DEF Turn

\* check_packet turns nothing away that could have been taken.
LEMMA InvalidIs ==
    ASSUME TypeOK, InvalidIndex, NEW c \in Outputs, nread + 1 \in Routed(c)'
    PROVE  Unreached(c)
<1>1. /\ pc = "read" /\ HasNext /\ job # "demuxer" /\ nread' = nread + 1
      /\ ~(job = "remuxer" /\ Packet.st > file.probed)
      /\ StreamIndex(Packet.st) > Len(streams[Output(Packet.st)])
  BY DEF InvalidIndex, Goto
<1>2. [Next]_vars BY DEF Next
<1>3. Wanted(Packet.st) /\ Packet.st <= file.probed /\ Output(Packet.st) = c
  BY <1>1, <1>2, RoutedNext
<1>4. pc \notin Setup /\ job \in Jobs /\ file \in Files BY <1>1, StreamsAre DEF Setup
<1>5. CASE job = "remuxer"
  <2>1. c = "O" /\ StreamIndex(Packet.st) = Packet.st BY <1>3, <1>5 DEF Output, StreamIndex
  <2>2. Len(streams[c]) = file.probed BY <1>4, <1>5, <2>1, StreamsAre
  <2>. QED BY <1>1, <1>3, <1>5, <2>1, <2>2
<1>6. CASE job \in {"pusher", "puller"}
  <2>1. c = "O" /\ Packet.st = Index("video") BY <1>3, <1>6 DEF Output, Wanted
  <2>2. Len(streams[c]) = 1 BY <1>4, <1>6, <2>1, StreamsAre
  <2>3. StreamIndex(Packet.st) # 1 BY <1>1, <1>3, <2>2
  <2>4. job = "pusher" /\ Index("video") # 1 BY <1>6, <2>1, <2>3 DEF StreamIndex
  <2>. QED BY <2>4 DEF Unreached
<1>7. CASE job = "demuxer2"
  <2>1. c \in {"V", "A"} /\ StreamIndex(Packet.st) = 1 BY <1>3, <1>7 DEF Output, StreamIndex
  <2>2. Len(streams[c]) \in Nat \ {0} BY <1>4, <1>7, <2>1, StreamsAre
  <2>. QED BY <1>1, <1>3, <2>1, <2>2
<1>. QED BY <1>1, <1>4, <1>5, <1>6, <1>7 DEF Jobs

LEMMA CountedStep == ASSUME TypeOK, Counted, [Next]_vars PROVE Counted'
<1>1. UNCHANGED input BY GivenStays
<1>2. SUFFICES ASSUME job = "pusher" PROVE frame_index' = Cardinality(Routed("O")')
  BY <1>1 DEF Counted, input
<1>3. "O" \in Outputs /\ frame_index = Cardinality(Routed("O")) BY <1>2 DEF Counted, Outputs
<1>4. ASSUME HasNext, Wanted(Packet.st), nread' = nread + 1, frame_index' = frame_index + 1,
             pc \notin Setup
      PROVE  frame_index' = Cardinality(Routed("O")')
  <2>1. Packet.st <= file.probed /\ Output(Packet.st) = "O"
    <3>1. Packet.st = Index("video") /\ Found("video") # {} /\ file \in Files
      BY <1>2, <1>3, <1>4, StreamsAre DEF Wanted, MissingStream
    <3>2. Index("video") \in 1 .. file.probed BY <3>1, FoundAre
    <3>. QED BY <1>2, <3>1, <3>2 DEF Output
  <2>2. Routed("O")' = Routed("O") \union {nread + 1} /\ nread + 1 \notin Routed("O")
    BY <1>3, <1>4, <2>1, RoutedNext
  <2>3. Cardinality(Routed("O") \union {nread + 1}) = Cardinality(Routed("O")) + 1
    BY <1>3, <2>2, RoutedFinite, FS_AddElement
  <2>. QED BY <1>3, <1>4, <2>2, <2>3
<1>5. CASE nread' = nread /\ frame_index' = frame_index
  <2>1. Routed("O")' = Routed("O") BY <1>3, <1>5, RoutedStays
  <2>. QED BY <1>3, <1>5, <2>1
<1>6. CASE Skip
  <2>1. HasNext /\ ~Wanted(Packet.st) /\ nread' = nread + 1 /\ frame_index' = frame_index
    BY <1>6 DEF Skip
  <2>2. Routed("O")' = Routed("O") BY <1>3, <2>1, RoutedNext
  <2>. QED BY <1>3, <2>1, <2>2
<1>7. CASE InvalidIndex
  <2>1. pc \notin Setup /\ HasNext /\ Wanted(Packet.st) /\ nread' = nread + 1
        /\ frame_index' = frame_index + 1
    BY <1>2, <1>7 DEF InvalidIndex, Goto, Setup
  <2>. QED BY <1>4, <2>1
<1>8. CASE CopyRaw BY <1>2, <1>8, RawPuts
<1>9. CASE Submit
  <2>1. pc \notin Setup /\ HasNext /\ Wanted(Packet.st) /\ nread' = nread + 1
        /\ frame_index' = frame_index + 1
    BY <1>2, <1>9, SubmitIs DEF Setup
  <2>. QED BY <1>4, <2>1
<1>. QED BY <1>5, <1>6, <1>7, <1>8, <1>9, ReadKinds

\* The times of a stream change only when a packet of it is handed over.
LEMMA SubSets ==
    ASSUME TypeOK, Submit, NEW c \in Outputs, NEW i \in DOMAIN streams[c]
    PROVE  IF c = SubC /\ i = SubI /\ ~SubBad
           THEN cur_dts'[c][i] = SubDts /\ priv_pts'[c][i] = SubDts + 1
           ELSE cur_dts'[c][i] = cur_dts[c][i] /\ priv_pts'[c][i] = priv_pts[c][i]
<1>1. /\ SubC \in Outputs /\ SubI \in DOMAIN streams[SubC] /\ SubDts \in Nat
      /\ cur_dts' = IF SubBad THEN cur_dts ELSE [cur_dts EXCEPT ![SubC][SubI] = SubDts]
      /\ priv_pts' = IF SubBad THEN priv_pts ELSE [priv_pts EXCEPT ![SubC][SubI] = SubDts + 1]
  BY SubmitIs, SubTypes
<1>2. /\ cur_dts \in [Outputs -> Seq(Nat)] /\ priv_pts \in [Outputs -> Seq(Nat)]
      /\ DOMAIN cur_dts[c] = DOMAIN streams[c] /\ DOMAIN priv_pts[c] = DOMAIN streams[c]
  BY DEF TypeOK, StreamsOK
<1>3. CASE SubBad \/ c # SubC
  <2>1. cur_dts'[c] = cur_dts[c] /\ priv_pts'[c] = priv_pts[c] BY <1>1, <1>2, <1>3
  <2>. QED BY <1>3, <2>1
<1>4. CASE ~SubBad /\ c = SubC
  <2>1. cur_dts'[c] = [cur_dts[c] EXCEPT ![SubI] = SubDts]
        /\ priv_pts'[c] = [priv_pts[c] EXCEPT ![SubI] = SubDts + 1]
    BY <1>1, <1>2, <1>4
  <2>2. ASSUME NEW s \in Seq(Nat), NEW v, DOMAIN s = DOMAIN streams[c]
        PROVE  [s EXCEPT ![SubI] = v][i] = IF i = SubI THEN v ELSE s[i]
    BY <2>2
  <2>3. cur_dts[c] \in Seq(Nat) /\ priv_pts[c] \in Seq(Nat) BY <1>2
  <2>4. cur_dts'[c][i] = IF i = SubI THEN SubDts ELSE cur_dts[c][i] BY <1>2, <2>1, <2>2, <2>3
  <2>5. priv_pts'[c][i] = IF i = SubI THEN SubDts + 1 ELSE priv_pts[c][i]
    BY <1>2, <2>1, <2>2, <2>3
  <2>. QED BY <1>4, <2>4, <2>5
<1>. QED BY <1>3, <1>4

\* Only Submit and NewStreams change them.
LEMMA TimesStay ==
    ASSUME [Next]_vars
    PROVE  NewStreams \/ Submit \/ (UNCHANGED <<cur_dts, priv_pts, streams>>)
<1>1. CASE Calm \/ WriteHeader \/ CopyRaw BY <1>1 DEF Calm, WriteHeader, CopyRaw, muxing
<1>2. CASE Writes BY <1>2, WritesIs
<1>. QED BY <1>1, <1>2, StepKinds

LEMMA NewTimes ==
    ASSUME NewStreams, NEW c \in Outputs, NEW i \in DOMAIN streams'[c]
    PROVE  cur_dts'[c][i] = 0
BY DEF NewStreams

LEMMA MadeUpStep == ASSUME TypeOK, MadeUp, [Next]_vars PROVE MadeUp'
<1>1. SUFFICES ASSUME NEW c \in Outputs, NEW i \in DOMAIN streams'[c], cur_dts'[c][i] # 0
               PROVE  priv_pts'[c][i] = cur_dts'[c][i] + 1
  BY DEF MadeUp
<1>2. CASE NewStreams BY <1>1, <1>2, NewTimes
<1>3. CASE Submit
  <2>1. i \in DOMAIN streams[c] BY <1>3, SubmitIs
  <2>. QED BY <1>1, <1>3, <2>1, SubSets DEF MadeUp
<1>4. CASE UNCHANGED <<cur_dts, priv_pts, streams>> BY <1>1, <1>4 DEF MadeUp
<1>. QED BY <1>2, <1>3, <1>4, TimesStay

LEMMA ReadyStep == ASSUME TypeOK, ReadyIs, [Next]_vars PROVE ReadyIs'
<1>1. SUFFICES ASSUME NEW c \in Outputs
               PROVE  /\ c \in ready' => streams'[c] # <<>>
                      /\ packet_buffer'[c] # <<>> => c \in ready'
  BY DEF ReadyIs
<1>2. CASE Calm \/ CopyRaw BY <1>2 DEF Calm, CopyRaw, muxing, ReadyIs
<1>3. CASE NewStreams
  <2>1. pc \in Setup /\ UNCHANGED <<ready, packet_buffer>> BY <1>3 DEF NewStreams, Goto, Setup
  <2>. QED BY <2>1 DEF TypeOK, PacketsOK
<1>4. CASE WriteHeader
  <2>1. pc = "header" /\ UNCHANGED <<streams, packet_buffer>>
        /\ ready' = {d \in Outputs : streams[d] # <<>> /\ header'[d] # "refused"}
    BY <1>4 DEF WriteHeader, Goto
  <2>. QED BY <2>1 DEF TypeOK, PacketsOK
<1>5. CASE Submit
  <2>1. UNCHANGED <<streams, ready>> /\ SubC \in ready BY <1>5, SubmitIs
  <2>2. c # SubC => packet_buffer'[c] = packet_buffer[c] BY <1>5, SubmitPuts
  <2>. QED BY <2>1, <2>2 DEF ReadyIs
<1>6. CASE Writes
  <2>1. UNCHANGED <<streams, ready>> /\ packet_buffer[at] # <<>> BY <1>6, WritesIs, WriteTypes
  <2>2. c # at => packet_buffer'[c] = packet_buffer[c] BY <1>6, WritePuts
  <2>. QED BY <2>1, <2>2 DEF ReadyIs
<1>. QED BY <1>2, <1>3, <1>4, <1>5, <1>6, StepKinds

\* What is there stays there, and what is handed over is there unless it is
\* turned away.
LEMMA SubAll ==
    ASSUME TypeOK, Submit, NEW c \in Outputs
    PROVE  All(c)' = IF c = SubC /\ SubOut THEN All(c) \union {SubPkt} ELSE All(c)
<1>1. /\ SubPkt \in Handed /\ packet_buffer[SubC] \in Seq(Handed) /\ written[SubC] \in Seq(Handed)
  BY SubmitPuts
<1>2. CASE ~(c = SubC /\ SubOut)
  <2>1. written'[c] = written[c] /\ packet_buffer'[c] = packet_buffer[c] BY <1>2, SubmitPuts
  <2>. QED BY <1>2, <2>1 DEF All, Placed, Waiting
<1>3. CASE c = SubC /\ SubOut /\ job = "pusher"
  <2>1. written'[c] = Append(written[c], SubPkt) /\ packet_buffer'[c] = packet_buffer[c]
    BY <1>3, SubmitPuts
  <2>2. Packets(Append(written[c], SubPkt)) = Packets(written[c]) \union {SubPkt}
    BY <1>1, <1>3, RangeAppend
  <2>. QED BY <1>3, <2>1, <2>2 DEF All, Placed, Waiting
<1>4. CASE c = SubC /\ SubOut /\ job # "pusher"
  <2>1. written'[c] = written[c] /\ packet_buffer'[c] = Insert(c, SubPkt) BY <1>4, SubmitPuts
  <2>2. PICK p \in Handed : p = SubPkt BY <1>1
  <2>3. PICK s : s = Insert(c, SubPkt) /\ packet_buffer[c] \in Seq(Handed) BY <1>1, <1>4
  <2>4. PICK k : PutAt(packet_buffer[c], p, k, s) BY <2>2, <2>3, InsertIs
  <2>5. Packets(s) = Packets(packet_buffer[c]) \union {p} BY <2>3, <2>4, RangePut
  <2>6. Packets(packet_buffer'[c]) = Packets(packet_buffer[c]) \union {SubPkt}
    BY <2>1, <2>2, <2>3, <2>5
  <2>. QED BY <1>4, <2>1, <2>6 DEF All, Placed, Waiting
<1>. QED BY <1>2, <1>3, <1>4

LEMMA AllGrows ==
    ASSUME TypeOK, HeaderSays, ReadyIs, [Next]_vars, NEW c \in Outputs, ~Unreached(c)
    PROVE  \A p \in All(c) : p \in All(c)'
<1>1. CASE Calm \/ NewStreams \/ WriteHeader
  <2>1. written' = written /\ packet_buffer' = packet_buffer
    BY <1>1 DEF Calm, NewStreams, WriteHeader
  <2>. QED BY <2>1 DEF All, Placed, Waiting
<1>2. CASE CopyRaw
  <2>. DEFINE pkt == [st |-> 1, from |-> Packet.st, n |-> nread + 1, dts |-> Packet.dts]
  <2>1. /\ pkt \in Handed /\ packet_buffer' = packet_buffer
        /\ c # Output(Packet.st) => written'[c] = written[c]
        /\ c = Output(Packet.st) => written'[c] = Append(written[c], pkt) /\ written[c] \in Seq(Handed)
    BY <1>2, RawPuts
  <2>. HIDE DEF pkt
  <2>2. CASE c # Output(Packet.st) BY <2>1, <2>2 DEF All, Placed, Waiting
  <2>3. CASE c = Output(Packet.st)
    <3>1. Packets(Append(written[c], pkt)) = Packets(written[c]) \union {pkt}
      BY <2>1, <2>3, RangeAppend
    <3>. QED BY <2>1, <2>3, <3>1 DEF All, Placed, Waiting
  <2>. QED BY <2>2, <2>3
<1>3. CASE Submit BY <1>3, SubAll
<1>4. CASE Writes
  <2>1. CASE c # at
    <3>1. written'[c] = written[c] /\ packet_buffer'[c] = packet_buffer[c] BY <1>4, <2>1, WritePuts
    <3>. QED BY <3>1 DEF All, Placed, Waiting
  <2>2. CASE c = at
    <3>1. WHdr = "ok" BY <1>4, <2>2, ReachedWrites
    <3>2. /\ packet_buffer'[c] = Tail(packet_buffer[c]) /\ written[c] \in Seq(Handed)
          /\ written'[c] = Append(written[c], WPkt)
      BY <1>4, <2>2, <3>1, WritePuts
    <3>3. packet_buffer[c] \in Seq(Handed) /\ packet_buffer[c] # <<>> /\ WPkt \in Handed
          /\ WPkt = Head(packet_buffer[c])
      BY <1>4, <2>2, WritesIs, WriteTypes DEF WPkt
    <3>4. Packets(packet_buffer[c]) = Packets(Tail(packet_buffer[c])) \union {WPkt}
      BY <3>3, RangeTail
    <3>5. Packets(Append(written[c], WPkt)) = Packets(written[c]) \union {WPkt}
      BY <3>2, <3>3, RangeAppend
    <3>. QED BY <3>2, <3>4, <3>5 DEF All, Placed, Waiting
  <2>. QED BY <2>1, <2>2
<1>. QED BY <1>1, <1>2, <1>3, <1>4, StepKinds

LEMMA LastIsThereStep ==
    ASSUME TypeOK, HeaderSays, ReadyIs, LastIsThere, [Next]_vars
    PROVE  LastIsThere'
<1>1. UNCHANGED input BY GivenStays
<1>2. \A c : Unreached(c)' <=> Unreached(c) BY <1>1, UnreachedStays
<1>3. SUFFICES ASSUME job # "demuxer", NEW c \in Outputs, ~Unreached(c), fmt[c].timed,
                      NEW i \in DOMAIN streams'[c], cur_dts'[c][i] # 0
               PROVE  \E p \in All(c)' : p.st = i /\ p.dts = cur_dts'[c][i]
  BY <1>1, <1>2 DEF LastIsThere, input
<1>4. ASSUME i \in DOMAIN streams[c], cur_dts'[c][i] = cur_dts[c][i]
      PROVE  \E p \in All(c)' : p.st = i /\ p.dts = cur_dts'[c][i]
  <2>1. PICK p \in All(c) : p.st = i /\ p.dts = cur_dts[c][i] BY <1>3, <1>4 DEF LastIsThere
  <2>2. p \in All(c)' BY <1>3, AllGrows
  <2>. QED BY <1>4, <2>1, <2>2
<1>5. CASE NewStreams BY <1>3, <1>5, NewTimes
<1>6. CASE Submit
  <2>1. i \in DOMAIN streams[c] BY <1>6, SubmitIs
  <2>2. CASE c = SubC /\ i = SubI /\ ~SubBad
    <3>1. cur_dts'[c][i] = SubDts BY <1>6, <2>1, <2>2, SubSets
    <3>2. SubPkt \in All(c)' BY <1>6, <2>2, SubAll DEF SubOut
    <3>3. SubPkt.st = i /\ SubPkt.dts = SubDts BY <2>2 DEF SubPkt
    <3>. QED BY <3>1, <3>2, <3>3
  <2>3. CASE ~(c = SubC /\ i = SubI /\ ~SubBad) BY <1>4, <1>6, <2>1, <2>3, SubSets
  <2>. QED BY <2>2, <2>3
<1>7. CASE UNCHANGED <<cur_dts, priv_pts, streams>> BY <1>3, <1>4, <1>7
<1>. QED BY <1>5, <1>6, <1>7, TimesStay

\* A packet that is turned away was overtaken.
LEMMA SubPassed ==
    ASSUME TypeOK, AllKnown, HeaderSays, ReadyIs, Counted, MadeUp, LastIsThere, Submit, ~SubOut,
           NEW c \in Outputs, c = SubC, ~Unreached(c)
    PROVE  /\ fmt[c].timed /\ SubT # NoPts
           /\ \E p \in All(c) : /\ p.from = Packet.st /\ p.n < nread + 1
                                /\ p.dts > SubT \/ (fmt[c].strict /\ p.dts = SubT)
<1>1. /\ SubI \in DOMAIN streams[c] /\ SubDts \in Nat /\ job # "demuxer" /\ Wanted(Packet.st)
      /\ Output(Packet.st) = c /\ SubI = StreamIndex(Packet.st) /\ SubT \in Nat \union {NoPts}
  BY SubmitIs, SubTypes DEF SubC, SubI
<1>. DEFINE cur == cur_dts[c][SubI]
<1>2. cur \in Nat
  <2>. DEFINE s == cur_dts[c]
  <2>1. s \in Seq(Nat) /\ SubI \in DOMAIN s BY <1>1 DEF TypeOK, StreamsOK
  <2>. HIDE DEF s
  <2>2. s[SubI] \in Nat BY <2>1
  <2>. QED BY <2>2 DEF s
<1>3. /\ fmt[c].timed /\ cur # 0
      /\ cur > SubDts \/ (fmt[c].strict /\ cur = SubDts)
  BY DEF SubOut, SubBad, Backwards
<1>. HIDE DEF cur
<1>4. SubT # NoPts
  <2>1. SUFFICES ASSUME SubT = NoPts PROVE FALSE OBVIOUS
  <2>2. SubDts = cur + 1 BY <1>1, <1>3, <2>1 DEF SubDts, MadeUp, cur
  <2>. QED BY <1>2, <1>3, <2>2
<1>5. SubDts = SubT BY <1>4 DEF SubDts
<1>6. PICK p \in All(c) : p.st = SubI /\ p.dts = cur BY <1>1, <1>3 DEF LastIsThere, cur
<1>7. Known(c, p) BY DEF AllKnown, All
<1>8. p.n < nread + 1 BY OnesAreOlder DEF All
<1>9. p.from = Packet.st
  <2>1. p.st = StreamIndex(p.from) /\ Wanted(p.from) /\ Output(p.from) = c
    BY <1>1, <1>7, RoutedIs DEF Known
  <2>. QED BY <1>1, <1>6, <2>1, SameStream DEF TypeOK, GivenOK
<1>10. p.dts > SubT \/ (fmt[c].strict /\ p.dts = SubT) BY <1>3, <1>5, <1>6
<1>. QED BY <1>3, <1>4, <1>8, <1>9, <1>10

LEMMA StampStays ==
    ASSUME TypeOK, [Next]_vars
    PROVE  \A pkt, made : Stamp(pkt, made)' = Stamp(pkt, made)
<1>1. UNCHANGED input BY GivenStays
<1>2. "O" \in Outputs BY DEF Outputs
<1>3. \A st : Output(st)' = Output(st) BY <1>2, RoutedStays
<1>. QED BY <1>1, <1>3 DEF Stamp, input

\* The turn of a packet does not change when others are read.
LEMMA TurnStays ==
    ASSUME TypeOK, [Next]_vars, NEW c \in Outputs, NEW n \in Nat
    PROVE  /\ n <= nread => Turn(c, n)' = Turn(c, n)
           /\ n = nread + 1 /\ nread' = nread + 1 => Turn(c, n)' = Cardinality(Routed(c))
<1>1. /\ Routed(c) \in SUBSET (1 .. nread) /\ nread \in Nat
      /\ \A m \in Nat : m <= nread => (m \in Routed(c)' <=> m \in Routed(c))
      /\ nread' \in {nread, nread + 1}
  BY RoutedIs, RoutedStays
<1>2. Routed(c)' \in SUBSET (1 .. nread') BY DEF Routed
<1>3. ASSUME n <= nread PROVE {m \in Routed(c)' : m < n} = {m \in Routed(c) : m < n}
  <2>1. \A m \in Routed(c)' : m < n => m \in Nat /\ m <= nread BY <1>1, <1>2, <1>3
  <2>2. \A m \in Routed(c) : m \in Nat /\ m <= nread BY <1>1
  <2>. QED BY <1>1, <2>1, <2>2
<1>4. ASSUME n = nread + 1, nread' = nread + 1 PROVE {m \in Routed(c)' : m < n} = Routed(c)
  <2>1. \A m \in Routed(c)' : m < n => m \in Nat /\ m <= nread BY <1>1, <1>2, <1>4
  <2>2. \A m \in Routed(c) : m \in Nat /\ m <= nread /\ m < n BY <1>1, <1>4
  <2>. QED BY <1>1, <2>1, <2>2
<1>. QED BY <1>3, <1>4 DEF Turn

LEMMA KeptStep ==
    ASSUME TypeOK, AllKnown, HeaderSays, ReadyIs, Counted, MadeUp, LastIsThere, Kept, [Next]_vars
    PROVE  Kept'
<1>1. UNCHANGED input BY GivenStays
<1>2. \A c : Unreached(c)' <=> Unreached(c) BY <1>1, UnreachedStays
<1>3. SUFFICES ASSUME NEW c \in Outputs, ~Unreached(c), NEW n \in Routed(c)'
               PROVE  (\E p \in All(c)' : p.n = n) \/ Passed(c, n)'
  BY <1>2 DEF Kept
<1>4. \A p \in All(c) : p \in All(c)' BY <1>3, AllGrows
<1>5. /\ n \in 1 .. nread' /\ n \in Nat /\ nread \in Nat /\ nread' \in {nread, nread + 1}
      /\ n <= nread => n \in Routed(c)
  <2>1. n \in 1 .. nread' BY DEF Routed
  <2>2. nread \in Nat /\ nread' \in {nread, nread + 1} BY RoutedStays
  <2>3. n \in Nat BY <2>1, <2>2
  <2>. QED BY <2>1, <2>2, <2>3, RoutedStays
<1>6. PICK pkt, turn : pkt = file.pkts[n] /\ turn = Turn(c, n)' OBVIOUS
<1>7. pkt = file'.pkts[n] /\ Stamp(pkt, turn)' = Stamp(pkt, turn)
  BY <1>1, <1>6, StampStays DEF input
<1>8. ASSUME fmt[c].timed, Stamp(pkt, turn) # NoPts,
             NEW p \in All(c), p.from = pkt.st, p.n < n,
             p.dts > Stamp(pkt, turn) \/ (fmt[c].strict /\ p.dts = Stamp(pkt, turn))
      PROVE  Passed(c, n)'
  <2>1. p \in All(c)' BY <1>4
  <2>2. /\ fmt'[c].timed /\ (fmt[c].strict <=> fmt'[c].strict) /\ Turn(c, n)' = turn
        /\ file'.pkts[n] = pkt
    BY <1>1, <1>6, <1>7, <1>8 DEF input
  <2>. QED BY <1>7, <1>8, <2>1, <2>2 DEF Passed
<1>9. CASE n <= nread
  <2>1. (\E p \in All(c) : p.n = n) \/ Passed(c, n) BY <1>3, <1>5, <1>9 DEF Kept
  <2>2. CASE \E p \in All(c) : p.n = n BY <1>4, <2>2
  <2>3. CASE Passed(c, n)
    <3>1. turn = Turn(c, n) BY <1>5, <1>6, <1>9, TurnStays
    <3>2. PICK p \in All(c) : /\ p.from = pkt.st /\ p.n < n
                              /\ \/ p.dts > Stamp(pkt, turn)
                                 \/ fmt[c].strict /\ p.dts = Stamp(pkt, turn)
      BY <1>6, <2>3, <3>1 DEF Passed
    <3>3. fmt[c].timed /\ Stamp(pkt, turn) # NoPts BY <1>6, <2>3, <3>1 DEF Passed
    <3>. QED BY <1>8, <3>2, <3>3
  <2>. QED BY <2>1, <2>2, <2>3
<1>10. CASE n = nread + 1 /\ nread' = nread + 1
  <2>1. CASE nread' = nread /\ frame_index' = frame_index BY <1>5, <1>10, <2>1
  <2>2. CASE Skip
    <3>1. HasNext /\ ~Wanted(Packet.st) BY <2>2 DEF Skip
    <3>. QED BY <1>3, <1>10, <3>1, RoutedNext
  <2>3. CASE InvalidIndex BY <1>3, <1>10, <2>3, InvalidIs
  <2>4. CASE CopyRaw
    <3>. DEFINE raw == [st |-> 1, from |-> Packet.st, n |-> nread + 1, dts |-> Packet.dts]
    <3>1. HasNext BY <2>4, RawPuts
    <3>2. Output(Packet.st) = c BY <1>3, <1>10, <3>1, RoutedNext
    <3>3. written'[c] = Append(written[c], raw) /\ written[c] \in Seq(Handed) /\ raw \in Handed
      BY <2>4, <3>2, RawPuts
    <3>4. raw.n = n BY <1>10
    <3>. HIDE DEF raw
    <3>5. Packets(Append(written[c], raw)) = Packets(written[c]) \union {raw} BY <3>3, RangeAppend
    <3>6. raw \in All(c)' BY <3>3, <3>5 DEF All, Placed
    <3>. QED BY <3>4, <3>6
  <2>5. CASE Submit
    <3>1. HasNext BY <2>5, SubmitIs
    <3>2. c = SubC BY <1>3, <1>10, <3>1, RoutedNext DEF SubC
    <3>3. CASE SubOut
      <4>1. SubPkt \in All(c)' BY <2>5, <3>2, <3>3, SubAll
      <4>2. SubPkt.n = n BY <1>10 DEF SubPkt
      <4>. QED BY <4>1, <4>2
    <3>4. CASE ~SubOut
      <4>1. pkt = Packet BY <1>6, <1>10 DEF Packet
      <4>2. Stamp(pkt, turn) = SubT
        <5>1. turn = Cardinality(Routed(c)) BY <1>5, <1>6, <1>10, TurnStays
        <5>2. CASE job = "pusher"
          <6>1. c = "O" BY <3>2, <5>2 DEF SubC, Output
          <6>2. turn = frame_index BY <5>1, <5>2, <6>1 DEF Counted
          <6>. QED BY <4>1, <6>2 DEF SubT
        <5>3. CASE job # "pusher" BY <4>1, <5>3 DEF SubT, Stamp
        <5>. QED BY <5>2, <5>3
      <4>3. /\ fmt[c].timed /\ SubT # NoPts
            /\ \E p \in All(c) : /\ p.from = Packet.st /\ p.n < nread + 1
                                 /\ p.dts > SubT \/ (fmt[c].strict /\ p.dts = SubT)
        BY <1>3, <2>5, <3>2, <3>4, SubPassed
      <4>4. PICK p \in All(c) : /\ p.from = Packet.st /\ p.n < nread + 1
                                /\ p.dts > SubT \/ (fmt[c].strict /\ p.dts = SubT)
        BY <4>3
      <4>5. p.from = pkt.st /\ p.n < n BY <1>10, <4>1, <4>4
      <4>. QED BY <1>8, <4>2, <4>3, <4>4, <4>5
    <3>. QED BY <3>3, <3>4
  <2>. QED BY <2>1, <2>2, <2>3, <2>4, <2>5, ReadKinds
<1>. QED BY <1>5, <1>9, <1>10

\* How the job ends.
LEMMA EndKinds ==
    ASSUME [Next]_vars, pc' \in {"trailer", "closing", "done"}
    PROVE  \/ pc' = pc /\ at' = at /\ packet_buffer' = packet_buffer
           \/ EndOfInput \/ TrailerEnds \/ Close
           \/ Writes /\ pc = "trailer"
BY WritesIs DEF Next, OpenFails, NullContext, NotFound, NewStreams, WriteHeader, Skip, LateStream,
   CopyRaw, InvalidIndex, NoPrivPts, Submit, Interleave, Trailer, WriteOne, Writes, Wait,
   Goto, vars, muxing

LEMMA EndingStep ==
    ASSUME TypeOK, HeaderSays, ReadyIs, Ending, [Next]_vars
    PROVE  Ending'
<1>1. UNCHANGED input BY GivenStays
<1>2. \A c : Unreached(c)' <=> Unreached(c) BY <1>1, UnreachedStays
<1>3. ASSUME NEW c, packet_buffer'[c] = packet_buffer[c] PROVE Drained(c)' <=> Drained(c)
  BY <1>2, <1>3 DEF Drained
<1>4. at \in Outputs BY DEF TypeOK, PlaceOK
<1>5. CASE pc' \notin {"trailer", "closing", "done"} BY <1>5 DEF Ending
<1>6. CASE pc' = pc /\ at' = at /\ packet_buffer' = packet_buffer
  BY <1>1, <1>3, <1>6 DEF Ending, input
<1>7. CASE EndOfInput
  <2>1. /\ pc' = IF job = "demuxer" THEN "done" ELSE "trailer"
        /\ at' = IF job = "demuxer2" THEN "V" ELSE "O"
    BY <1>7 DEF EndOfInput, Goto
  <2>. QED BY <1>1, <2>1 DEF Ending, input
<1>8. CASE TrailerEnds
  <2>1. pc = "trailer" /\ pc' = "closing" /\ at' = at /\ packet_buffer' = packet_buffer
        /\ packet_buffer[at] = <<>>
    BY <1>8 DEF TrailerEnds, Goto, muxing
  <2>2. Drained(at)' BY <2>1 DEF Drained
  <2>. QED BY <1>1, <1>3, <2>1, <2>2 DEF Ending, input
<1>9. CASE Close
  <2>1. pc = "closing" /\ pc' = (IF at = "V" THEN "trailer" ELSE "done")
        /\ at' = (IF at = "V" THEN "A" ELSE at) /\ packet_buffer' = packet_buffer
    BY <1>9 DEF Close, Goto
  <2>2. Drained(at) BY <2>1 DEF Ending
  <2>3. CASE at = "V"
    <3>1. Drained("V")' BY <1>3, <2>1, <2>2, <2>3
    <3>. QED BY <1>1, <2>1, <2>3, <3>1 DEF Ending, input
  <2>4. CASE at # "V"
    <3>1. Drained(at)' BY <1>3, <2>1, <2>2, <2>4
    <3>2. pc' = "done" /\ at' = at BY <2>1, <2>4
    <3>. QED BY <1>1, <1>3, <2>1, <2>4, <3>1, <3>2 DEF Ending, input
  <2>. QED BY <2>3, <2>4
<1>10. CASE Writes /\ pc = "trailer"
  <2>1. /\ at' = at /\ WHdr \in {"ok", "refused"}
        /\ pc' = IF WHdr = "ok" THEN "trailer" ELSE "closing"
    BY <1>10, WritesIs, WriteTypes
  <2>2. \A c \in Outputs : c # at => packet_buffer'[c] = packet_buffer[c] BY <1>10, WritePuts
  <2>3. at = "A" /\ Drained("V") => Drained("V")' BY <1>3, <2>2 DEF Outputs
  <2>4. pc' = "closing" => Drained(at)'
    <3>1. pc' = "closing" => Unreached(at) BY <1>10, <2>1, ReachedWrites
    <3>. QED BY <1>2, <2>1, <3>1 DEF Drained
  <2>. QED BY <1>1, <1>10, <2>1, <2>3, <2>4 DEF Ending, input
<1>. QED BY <1>5, <1>6, <1>7, <1>8, <1>9, <1>10, EndKinds

LEMMA OnceStep ==
    ASSUME TypeOK, HeaderInv, AllKnown, OnceInv, [Next]_vars
    PROVE  OnceInv'
BY CountedStep, MadeUpStep, LastIsThereStep, ReadyStep, KeptStep, EndingStep DEF OnceInv, HeaderInv

LEMMA OnceInit == ASSUME Init PROVE OnceInv
<1>1. /\ nread = 0 /\ frame_index = 0 /\ pc = "open" /\ ready = {}
      /\ \A c \in Outputs : /\ streams[c] = <<>> /\ packet_buffer[c] = <<>>
  BY DEF Init
<1>2. \A c : Routed(c) = {} BY <1>1 DEF Routed
<1>3. Counted BY <1>1, <1>2, FS_EmptySet DEF Counted
<1>4. MadeUp /\ LastIsThere BY <1>1 DEF MadeUp, LastIsThere
<1>5. ReadyIs /\ Kept /\ Ending BY <1>1, <1>2 DEF ReadyIs, Kept, Ending
<1>. QED BY <1>3, <1>4, <1>5 DEF OnceInv

\* A sequence of packets of different numbers has as many numbers as packets.
LEMMA NumbersAre ==
    ASSUME NEW s \in Seq(Handed), InTurn(s, Other)
    PROVE  Len(s) = Cardinality({s[k].n : k \in DOMAIN s})
<1>. DEFINE D == 1 .. Len(s)
            N == {s[k].n : k \in DOMAIN s}
            f == [k \in D |-> s[k].n]
<1>1. DOMAIN s = D /\ Len(s) \in Nat /\ \A k \in D : s[k] \in Handed OBVIOUS
<1>2. \A j, k \in D : j < k => s[j].n # s[k].n
  <2>1. ASSUME NEW j \in D, NEW k \in D, j < k PROVE s[j].n # s[k].n
    <3>1. <<s[j], s[k]>> \in Other BY <1>1, <2>1 DEF InTurn
    <3>. QED BY <1>1, <3>1, NumberRelations
  <2>. QED BY <2>1
<1>3. \A j, k \in D : s[j].n = s[k].n => j = k
  <2>1. \A j, k \in D : j < k \/ k < j \/ j = k BY <1>1
  <2>. QED BY <1>2, <2>1
<1>4. f \in Bijection(D, N)
  <2>1. f \in [D -> N] BY <1>1
  <2>2. \A j, k \in D : f[j] = f[k] => j = k BY <1>3
  <2>3. \A x \in N : \E k \in D : f[k] = x BY <1>1
  <2>. HIDE DEF f, D, N
  <2>4. IsInjective(f)
    <3>1. DOMAIN f = D BY <2>1
    <3>. QED BY <2>2, <3>1 DEF IsInjective
  <2>. QED BY <2>1, <2>2, <2>3, <2>4 DEF Bijection, Injection, Surjection
<1>5. IsFiniteSet(D) /\ Cardinality(D) = Len(s)
  <2>1. 1 \in Int /\ Len(s) \in Int BY <1>1
  <2>2. IsFiniteSet(1 .. Len(s)) /\ Cardinality(1 .. Len(s)) = IF 1 > Len(s) THEN 0 ELSE Len(s) - 1 + 1
    BY <2>1, FS_Interval
  <2>. QED BY <1>1, <2>2
<1>. HIDE DEF f, D, N
<1>6. Cardinality(N) = Cardinality(D) BY <1>4, <1>5, FS_Bijection DEF ExistsBijection
<1>. QED BY <1>5, <1>6 DEF N

LEMMA OnceImplies ==
    ASSUME TypeOK, HeaderInv, AllKnown, OrderInv, OnceInv
    PROVE  CopiedOnce
<1>1. SUFFICES ASSUME pc \notin Setup, NEW c \in Outputs
      PROVE  /\ Len(written[c]) = Cardinality(InFile(c))
             /\ InFile(c) \intersect InBuffer(c) = {} /\ InFile(c) \subseteq Routed(c)
             /\ pc = "done" /\ Unreached(c) => written[c] = <<>>
             /\ pc = "done" /\ ~Unreached(c) =>
                  \A n \in Routed(c) : n \in InFile(c) \/ Overtaken(c, n)
  BY DEF CopiedOnce, Setup
<1>2. /\ written[c] \in Seq(Handed) /\ InTurn(written[c], Other)
      /\ Ahead(Placed(c), Waiting(c), Other)
  BY DEF TypeOK, PacketsOK, OrderInv, Numbered, Queued
<1>3. Len(written[c]) = Cardinality(InFile(c)) BY <1>2, NumbersAre DEF InFile
<1>4. InFile(c) = {p.n : p \in Placed(c)} /\ InBuffer(c) = {p.n : p \in Waiting(c)}
  BY DEF InFile, InBuffer, Placed, Waiting, Packets
<1>5. InFile(c) \intersect InBuffer(c) = {}
  <2>1. ASSUME NEW p \in Placed(c), NEW q \in Waiting(c) PROVE p.n # q.n
    <3>1. <<p, q>> \in Other BY <1>2 DEF Ahead
    <3>2. p \in Handed /\ q \in Handed BY OnesAreOlder
    <3>. QED BY <3>1, <3>2, NumberRelations
  <2>. QED BY <1>4, <2>1
<1>6. InFile(c) \subseteq Routed(c) BY <1>4 DEF AllKnown, Known
<1>7. ASSUME pc = "done", Unreached(c) PROVE written[c] = <<>>
  <2>1. job # "demuxer" BY <1>7 DEF Unreached
  <2>. QED BY <1>1, <1>7, <2>1, NothingUnreached DEF HeaderInv
<1>8. ASSUME pc = "done", ~Unreached(c), NEW n \in Routed(c)
      PROVE  n \in InFile(c) \/ Overtaken(c, n)
  <2>1. packet_buffer[c] = <<>>
    <3>1. CASE job = "demuxer" BY <3>1 DEF OrderInv, WaitsNot
    <3>2. CASE job # "demuxer"
      <4>1. Output(file.pkts[n].st) = c BY <1>8, RoutedIs
      <4>2. /\ job = "demuxer2" <=> at # "O"
            /\ at = "A" => Drained("V")
            /\ at # "V" /\ Drained(at)
        BY <1>8, <3>2 DEF OnceInv, Ending
      <4>3. at \in Outputs BY DEF TypeOK, PlaceOK
      <4>4. CASE job = "demuxer2"
        <5>1. c \in {"V", "A"} /\ at = "A" BY <4>1, <4>2, <4>3, <4>4 DEF Output, Outputs
        <5>. QED BY <1>8, <4>2, <5>1 DEF Drained
      <4>5. CASE job # "demuxer2"
        <5>1. c = "O" /\ at = "O"
          BY <3>2, <4>1, <4>2, <4>5 DEF Output, TypeOK, GivenOK, Jobs
        <5>. QED BY <1>8, <4>2, <5>1 DEF Drained
      <4>. QED BY <4>4, <4>5
    <3>. QED BY <3>1, <3>2
  <2>2. All(c) = Placed(c) BY <2>1 DEF All, Waiting, Packets
  <2>3. (\E p \in Placed(c) : p.n = n) \/ Passed(c, n) BY <1>8, <2>2 DEF OnceInv, Kept
  <2>4. CASE \E p \in Placed(c) : p.n = n BY <1>4, <2>4
  <2>5. CASE Passed(c, n)
    <3>. DEFINE t == Stamp(file.pkts[n], Turn(c, n))
    <3>1. fmt[c].timed /\ t # NoPts BY <2>5 DEF Passed
    <3>2. PICK p \in Placed(c) : /\ p.from = file.pkts[n].st /\ p.n < n
                                 /\ p.dts > t \/ (fmt[c].strict /\ p.dts = t)
      BY <2>2, <2>5 DEF Passed
    <3>3. PICK k \in DOMAIN written[c] : written[c][k] = p BY <3>2 DEF Placed, Packets
    <3>4. t = Stamp(file.pkts[n], Cardinality({m \in Routed(c) : m < n})) BY DEF Turn
    <3>. HIDE DEF t
    <3>. QED BY <3>1, <3>2, <3>3, <3>4 DEF Overtaken
  <2>. QED BY <2>3, <2>4, <2>5
<1>. QED BY <1>3, <1>5, <1>6, <1>7, <1>8

\* For all files, formats and bounds: no packet is in an output twice, or in
\* it and still waiting; and when a job ends, every packet sent to an output
\* is in it, unless one of its stream that was read earlier has overtaken it,
\* or the output is one of those that cannot be reached, which stay empty.
THEOREM NothingLostOrDoubled == Spec => []CopiedOnce
<1>1. Init => TypeOK /\ HeaderInv /\ AllKnown /\ OrderInv /\ OnceInv
  BY TypeInit, HeaderInit, KnownInit, OrderInit, OnceInit
<1>2. TypeOK /\ HeaderInv /\ AllKnown /\ OrderInv /\ OnceInv /\ [Next]_vars
         => (TypeOK /\ HeaderInv /\ AllKnown /\ OrderInv /\ OnceInv)'
  BY TypeStep, PreparedStep, HeaderSaysStep, CrashStep, KnownStep, OrderStep, OnceStep DEF HeaderInv
<1>3. TypeOK /\ HeaderInv /\ AllKnown /\ OrderInv /\ OnceInv => CopiedOnce BY OnceImplies
<1>. QED BY <1>1, <1>2, <1>3, PTL DEF Spec

=============================================================================
