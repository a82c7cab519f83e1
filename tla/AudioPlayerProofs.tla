-------------------------- MODULE AudioPlayerProofs --------------------------
(***************************************************************************)
(* Proofs about AudioPlayer, for any number of clicks, every set of files  *)
(* and every outcome of undefined behaviour.                               *)
(***************************************************************************)
EXTENDS AudioPlayer, FiniteSetTheorems, SequenceTheorems, TLAPS

Sounds == [s : Sessions, p : Nat]
Setup  == {"open", "find", "codec", "player"}
CbPcs  == {"idle", "read", "decode", "enqueue", "close"}

LEMMA SessionNumbers == Clicks \in Nat /\ Sessions \subseteq Nat /\ 0 \notin Sessions /\ Null = 0
BY BoundsAssumption DEF Sessions, Null

(***************************************************************************)
(* Type correctness.                                                       *)
(***************************************************************************)
ThreadsOK ==
    /\ track \in [Sessions -> Tracks]
    /\ ui \in Setup \union {"idle", "callback"}
    /\ clicks \in 0 .. Clicks /\ (ui # "idle" => clicks \in Sessions)
    /\ cb \in [Sessions -> CbPcs]

ContextsOK ==
    /\ pFormatCtx \in Sessions \union {Null} /\ pCodecCtx \in Sessions \union {Null}
    /\ pSwrCtx \in Sessions \union {Null}
    /\ opened \subseteq Sessions
    /\ nread \in [Sessions -> Nat]
    /\ pPacket \in Sounds \union {NoSound} /\ pFrame \in Sounds \union {NoSound}

QueuesOK ==
    /\ slq \in [Sessions -> Seq(Sounds)] /\ sent \in [Sessions -> Seq(Sounds)]
    /\ lost \subseteq Sounds /\ ended \subseteq Sessions

TypeOK == ThreadsOK /\ ContextsOK /\ QueuesOK

LEMMA InitType == Init => TypeOK
<1>. SUFFICES ASSUME Init PROVE TypeOK
  OBVIOUS
<1>1. ThreadsOK BY SessionNumbers DEF Init, ThreadsOK, Setup, CbPcs
<1>2. ContextsOK BY SessionNumbers DEF Init, ContextsOK
<1>3. QueuesOK
  <2>1. <<>> \in Seq(Sounds) OBVIOUS
  <2>. QED BY <2>1 DEF Init, QueuesOK
<1>. QED BY <1>1, <1>2, <1>3 DEF TypeOK

LEMMA NextThreads == ASSUME TypeOK, Next PROVE ThreadsOK'
<1>. USE SessionNumbers DEF TypeOK, ThreadsOK, Setup, CbPcs
<1>1. CASE OnClick
  <2>1. CASE Click
    BY <2>1 DEF Click, MoveUI, chain, Sessions
  <2>2. CASE StartPlayer
    BY <2>2 DEF StartPlayer
  <2>. QED
    BY <1>1, <2>1, <2>2 DEF OnClick, OpenFails, Open, ProbeFails, NotFound, Find, CodecFails,
       OpenCodec, MoveUI, chain
<1>2. ASSUME NEW s \in Sessions, Callback(s) \/ BufferPlayed(s) PROVE ThreadsOK'
  BY <1>2 DEF Callback, ReadCrashes, Read, DecodeNothing, Decode, DecodeCrashes, Enqueue,
     EnqueueCrashes, EndOfFile, Close, BufferPlayed, MoveCb
<1>. QED BY <1>1, <1>2 DEF Next

LEMMA NextContexts == ASSUME TypeOK, Next PROVE ContextsOK'
<1>. USE SessionNumbers DEF TypeOK, ThreadsOK, ContextsOK, globals, data
<1>1. CASE OnClick
  <2>1. CASE Click
    <3>1. clicks' \in Sessions BY <2>1 DEF Click, Sessions
    <3>. QED BY <2>1, <3>1 DEF Click
  <2>. QED
    BY <1>1, <2>1 DEF OnClick, OpenFails, Open, ProbeFails, NotFound, Find, CodecFails,
       OpenCodec, StartPlayer, MoveUI
<1>2. ASSUME NEW s \in Sessions, Callback(s) \/ BufferPlayed(s) PROVE ContextsOK'
  <2>1. CASE Read(s)
    <3>1. pFormatCtx \in Sessions /\ nread[pFormatCtx] + 1 \in Nat
      BY <2>1 DEF Read
    <3>2. pPacket' \in Sounds BY <2>1, <3>1 DEF Read, Sounds
    <3>. QED BY <2>1, <3>1, <3>2 DEF Read
  <2>. QED
    BY <1>2, <2>1 DEF Callback, ReadCrashes, DecodeNothing, Decode, DecodeCrashes, Enqueue,
       EnqueueCrashes, EndOfFile, Close, BufferPlayed
<1>. QED BY <1>1, <1>2 DEF Next

LEMMA NextQueues == ASSUME TypeOK, Next PROVE QueuesOK'
<1>. USE DEF TypeOK, ContextsOK, QueuesOK, chain, history, MoveUI, MoveCb
<1>1. CASE OnClick
  BY <1>1 DEF OnClick, Click, OpenFails, Open, ProbeFails, NotFound, Find, CodecFails,
     OpenCodec, StartPlayer
<1>2. ASSUME NEW s \in Sessions, Callback(s) \/ BufferPlayed(s) PROVE QueuesOK'
  <2>1. CASE Enqueue(s)
    <3>1. pFrame \in Sounds BY <2>1 DEF Enqueue
    <3>2. Append(slq[s], pFrame) \in Seq(Sounds) /\ Append(sent[s], pFrame) \in Seq(Sounds)
      BY <3>1, AppendProperties
    <3>. QED BY <2>1, <3>2 DEF Enqueue
  <2>2. CASE BufferPlayed(s)
    <3>1. Tail(slq[s]) \in Seq(Sounds) BY <2>2, HeadTailProperties DEF BufferPlayed
    <3>. QED BY <2>2, <3>1 DEF BufferPlayed
  <2>3. CASE DecodeNothing(s) BY <2>3 DEF DecodeNothing
  <2>4. CASE Close(s) BY <2>4 DEF Close
  <2>. QED
    BY <1>2, <2>1, <2>2, <2>3, <2>4 DEF Callback, ReadCrashes, Read, Decode, DecodeCrashes,
       EnqueueCrashes, EndOfFile
<1>. QED BY <1>1, <1>2 DEF Next

LEMMA NextType == ASSUME TypeOK, [Next]_vars PROVE TypeOK'
<1>1. CASE Next BY <1>1, NextThreads, NextContexts, NextQueues DEF TypeOK
<1>2. CASE UNCHANGED vars
  BY <1>2 DEF TypeOK, ThreadsOK, ContextsOK, QueuesOK, vars, globals, data, chain, history
<1>. QED BY <1>1, <1>2

\* Type correctness of any number of sessions of the audio player.
THEOREM AudioTypeCorrect == Spec => []TypeOK
BY InitType, NextType, PTL DEF Spec

(***************************************************************************)
(* The chain of buffers and callbacks of each player.  It begins once, for *)
(* a session that has neither.                                             *)
(***************************************************************************)
NotStarted ==
    \A s \in Sessions : s > clicks \/ (s = clicks /\ ui \in Setup) =>
        cb[s] = "idle" /\ slq[s] = <<>>
ChainInv == OneBufferEach /\ NotStarted

LEMMA ChainSays ==
    ASSUME TypeOK, NEW s \in Sessions
    PROVE  /\ Len(slq[s]) \in Nat
           /\ Len(slq[s]) = 0 <=> slq[s] = <<>>
           /\ OneBufferEach => (cb[s] # "idle" => slq[s] = <<>>)
           /\ OneBufferEach => Len(slq[s]) <= 1
<1>1. slq[s] \in Seq(Sounds) BY DEF TypeOK, QueuesOK
<1>2. Len(slq[s]) \in Nat /\ (Len(slq[s]) = 0 <=> slq[s] = <<>>) BY <1>1
<1>3. ASSUME OneBufferEach PROVE Len(slq[s]) <= 1 /\ (cb[s] # "idle" => slq[s] = <<>>)
  <2>1. Len(slq[s]) + (IF cb[s] = "idle" THEN 0 ELSE 1) <= 1 BY <1>3 DEF OneBufferEach
  <2>2. CASE cb[s] = "idle" BY <1>2, <2>1, <2>2
  <2>3. CASE cb[s] # "idle"
    <3>1. Len(slq[s]) + 1 <= 1 BY <2>1, <2>3
    <3>2. Len(slq[s]) = 0 BY <1>2, <3>1
    <3>. QED BY <1>2, <3>1, <3>2
  <2>. QED BY <2>2, <2>3
<1>. QED BY <1>2, <1>3

LEMMA LastTail ==
    ASSUME NEW S, NEW q \in Seq(S), q # <<>>, Len(q) <= 1
    PROVE  Len(Tail(q)) = 0
<1>1. Len(Tail(q)) = Len(q) - 1 BY HeadTailProperties
<1>2. Len(q) \in Nat /\ Len(q) # 0 BY EmptySeq, LenProperties
<1>. DEFINE n == Len(q)
<1>. HIDE DEF n
<1>3. n \in Nat /\ n # 0 /\ n <= 1 BY <1>2 DEF n
<1>4. n - 1 = 0 BY <1>3
<1>. QED BY <1>1, <1>4 DEF n

LEMMA NextChain == ASSUME TypeOK, ChainInv, [Next]_vars PROVE ChainInv'
<1>. USE SessionNumbers DEF ChainInv
<1>0. OneBufferEach /\ NotStarted OBVIOUS
<1>1. CASE OnClick
  <2>1. CASE StartPlayer
    <3>1. clicks \in Sessions /\ cb' = [cb EXCEPT ![clicks] = "read"] /\ slq' = slq
          /\ clicks' = clicks /\ ui' = "callback" /\ ui = "player"
      BY <2>1 DEF StartPlayer, TypeOK, ThreadsOK
    <3>2. cb[clicks] = "idle" /\ slq[clicks] = <<>> BY <1>0, <3>1 DEF Setup, NotStarted
    <3>3. NotStarted'
      BY <1>0, <3>1 DEF NotStarted, TypeOK, ThreadsOK, Setup, Sessions
    <3>4. ASSUME NEW s \in Sessions PROVE Len(slq'[s]) + (IF cb'[s] = "idle" THEN 0 ELSE 1) <= 1
      <4>1. CASE s = clicks
        <5>1. Len(slq'[s]) = 0 BY <3>1, <3>2, <4>1
        <5>. QED BY <5>1
      <4>2. CASE s # clicks
        <5>1. cb'[s] = cb[s] /\ slq'[s] = slq[s] BY <3>1, <4>2 DEF TypeOK, ThreadsOK
        <5>. QED BY <1>0, <5>1 DEF OneBufferEach
      <4>. QED BY <4>1, <4>2
    <3>. QED BY <3>3, <3>4 DEF OneBufferEach
  <2>2. CASE ~StartPlayer
    <3>1. cb' = cb /\ slq' = slq
      BY <1>1, <2>2 DEF OnClick, Click, OpenFails, Open, ProbeFails, NotFound, Find, CodecFails,
         OpenCodec, MoveUI, chain
    <3>2. \/ clicks' = clicks + 1
          \/ clicks' = clicks /\ ui \in Setup
      BY <1>1, <2>2 DEF OnClick, Click, OpenFails, Open, ProbeFails, NotFound, Find, CodecFails,
         OpenCodec, MoveUI, Setup
    <3>3. OneBufferEach' BY <1>0, <3>1 DEF OneBufferEach
    <3>4. NotStarted'
      <4>1. ASSUME NEW s \in Sessions, s > clicks' \/ (s = clicks' /\ ui' \in Setup)
            PROVE  s > clicks \/ (s = clicks /\ ui \in Setup)
        BY <3>2, <4>1 DEF TypeOK, ThreadsOK, Sessions
      <4>. QED BY <1>0, <3>1, <4>1 DEF NotStarted
    <3>. QED BY <3>3, <3>4
  <2>. QED BY <2>1, <2>2
<1>2. ASSUME NEW s \in Sessions, Callback(s) \/ BufferPlayed(s) PROVE ChainInv'
  <2>0. /\ clicks' = clicks /\ (ui' \in Setup => ui' = ui)
        /\ \A t \in Sessions : t # s => cb'[t] = cb[t] /\ slq'[t] = slq[t]
    BY <1>2 DEF Callback, ReadCrashes, Read, DecodeNothing, Decode, DecodeCrashes, Enqueue,
       EnqueueCrashes, EndOfFile, Close, BufferPlayed, MoveCb, TypeOK, ThreadsOK, QueuesOK, Setup
  <2>1. cb[s] # "idle" \/ slq[s] # <<>>
    BY <1>2 DEF Callback, ReadCrashes, Read, DecodeNothing, Decode, DecodeCrashes, Enqueue,
       EnqueueCrashes, EndOfFile, Close, BufferPlayed, MoveCb
  <2>2. Len(slq'[s]) + (IF cb'[s] = "idle" THEN 0 ELSE 1) <= 1
    <3>1. CASE Enqueue(s)
      <4>1. slq[s] = <<>> /\ slq'[s] = Append(slq[s], pFrame) /\ cb'[s] = "idle"
        BY <1>0, <3>1, ChainSays DEF Enqueue, MoveCb, TypeOK, ThreadsOK, QueuesOK
      <4>2. Len(slq'[s]) = 1 BY <4>1
      <4>. QED BY <4>1, <4>2
    <3>2. CASE BufferPlayed(s)
      <4>1. slq[s] # <<>> /\ slq'[s] = Tail(slq[s]) /\ slq[s] \in Seq(Sounds)
            /\ cb[s] = "idle"
        BY <3>2 DEF BufferPlayed, TypeOK, QueuesOK
      <4>2. Len(slq[s]) <= 1 BY <1>0, ChainSays
      <4>3. Len(slq'[s]) = 0 BY <4>1, <4>2, LastTail
      <4>. QED BY <4>3
    <3>3. CASE ~Enqueue(s) /\ ~BufferPlayed(s)
      <4>1. slq' = slq /\ cb[s] # "idle"
        BY <1>2, <3>3 DEF Callback, ReadCrashes, Read, DecodeNothing, Decode, DecodeCrashes,
           EnqueueCrashes, EndOfFile, Close, MoveCb
      <4>2. Len(slq[s]) = 0 BY <1>0, <4>1, ChainSays
      <4>. QED BY <4>1, <4>2
    <3>. QED BY <3>1, <3>2, <3>3
  <2>3. ~(s > clicks) /\ ~(s = clicks /\ ui \in Setup) BY <1>0, <2>1 DEF NotStarted
  <2>4. NotStarted' BY <1>0, <2>0, <2>3 DEF NotStarted
  <2>5. ASSUME NEW t \in Sessions PROVE Len(slq'[t]) + (IF cb'[t] = "idle" THEN 0 ELSE 1) <= 1
    BY <1>0, <2>0, <2>2 DEF OneBufferEach
  <2>. QED BY <2>4, <2>5 DEF OneBufferEach
<1>3. CASE UNCHANGED vars BY <1>0, <1>3 DEF vars, chain, OneBufferEach, NotStarted
<1>. QED BY <1>1, <1>2, <1>3 DEF Next

LEMMA InitChain == Init => ChainInv
BY DEF Init, ChainInv, OneBufferEach, NotStarted

LEMMA ChainInvariant == Spec => [](TypeOK /\ ChainInv)
BY InitType, InitChain, NextType, NextChain, PTL DEF Spec

\* Whatever the sessions do to one another's contexts, a player never has more
\* than one buffer or running callback: its queue of two cannot overflow.
THEOREM OneBufferAtATime == Spec => []OneBufferEach
<1>1. TypeOK /\ ChainInv => OneBufferEach BY DEF ChainInv
<1>. QED BY <1>1, ChainInvariant, PTL

(***************************************************************************)
(* A session that shares the contexts with nobody.  Only the session begun *)
(* last plays, and not while the next one is set up; its contexts are the  *)
(* ones it set up itself.                                                  *)
(***************************************************************************)
OnlyLast == ~shared => \A s \in Sessions :
                Playing(s) => s = clicks /\ ui \in {"idle", "callback"}

\* The stream a session reads: the first audio stream of its own file, or one
\* of an earlier file.
IndexOf(s) == IF AudioStreams(s) # {} THEN audio_index = FirstOf(AudioStreams(s))
              ELSE \E t \in 1 .. s - 1 : audio_index \in AudioStreams(t)

IndexKnown == audio_index # Null => \E t \in 1 .. clicks : audio_index \in AudioStreams(t)

BeingSetUp ==
    ~shared /\ ~crashed =>
        /\ ui \in {"find", "codec", "player"} => pFormatCtx = clicks /\ clicks \in opened
        /\ ui \in {"codec", "player"} => pCodecCtx = clicks /\ IndexOf(clicks)
        /\ ui = "player" => pSwrCtx = clicks

InPlay(s) ==
    Playing(s) => /\ pFormatCtx = s /\ s \in opened /\ pSwrCtx = s
                  /\ cb[s] # "close" => pCodecCtx = s /\ IndexOf(s)
                  /\ cb[s] = "decode" => pPacket.s = s
                  /\ cb[s] = "enqueue" => pFrame.s = s

ContextsInv ==
    /\ OnlyLast /\ IndexKnown /\ BeingSetUp
    /\ ~shared => \A s \in Sessions : InPlay(s)

\* A set of numbers with an element has a smallest one.
LEMMA Smallest ==
    ASSUME NEW S \in SUBSET Nat, S # {}
    PROVE  \E n \in S : \A m \in S : n <= m
<1>. DEFINE R == StrictSubsetOrdering(Nat)
            F == FiniteSubsetsOf(Nat)
            T == {0 .. n : n \in S}
<1>1. IsWellFoundedOn(R, F) BY FS_StrictSubsetOrderingWellFounded
<1>2. T \subseteq F /\ T # {}
  <2>1. ASSUME NEW n \in S PROVE 0 .. n \in F BY FS_Interval DEF FiniteSubsetsOf
  <2>. QED BY <2>1
<1>3. PICK x \in T : \A y \in T : <<y, x>> \notin R BY <1>1, <1>2, WFMin
<1>4. PICK n \in S : x = 0 .. n OBVIOUS
<1>5. ASSUME NEW m \in S, ~(n <= m) PROVE FALSE
  <2>1. 0 .. m \in T OBVIOUS
  <2>2. 0 .. m \subseteq 0 .. n /\ n \in 0 .. n /\ n \notin 0 .. m BY <1>5
  <2>3. <<0 .. m, 0 .. n>> \in R BY <2>2 DEF StrictSubsetOrdering
  <2>. QED BY <2>1, <2>3, <1>3, <1>4
<1>. QED BY <1>5

LEMMA TrackTypes ==
    ASSUME TypeOK, NEW s \in Sessions
    PROVE  /\ Len(track[s].pkts) \in Nat /\ DOMAIN track[s].pkts = 1 .. Len(track[s].pkts)
           /\ \A p \in DOMAIN track[s].pkts : track[s].pkts[p] \in DOMAIN track[s].streams
           /\ DOMAIN track[s].streams \subseteq Nat \ {0}
<1>1. track[s] \in Tracks BY DEF TypeOK, ThreadsOK
<1>2. track[s].pkts \in Seq(Nat \ {0}) /\ track[s].streams \in Seq({"audio", "video"})
  BY <1>1, TracksAssumption
<1>. QED BY <1>1, <1>2, TracksAssumption

LEMMA FirstStream ==
    ASSUME TypeOK, NEW s \in Sessions, AudioStreams(s) # {}
    PROVE  FirstOf(AudioStreams(s)) \in AudioStreams(s)
<1>1. AudioStreams(s) \in SUBSET Nat BY TrackTypes DEF AudioStreams
<1>2. \E i \in AudioStreams(s) : \A j \in AudioStreams(s) : i <= j BY <1>1, Smallest
<1>. QED BY <1>2 DEF FirstOf

LEMMA IndexFixed ==
    ASSUME track' = track, audio_index' = audio_index
    PROVE  /\ \A s \in Sessions : IndexOf(s)' <=> IndexOf(s)
           /\ \A s \in Sessions : AudioStreams(s)' = AudioStreams(s)
BY DEF IndexOf, AudioStreams

LEMMA TrackStays == ASSUME Next PROVE track' = track
BY DEF Next, OnClick, Callback, Click, OpenFails, Open, ProbeFails, NotFound, Find, CodecFails,
   OpenCodec, StartPlayer, ReadCrashes, Read, DecodeNothing, Decode, DecodeCrashes, Enqueue,
   EnqueueCrashes, EndOfFile, Close, BufferPlayed, MoveUI, MoveCb

\* The UI thread before the player is started: nobody plays.
LEMMA SetupContexts ==
    ASSUME TypeOK, ContextsInv, OnClick, ~StartPlayer, track' = track
    PROVE  ContextsInv'
<1>. USE SessionNumbers DEF MoveUI, chain, globals
<1>1. cb' = cb /\ slq' = slq
  BY DEF OnClick, Click, OpenFails, Open, ProbeFails, NotFound, Find, CodecFails, OpenCodec
<1>2. \A s \in Sessions : Playing(s)' <=> Playing(s) BY <1>1 DEF Playing
<1>3. ASSUME ~shared' PROVE ~shared /\ \A s \in Sessions : ~Playing(s)
  <2>1. CASE Click BY <1>3, <2>1 DEF Click
  <2>2. CASE ~Click
    <3>1. ~shared /\ ui \in Setup
      BY <1>3, <2>2 DEF OnClick, OpenFails, Open, ProbeFails, NotFound, Find, CodecFails,
         OpenCodec, Setup
    <3>. QED BY <3>1 DEF ContextsInv, OnlyLast, Setup
  <2>. QED BY <2>1, <2>2
<1>4. OnlyLast' /\ (~shared' => \A s \in Sessions : InPlay(s)')
  BY <1>2, <1>3 DEF OnlyLast, InPlay
<1>5. IndexKnown /\ clicks \in Nat /\ clicks' \in Nat /\ clicks <= clicks'
  BY DEF OnClick, Click, OpenFails, Open, ProbeFails, NotFound, Find, CodecFails,
     OpenCodec, TypeOK, ThreadsOK, ContextsInv
<1>6. CASE Find
  <2>1. /\ clicks \in Sessions /\ clicks' = clicks /\ ui' = "codec" /\ shared' = shared
        /\ audio_index' = FoundIndex(clicks) /\ FoundIndex(clicks) # Null
        /\ pFormatCtx' = pFormatCtx /\ opened' = opened /\ ui = "find" /\ ~crashed
        /\ ~crashed' => pCodecCtx' = clicks /\ pFormatCtx = clicks
    BY <1>6 DEF Find, TypeOK, ThreadsOK
  <2>2. \A s \in Sessions : AudioStreams(s)' = AudioStreams(s) BY DEF AudioStreams
  <2>3. IndexKnown' /\ IndexOf(clicks)'
    <3>1. CASE AudioStreams(clicks) # {}
      <4>1. audio_index' = FirstOf(AudioStreams(clicks)) BY <2>1, <3>1 DEF FoundIndex
      <4>2. audio_index' \in AudioStreams(clicks) BY <2>1, <3>1, <4>1, FirstStream
      <4>3. clicks \in 1 .. clicks BY <2>1
      <4>. QED BY <2>1, <2>2, <3>1, <4>1, <4>2, <4>3 DEF IndexKnown, IndexOf
    <3>2. CASE AudioStreams(clicks) = {}
      <4>1. audio_index' = audio_index /\ audio_index # Null BY <2>1, <3>2 DEF FoundIndex
      <4>2. PICK t \in 1 .. clicks : audio_index \in AudioStreams(t)
        BY <1>5, <4>1 DEF IndexKnown
      <4>3. t \in 1 .. clicks - 1 BY <1>5, <3>2, <4>2
      <4>4. AudioStreams(t)' = AudioStreams(t) /\ AudioStreams(clicks)' = {}
        BY <2>1, <2>2, <3>2, <4>2 DEF AudioStreams
      <4>. QED BY <2>1, <3>2, <4>1, <4>2, <4>3, <4>4 DEF IndexKnown, IndexOf
    <3>. QED BY <3>1, <3>2
  <2>4. BeingSetUp' BY <2>1, <2>3 DEF ContextsInv, BeingSetUp
  <2>. QED BY <1>4, <2>3, <2>4 DEF ContextsInv
<1>7. CASE ~Find
  <2>1. audio_index' = audio_index
    BY <1>7 DEF OnClick, Click, OpenFails, Open, ProbeFails, NotFound, CodecFails, OpenCodec
  <2>2. IndexKnown'
    <3>1. \A t : AudioStreams(t)' = AudioStreams(t) BY DEF AudioStreams
    <3>2. 1 .. clicks \subseteq 1 .. clicks' BY <1>5
    <3>. QED BY <1>5, <2>1, <3>1, <3>2 DEF IndexKnown
  <2>3. BeingSetUp'
    <3>1. CASE Click BY <3>1 DEF Click, BeingSetUp
    <3>2. CASE Open BY <3>2 DEF Open, BeingSetUp
    <3>3. CASE OpenCodec
      <4>1. /\ clicks' = clicks /\ clicks \in Sessions /\ ui' = "player" /\ ui = "codec"
            /\ pFormatCtx' = pFormatCtx /\ opened' = opened /\ pCodecCtx' = pCodecCtx
            /\ pSwrCtx' = clicks /\ shared' = shared /\ ~crashed
        BY <3>3 DEF OpenCodec, TypeOK, ThreadsOK
      <4>2. IndexOf(clicks)' <=> IndexOf(clicks)
        BY <2>1, <4>1 DEF IndexOf, AudioStreams
      <4>. QED BY <4>1, <4>2 DEF ContextsInv, BeingSetUp
    <3>4. CASE OpenFails \/ ProbeFails \/ NotFound \/ CodecFails
      <4>1. ui' = "idle" BY <3>4 DEF OpenFails, ProbeFails, NotFound, CodecFails
      <4>. QED BY <4>1 DEF BeingSetUp
    <3>. QED BY <1>7, <3>1, <3>2, <3>3, <3>4 DEF OnClick
  <2>. QED BY <1>4, <2>2, <2>3 DEF ContextsInv
<1>. QED BY <1>6, <1>7

LEMMA StartContexts ==
    ASSUME TypeOK, ChainInv, ContextsInv, StartPlayer
    PROVE  ContextsInv'
<1>1. /\ ~crashed /\ ui = "player" /\ ui' = "callback" /\ clicks \in Sessions
      /\ cb' = [cb EXCEPT ![clicks] = "read"] /\ UNCHANGED <<track, clicks, globals, data, slq, shared>>
  BY DEF StartPlayer, TypeOK, ThreadsOK
<1>2. ASSUME ~shared, NEW s \in Sessions, s # clicks PROVE ~Playing(s)'
  <2>1. ~Playing(s) BY <1>1, <1>2 DEF ContextsInv, OnlyLast
  <2>. QED BY <1>1, <1>2, <2>1 DEF Playing, TypeOK, ThreadsOK
<1>3. OnlyLast' BY <1>1, <1>2 DEF OnlyLast
<1>4. IndexKnown' BY <1>1 DEF ContextsInv, IndexKnown, AudioStreams, globals
<1>5. BeingSetUp' BY <1>1 DEF BeingSetUp
<1>6. ASSUME ~shared PROVE InPlay(clicks)'
  <2>1. pFormatCtx = clicks /\ clicks \in opened /\ pCodecCtx = clicks /\ IndexOf(clicks)
        /\ pSwrCtx = clicks
    BY <1>1, <1>6 DEF ContextsInv, BeingSetUp
  <2>2. IndexOf(clicks)' BY <1>1, <2>1 DEF IndexOf, AudioStreams, globals
  <2>3. cb'[clicks] = "read" BY <1>1 DEF TypeOK, ThreadsOK
  <2>. QED BY <1>1, <2>1, <2>2, <2>3 DEF InPlay, globals
<1>7. ASSUME ~shared', NEW s \in Sessions PROVE InPlay(s)'
  BY <1>1, <1>2, <1>6, <1>7 DEF InPlay
<1>. QED BY <1>3, <1>4, <1>5, <1>7 DEF ContextsInv

LEMMA CallbackContexts ==
    ASSUME TypeOK, ChainInv, ContextsInv, NEW s \in Sessions, Callback(s) \/ BufferPlayed(s)
    PROVE  ContextsInv'
<1>. USE SessionNumbers DEF MoveCb, globals, data
<1>1. /\ shared' = shared /\ clicks' = clicks /\ track' = track /\ audio_index' = audio_index
      /\ (ui \in {"idle", "callback"} => ui' \in {"idle", "callback"})
      /\ \A t \in Sessions : t # s => cb'[t] = cb[t] /\ slq'[t] = slq[t]
  BY DEF Callback, ReadCrashes, Read, DecodeNothing, Decode, DecodeCrashes, Enqueue,
     EnqueueCrashes, EndOfFile, Close, BufferPlayed, TypeOK, ThreadsOK, QueuesOK
<1>2. Playing(s)
  BY DEF Callback, ReadCrashes, Read, DecodeNothing, Decode, DecodeCrashes, Enqueue,
     EnqueueCrashes, EndOfFile, Close, BufferPlayed, Playing
<1>3. IndexKnown' BY <1>1 DEF ContextsInv, IndexKnown, AudioStreams
<1>4. CASE shared
  BY <1>1, <1>3, <1>4 DEF ContextsInv, OnlyLast, BeingSetUp
<1>5. CASE ~shared
  <2>1. s = clicks /\ ui \in {"idle", "callback"} /\ InPlay(s)
    BY <1>2, <1>5 DEF ContextsInv, OnlyLast
  <2>2. ASSUME NEW t \in Sessions, t # s PROVE ~Playing(t)'
    <3>1. ~Playing(t) BY <1>5, <2>1, <2>2 DEF ContextsInv, OnlyLast
    <3>. QED BY <1>1, <2>2, <3>1 DEF Playing
  <2>3. OnlyLast' BY <1>1, <2>1, <2>2 DEF OnlyLast
  <2>4. BeingSetUp' BY <1>1, <2>1 DEF BeingSetUp
  <2>5. IndexOf(s)' <=> IndexOf(s) BY <1>1 DEF IndexOf, AudioStreams
  <2>6. InPlay(s)'
    <3>0. /\ pFormatCtx = s /\ s \in opened /\ pSwrCtx = s
          /\ (cb[s] # "close" => pCodecCtx = s /\ IndexOf(s))
          /\ (cb[s] = "decode" => pPacket.s = s) /\ (cb[s] = "enqueue" => pFrame.s = s)
          /\ (cb[s] # "idle" => slq[s] = <<>>)
      BY <1>2, <2>1, ChainSays DEF InPlay, ChainInv
    <3>1. ~ReadCrashes(s) BY <3>0 DEF ReadCrashes
    <3>2. CASE Read(s)
      <4>1. /\ UNCHANGED globals /\ pPacket'.s = s /\ cb'[s] \in {"read", "decode"}
            /\ cb[s] = "read"
        BY <3>0, <3>2 DEF Read, TypeOK, ThreadsOK
      <4>. QED BY <2>5, <3>0, <4>1 DEF InPlay
    <3>3. CASE DecodeNothing(s)
      <4>1. UNCHANGED globals /\ cb'[s] = "read" /\ cb[s] = "decode"
        BY <3>3 DEF DecodeNothing, TypeOK, ThreadsOK
      <4>. QED BY <2>5, <3>0, <4>1 DEF InPlay
    <3>4. CASE Decode(s)
      <4>1. UNCHANGED globals /\ cb'[s] = "enqueue" /\ cb[s] = "decode" /\ pFrame' = pPacket
        BY <3>4 DEF Decode, TypeOK, ThreadsOK
      <4>. QED BY <2>5, <3>0, <4>1 DEF InPlay
    <3>5. ~DecodeCrashes(s) BY <3>0 DEF DecodeCrashes
    <3>6. CASE Enqueue(s)
      <4>1. UNCHANGED globals /\ cb'[s] = "idle" /\ cb[s] = "enqueue"
        BY <3>6 DEF Enqueue, TypeOK, ThreadsOK
      <4>. QED BY <2>5, <3>0, <4>1 DEF InPlay
    <3>7. CASE EnqueueCrashes(s) \/ Close(s)
      <4>1. cb'[s] = "idle" /\ cb[s] # "idle" /\ slq' = slq
        BY <3>7 DEF EnqueueCrashes, Close, TypeOK, ThreadsOK
      <4>. QED BY <3>0, <4>1 DEF InPlay, Playing
    <3>8. CASE EndOfFile(s)
      <4>1. /\ cb'[s] = "close" /\ pFormatCtx' = pFormatCtx /\ opened' = opened
            /\ pSwrCtx' = pSwrCtx
        BY <3>8 DEF EndOfFile, TypeOK, ThreadsOK
      <4>. QED BY <3>0, <4>1 DEF InPlay
    <3>9. CASE BufferPlayed(s)
      <4>1. UNCHANGED globals /\ cb'[s] = "read" /\ cb[s] = "idle"
        BY <3>9 DEF BufferPlayed, TypeOK, ThreadsOK
      <4>. QED BY <2>5, <3>0, <4>1 DEF InPlay
    <3>. QED BY <3>1, <3>2, <3>3, <3>4, <3>5, <3>6, <3>7, <3>8, <3>9 DEF Callback
  <2>7. ASSUME NEW t \in Sessions PROVE InPlay(t)'
    BY <2>2, <2>6 DEF InPlay
  <2>. QED BY <1>1, <1>3, <1>5, <2>3, <2>4, <2>7 DEF ContextsInv
<1>. QED BY <1>4, <1>5

LEMMA NextContextsInv ==
    ASSUME TypeOK, ChainInv, ContextsInv, [Next]_vars
    PROVE  ContextsInv'
<1>1. CASE Next
  BY <1>1, TrackStays, SetupContexts, StartContexts, CallbackContexts DEF Next
<1>2. CASE UNCHANGED vars
  BY <1>2 DEF vars, globals, data, chain, ContextsInv, OnlyLast, IndexKnown, BeingSetUp, InPlay,
     Playing, IndexOf, AudioStreams
<1>. QED BY <1>1, <1>2

LEMMA InitContexts == Init => ContextsInv
BY DEF Init, ContextsInv, OnlyLast, IndexKnown, BeingSetUp, InPlay, Playing

ContextsInvariant == TypeOK /\ ChainInv /\ ContextsInv
LEMMA ContextsAlways == Spec => []ContextsInvariant
<1>1. Init => ContextsInvariant
  BY InitType, InitChain, InitContexts DEF ContextsInvariant
<1>2. ContextsInvariant /\ [Next]_vars => ContextsInvariant'
  BY NextType, NextChain, NextContextsInv DEF ContextsInvariant
<1>. QED BY <1>1, <1>2, PTL DEF Spec

\* Clicking only after the sound has ended is safe as far as the contexts go:
\* a callback works with those of its own session, and reads the first audio
\* stream of its file, or, in a file without one, a stream number left over
\* from an earlier file.
THEOREM ContextsOfItsOwn == Spec => []OwnContexts
<1>1. ContextsInvariant => OwnContexts
  <2>. SUFFICES ASSUME ContextsInvariant, ~shared, NEW s \in Sessions, cb[s] # "idle"
                PROVE  /\ pFormatCtx = s /\ s \in opened /\ pSwrCtx = s
                       /\ cb[s] # "close" => pCodecCtx = s /\ IndexOf(s)
                       /\ cb[s] = "enqueue" => pFrame.s = s
    BY DEF OwnContexts, IndexOf
  <2>1. Playing(s) /\ InPlay(s) BY DEF ContextsInvariant, ContextsInv, Playing
  <2>. QED BY <2>1 DEF InPlay
<1>. QED BY <1>1, ContextsAlways, PTL

(***************************************************************************)
(* The sound of a session that shares the contexts with nobody.            *)
(***************************************************************************)
\* Where the session is in its file.
InFile(s) ==
    /\ nread[s] <= Len(track[s].pkts)
    /\ cb[s] \in {"decode", "enqueue"} =>
           /\ nread[s] \in DOMAIN track[s].pkts /\ track[s].pkts[nread[s]] = audio_index
           /\ pPacket = [s |-> s, p |-> nread[s]]
    /\ cb[s] = "enqueue" => pFrame = pPacket /\ nread[s] \in Audio(s)
    /\ cb[s] = "close" => nread[s] = Len(track[s].pkts)
    /\ s \in ended => nread[s] = Len(track[s].pkts) /\ Underway(s) = {}
    /\ LostOf(s) \subseteq (1 .. nread[s]) \ Underway(s)

\* What its player got.
Given(s) ==
    /\ \A i \in DOMAIN sent[s] : sent[s][i].s = s
    /\ \A i, j \in DOMAIN sent[s] : i < j => sent[s][i].p < sent[s][j].p
    /\ Heard(s) = ((1 .. nread[s]) \cap Audio(s)) \ (LostOf(s) \union Underway(s))

SoundInv == ~shared => \A s \in Sessions : InFile(s) /\ Given(s)

LEMMA SoundSays == TypeOK /\ SoundInv => SoundInOrder
<1>. SUFFICES ASSUME TypeOK, SoundInv, ~shared, NEW s \in Sessions, s \in ended
              PROVE  Heard(s) = Audio(s) \ LostOf(s)
  BY DEF SoundInv, SoundInOrder, Given
<1>1. nread[s] = Len(track[s].pkts) /\ Underway(s) = {}
      /\ Heard(s) = ((1 .. nread[s]) \cap Audio(s)) \ (LostOf(s) \union Underway(s))
  BY DEF SoundInv, InFile, Given
<1>2. Audio(s) \subseteq 1 .. nread[s] BY <1>1, TrackTypes DEF Audio
<1>. QED BY <1>1, <1>2

\* A session whose reading, sounds and losses do not change keeps its facts.
LEMMA SoundRests ==
    ASSUME track' = track, NEW s \in Sessions, InFile(s), Given(s), nread'[s] = nread[s],
           cb[s] \notin {"decode", "enqueue"}, cb'[s] \in {cb[s], "idle", "read"},
           sent'[s] = sent[s], LostOf(s)' = LostOf(s), s \in ended' <=> s \in ended
    PROVE  InFile(s)' /\ Given(s)'
<1>1. Underway(s) = {} /\ Underway(s)' = {} BY DEF Underway
<1>2. Audio(s)' = Audio(s) BY DEF Audio, AudioStreams
<1>3. Heard(s)' = Heard(s) BY DEF Heard
<1>. QED BY <1>1, <1>2, <1>3 DEF InFile, Given

LEMMA SetupSound ==
    ASSUME TypeOK, ChainInv, ContextsInv, SoundInv, OnClick, track' = track
    PROVE  SoundInv'
<1>. SUFFICES ASSUME ~shared', NEW s \in Sessions PROVE InFile(s)' /\ Given(s)'
  BY DEF SoundInv
<1>1. ~shared /\ nread' = nread /\ UNCHANGED <<sent, lost, ended>>
  <2>1. ~shared
    BY Zenon DEF OnClick, Click, OpenFails, Open, ProbeFails, NotFound, Find, CodecFails,
       OpenCodec, StartPlayer
  <2>2. nread' = nread /\ UNCHANGED <<sent, lost, ended>>
    BY DEF OnClick, Click, OpenFails, Open, ProbeFails, NotFound, Find, CodecFails, OpenCodec,
       StartPlayer, MoveUI, data, history
  <2>. QED BY <2>1, <2>2
<1>2. cb[s] = "idle" /\ cb'[s] \in {"idle", "read"}
  <2>1. CASE Click
    BY <2>1 DEF Click, MoveUI, chain, Playing
  <2>2. CASE ~Click
    <3>1. ui \in Setup
      BY <2>2 DEF OnClick, OpenFails, Open, ProbeFails, NotFound, Find, CodecFails, OpenCodec,
         StartPlayer, MoveUI, Setup
    <3>2. cb[s] = "idle" BY <1>1, <3>1 DEF ContextsInv, OnlyLast, Playing, Setup
    <3>3. cb' = cb \/ cb' = [cb EXCEPT ![clicks] = "read"]
      BY <2>2 DEF OnClick, OpenFails, Open, ProbeFails, NotFound, Find, CodecFails, OpenCodec,
         StartPlayer, MoveUI, chain
    <3>. QED BY <3>2, <3>3 DEF TypeOK, ThreadsOK
  <2>. QED BY <2>1, <2>2
<1>3. LostOf(s)' = LostOf(s) BY <1>1 DEF LostOf
<1>. QED BY <1>1, <1>2, <1>3, SoundRests DEF SoundInv

\* The session reads a packet: of its audio stream, or of another.
LEMMA ReadSound ==
    ASSUME TypeOK, NEW s \in Sessions, InFile(s), Given(s), IndexOf(s), pFormatCtx = s, Read(s)
    PROVE  InFile(s)' /\ Given(s)'
<1>. DEFINE n == nread[s] + 1
<1>1. /\ n \in DOMAIN track[s].pkts /\ cb[s] = "read" /\ nread'[s] = n
      /\ pPacket' = [s |-> s, p |-> n] /\ UNCHANGED <<track, sent, lost, ended, audio_index>>
      /\ cb'[s] = IF track[s].pkts[n] = audio_index THEN "decode" ELSE "read"
      /\ nread[s] \in Nat /\ n \in Nat
  BY DEF Read, MoveCb, TypeOK, ThreadsOK, ContextsOK, globals, history
<1>2. Len(track[s].pkts) \in Nat /\ DOMAIN track[s].pkts = 1 .. Len(track[s].pkts)
  BY TrackTypes
<1>3. Underway(s) = {} /\ Underway(s)' = IF track[s].pkts[n] = audio_index THEN {n} ELSE {}
  BY <1>1 DEF Underway
<1>4. Heard(s)' = Heard(s) /\ LostOf(s)' = LostOf(s) /\ Audio(s)' = Audio(s)
  BY <1>1 DEF Heard, LostOf, Audio, AudioStreams
<1>5. n \in Audio(s) => track[s].pkts[n] = audio_index BY DEF Audio, IndexOf
<1>6. 1 .. n = (1 .. nread[s]) \union {n} /\ n \notin 1 .. nread[s] BY <1>1
<1>7. LostOf(s) \subseteq 1 .. nread[s] /\ s \notin ended
  BY <1>1, <1>2 DEF InFile
<1>8. InFile(s)'
  <2>1. nread'[s] <= Len(track'[s].pkts) BY <1>1, <1>2
  <2>2. LostOf(s)' \subseteq (1 .. nread'[s]) \ Underway(s)'
    BY <1>1, <1>3, <1>4, <1>6, <1>7
  <2>. QED BY <1>1, <1>7, <2>1, <2>2 DEF InFile
<1>9. Heard(s) = ((1 .. nread[s]) \cap Audio(s)) \ LostOf(s) BY <1>3 DEF Given
<1>10. Heard(s)' = ((1 .. nread'[s]) \cap Audio(s)') \ (LostOf(s)' \union Underway(s)')
  <2>. HIDE DEF n
  <2>. QED BY <1>1, <1>3, <1>4, <1>5, <1>6, <1>9
<1>. QED BY <1>1, <1>8, <1>10 DEF Given

\* The packet in work decodes to nothing.
LEMMA NothingSound ==
    ASSUME TypeOK, NEW s \in Sessions, InFile(s), Given(s), DecodeNothing(s)
    PROVE  InFile(s)' /\ Given(s)'
<1>1. /\ cb[s] = "decode" /\ cb'[s] = "read" /\ UNCHANGED <<track, sent, nread, ended>>
      /\ lost' = (lost \union {pPacket}) \ {NoSound} /\ pPacket = [s |-> s, p |-> nread[s]]
      /\ nread[s] \in DOMAIN track[s].pkts /\ nread[s] \in Nat
  BY DEF DecodeNothing, MoveCb, TypeOK, ThreadsOK, ContextsOK, InFile, data
<1>2. LostOf(s)' = LostOf(s) \union {nread[s]}
  <2>1. pPacket # NoSound /\ pPacket.s = s /\ pPacket.p = nread[s]
    BY <1>1, SessionNumbers DEF NoSound
  <2>2. \A y \in lost : y # NoSound
    BY SessionNumbers DEF TypeOK, QueuesOK, Sounds, NoSound
  <2>3. lost' = lost \union {pPacket} BY <1>1, <2>1, <2>2
  <2>. QED BY <2>1, <2>3 DEF LostOf
<1>3. Underway(s) = {nread[s]} /\ Underway(s)' = {} BY <1>1 DEF Underway
<1>4. Heard(s)' = Heard(s) /\ Audio(s)' = Audio(s) BY <1>1 DEF Heard, Audio, AudioStreams
<1>5. nread[s] \in 1 .. nread[s] BY <1>1, TrackTypes
<1>6. InFile(s)'
  <2>1. LostOf(s)' \subseteq 1 .. nread'[s] BY <1>1, <1>2, <1>5 DEF InFile
  <2>. QED BY <1>1, <1>3, <2>1 DEF InFile
<1>7. Heard(s)' = ((1 .. nread'[s]) \cap Audio(s)') \ (LostOf(s)' \union Underway(s)')
  BY <1>1, <1>2, <1>3, <1>4 DEF Given
<1>. QED BY <1>1, <1>6, <1>7 DEF Given

\* It decodes: then it is a packet of the first audio stream.
LEMMA DecodeSound ==
    ASSUME TypeOK, NEW s \in Sessions, InFile(s), Given(s), IndexOf(s), Decode(s)
    PROVE  InFile(s)' /\ Given(s)'
<1>1. /\ cb[s] = "decode" /\ cb'[s] = "enqueue" /\ UNCHANGED <<track, sent, nread, lost, ended>>
      /\ pFrame' = pPacket /\ pPacket' = pPacket /\ audio_index' = audio_index
      /\ pPacket = [s |-> s, p |-> nread[s]]
      /\ nread[s] \in DOMAIN track[s].pkts /\ track[s].pkts[nread[s]] = audio_index
  BY DEF Decode, MoveCb, TypeOK, ThreadsOK, ContextsOK, InFile, history, globals
<1>2. nread[s] \in Audio(s)
  <2>1. track[s].streams[audio_index] = "audio" /\ audio_index \in DOMAIN track[s].streams
    BY <1>1, TrackTypes DEF Decode, Audible
  <2>2. AudioStreams(s) # {} BY <2>1 DEF AudioStreams
  <2>. QED BY <1>1, <2>2 DEF IndexOf, Audio
<1>3. Underway(s)' = Underway(s) /\ Heard(s)' = Heard(s) /\ Audio(s)' = Audio(s)
      /\ LostOf(s)' = LostOf(s)
  BY <1>1 DEF Underway, Heard, Audio, AudioStreams, LostOf
<1>4. InFile(s)' BY <1>1, <1>2, <1>3 DEF InFile
<1>. QED BY <1>1, <1>3, <1>4 DEF Given

\* It is handed to the player, behind the earlier ones.
LEMMA EnqueueSound ==
    ASSUME TypeOK, NEW s \in Sessions, InFile(s), Given(s), Enqueue(s)
    PROVE  InFile(s)' /\ Given(s)'
<1>. DEFINE q == sent[s]
            r == sent'[s]
            n == nread[s]
<1>1. /\ cb[s] = "enqueue" /\ cb'[s] = "idle" /\ UNCHANGED <<track, nread, lost, ended>>
      /\ pFrame = [s |-> s, p |-> n] /\ n \in Audio(s) /\ n \in Nat /\ n \in 1 .. n
      /\ r = Append(q, pFrame) /\ q \in Seq(Sounds) /\ pFrame \in Sounds
  <2>1. nread[s] \in DOMAIN track[s].pkts /\ nread[s] \in Nat
    BY DEF Enqueue, MoveCb, InFile, TypeOK, ContextsOK
  <2>2. n \in 1 .. n BY <2>1, TrackTypes
  <2>. QED
    BY <2>1, <2>2 DEF Enqueue, MoveCb, TypeOK, ThreadsOK, ContextsOK, QueuesOK, InFile, data
<1>2. /\ DOMAIN q = 1 .. Len(q) /\ Len(q) \in Nat /\ DOMAIN r = 1 .. Len(q) + 1
      /\ r[Len(q) + 1] = pFrame /\ \A i \in 1 .. Len(q) : r[i] = q[i]
  BY <1>1, AppendProperties
<1>3. Underway(s) = {n} /\ Underway(s)' = {} /\ Audio(s)' = Audio(s) /\ LostOf(s)' = LostOf(s)
  BY <1>1 DEF Underway, Audio, AudioStreams, LostOf
<1>4. Heard(s) = {q[i].p : i \in DOMAIN q} /\ Heard(s)' = {r[i].p : i \in DOMAIN r}
  BY DEF Heard
<1>5. \A i \in DOMAIN q : q[i].p \in Nat /\ q[i].p < n /\ q[i].s = s
  <2>1. ASSUME NEW i \in DOMAIN q PROVE q[i].p \in 1 .. n /\ q[i].p # n
    <3>1. q[i].p \in Heard(s) BY <1>4
    <3>. QED BY <1>3, <3>1 DEF Given
  <2>. QED BY <1>1, <2>1 DEF Given
<1>6. n \notin LostOf(s) BY <1>3 DEF InFile
<1>. HIDE DEF q, r, n
<1>7. Heard(s)' = Heard(s) \union {n}
  <2>1. ASSUME NEW i \in DOMAIN r PROVE r[i].p \in Heard(s) \union {n}
    <3>1. CASE i = Len(q) + 1 BY <1>1, <1>2, <3>1
    <3>2. CASE i # Len(q) + 1
      <4>1. i \in DOMAIN q /\ r[i] = q[i] BY <1>2, <3>2
      <4>. QED BY <1>4, <4>1
    <3>. QED BY <3>1, <3>2
  <2>2. n \in Heard(s)'
    <3>1. Len(q) + 1 \in DOMAIN r /\ r[Len(q) + 1].p = n BY <1>1, <1>2
    <3>. QED BY <1>4, <3>1
  <2>3. ASSUME NEW i \in DOMAIN q PROVE q[i].p \in Heard(s)'
    <3>1. i \in DOMAIN r /\ r[i] = q[i] BY <1>2
    <3>. QED BY <1>4, <3>1
  <2>. QED BY <1>4, <2>1, <2>2, <2>3
<1>8. \A i \in DOMAIN r : r[i].s = s
  <2>1. ASSUME NEW i \in DOMAIN r PROVE r[i].s = s
    <3>1. CASE i = Len(q) + 1 BY <1>1, <1>2, <3>1
    <3>2. CASE i # Len(q) + 1 BY <1>2, <1>5, <3>2
    <3>. QED BY <3>1, <3>2
  <2>. QED BY <2>1
<1>9. \A i, j \in DOMAIN r : i < j => r[i].p < r[j].p
  <2>1. ASSUME NEW i \in DOMAIN r, NEW j \in DOMAIN r, i < j PROVE r[i].p < r[j].p
    <3>1. i \in DOMAIN q /\ r[i] = q[i] BY <1>2, <2>1
    <3>2. CASE j = Len(q) + 1 BY <1>1, <1>2, <1>5, <3>1, <3>2
    <3>3. CASE j # Len(q) + 1
      <4>1. j \in DOMAIN q /\ r[j] = q[j] BY <1>2, <3>3
      <4>. QED BY <2>1, <3>1, <4>1 DEF Given, q
    <3>. QED BY <3>2, <3>3
  <2>. QED BY <2>1
<1>10. InFile(s)'
  BY <1>1, <1>3 DEF InFile, n
<1>11. Heard(s)' = ((1 .. nread'[s]) \cap Audio(s)') \ (LostOf(s)' \union Underway(s)')
  <2>1. Heard(s) = ((1 .. n) \cap Audio(s)) \ (LostOf(s) \union {n}) BY <1>3 DEF Given, n
  <2>2. nread'[s] = n BY <1>1 DEF n
  <2>. QED BY <1>1, <1>3, <1>6, <1>7, <2>1, <2>2
<1>. QED BY <1>8, <1>9, <1>10, <1>11 DEF Given, r

LEMMA CallbackSound ==
    ASSUME TypeOK, ChainInv, ContextsInv, SoundInv, NEW s \in Sessions,
           Callback(s) \/ BufferPlayed(s), track' = track
    PROVE  SoundInv'
<1>0. shared' = shared
  BY DEF Callback, ReadCrashes, Read, DecodeNothing, Decode, DecodeCrashes, Enqueue,
     EnqueueCrashes, EndOfFile, Close, BufferPlayed, MoveCb
<1>. SUFFICES ASSUME ~shared PROVE \A t \in Sessions : InFile(t)' /\ Given(t)'
  BY <1>0 DEF SoundInv
<1>1. InFile(s) /\ Given(s) /\ Playing(s) /\ InPlay(s)
  BY DEF SoundInv, ContextsInv, Callback, ReadCrashes, Read, DecodeNothing, Decode,
     DecodeCrashes, Enqueue, EnqueueCrashes, EndOfFile, Close, BufferPlayed, MoveCb, Playing
<1>2. /\ pFormatCtx = s /\ s \in opened /\ pSwrCtx = s
      /\ cb[s] # "close" => pCodecCtx = s /\ IndexOf(s)
  BY <1>1 DEF InPlay
<1>3. ASSUME NEW t \in Sessions, t # s PROVE InFile(t)' /\ Given(t)'
  <2>1. cb[t] = "idle"
    BY <1>1, <1>3 DEF ContextsInv, OnlyLast, Playing
  <2>2. cb'[t] = cb[t] /\ sent'[t] = sent[t] /\ (t \in ended' <=> t \in ended)
    BY <1>3 DEF Callback, ReadCrashes, Read, DecodeNothing, Decode, DecodeCrashes, Enqueue,
       EnqueueCrashes, EndOfFile, Close, BufferPlayed, MoveCb, TypeOK, ThreadsOK, QueuesOK, history
  <2>3. nread'[t] = nread[t]
    BY <1>2, <1>3 DEF Callback, ReadCrashes, Read, DecodeNothing, Decode, DecodeCrashes, Enqueue,
       EnqueueCrashes, EndOfFile, Close, BufferPlayed, data, TypeOK, ContextsOK
  <2>4. LostOf(t)' = LostOf(t)
    <3>1. CASE DecodeNothing(s)
      <4>1. pPacket.s = s /\ lost' = (lost \union {pPacket}) \ {NoSound}
        BY <1>1, <3>1 DEF DecodeNothing, MoveCb, InFile
      <4>2. \A y \in lost : y # NoSound
        BY SessionNumbers DEF TypeOK, QueuesOK, Sounds, NoSound
      <4>3. {y \in lost' : y.s = t} = {y \in lost : y.s = t} BY <1>3, <4>1, <4>2
      <4>. QED BY <4>3 DEF LostOf
    <3>2. CASE ~DecodeNothing(s)
      <4>1. lost' = lost
        BY <3>2 DEF Callback, ReadCrashes, Read, Decode, DecodeCrashes, Enqueue,
           EnqueueCrashes, EndOfFile, Close, BufferPlayed, history
      <4>. QED BY <4>1 DEF LostOf
    <3>. QED BY <3>1, <3>2
  <2>5. InFile(t) /\ Given(t) BY DEF SoundInv
  <2>. QED BY <2>1, <2>2, <2>3, <2>4, <2>5, SoundRests
<1>4. InFile(s)' /\ Given(s)'
  <2>1. ~ReadCrashes(s) BY <1>2 DEF ReadCrashes
  <2>2. CASE Read(s)
    <3>1. IndexOf(s) BY <1>2, <2>2 DEF Read, MoveCb
    <3>. QED BY <1>1, <1>2, <2>2, <3>1, ReadSound
  <2>3. CASE DecodeNothing(s) BY <1>1, <2>3, NothingSound
  <2>4. CASE Decode(s)
    <3>1. IndexOf(s) BY <1>2, <2>4 DEF Decode, MoveCb
    <3>. QED BY <1>1, <2>4, <3>1, DecodeSound
  <2>5. ~DecodeCrashes(s)
    BY <1>2, SessionNumbers DEF DecodeCrashes, MoveCb
  <2>6. CASE Enqueue(s) BY <1>1, <2>6, EnqueueSound
  <2>7. ~EnqueueCrashes(s)
    <3>1. cb[s] = "enqueue" => pFrame # NoSound
      BY <1>1, SessionNumbers DEF InFile, NoSound
    <3>. QED BY <1>2, <3>1, SessionNumbers DEF EnqueueCrashes, MoveCb
  <2>8. CASE EndOfFile(s)
    <3>1. /\ cb[s] = "read" /\ cb'[s] = "close" /\ UNCHANGED <<nread, sent, lost, ended>>
          /\ nread[s] = Len(track[s].pkts)
      BY <1>2, <2>8 DEF EndOfFile, MoveCb, TypeOK, ThreadsOK, history
    <3>2. /\ Underway(s) = {} /\ Underway(s)' = {} /\ Heard(s)' = Heard(s)
          /\ LostOf(s)' = LostOf(s) /\ Audio(s)' = Audio(s)
      BY <3>1 DEF Underway, Heard, LostOf, Audio, AudioStreams
    <3>. QED BY <1>1, <3>1, <3>2 DEF InFile, Given
  <2>9. CASE Close(s)
    <3>1. /\ cb[s] = "close" /\ cb'[s] = "idle" /\ UNCHANGED <<nread, sent, lost>>
          /\ ended' = ended \union {s}
      BY <2>9 DEF Close, MoveCb, TypeOK, ThreadsOK, data
    <3>2. /\ Underway(s) = {} /\ Underway(s)' = {} /\ Heard(s)' = Heard(s)
          /\ LostOf(s)' = LostOf(s) /\ Audio(s)' = Audio(s)
      BY <3>1 DEF Underway, Heard, LostOf, Audio, AudioStreams
    <3>. QED BY <1>1, <3>1, <3>2 DEF InFile, Given
  <2>10. CASE BufferPlayed(s)
    <3>1. cb[s] = "idle" /\ cb'[s] = "read" /\ UNCHANGED <<nread, sent, lost, ended>>
      BY <2>10 DEF BufferPlayed, TypeOK, ThreadsOK, data, history
    <3>2. LostOf(s)' = LostOf(s) BY <3>1 DEF LostOf
    <3>. QED BY <1>1, <3>1, <3>2, SoundRests
  <2>. QED BY <2>1, <2>2, <2>3, <2>4, <2>5, <2>6, <2>7, <2>8, <2>9, <2>10 DEF Callback
<1>. QED BY <1>3, <1>4

LEMMA InitSound == Init => SoundInv
<1>. SUFFICES ASSUME Init, NEW s \in Sessions PROVE InFile(s) /\ Given(s)
  BY DEF SoundInv
<1>1. cb[s] = "idle" /\ nread[s] = 0 /\ sent[s] = <<>> /\ lost = {} /\ ended = {} BY DEF Init
<1>2. Len(track[s].pkts) \in Nat BY InitType, TrackTypes
<1>3. Underway(s) = {} /\ LostOf(s) = {} /\ Heard(s) = {} BY <1>1 DEF Underway, LostOf, Heard
<1>. QED BY <1>1, <1>2, <1>3 DEF InFile, Given

\* A session that shares the contexts with nobody hands its player the sounds
\* of its own first audio stream in their order, none twice, and none left out
\* but those the decoder refused; at its end that is the whole stream.
THEOREM WholeSoundInOrder == Spec => []SoundInOrder
<1>1. Init => SoundInv
  BY InitSound
<1>2. ContextsInvariant /\ SoundInv /\ [Next]_vars => SoundInv'
  <2>1. ASSUME SoundInv, UNCHANGED vars PROVE SoundInv'
    <3>1. UNCHANGED <<track, cb, nread, pPacket, pFrame, audio_index, sent, lost, ended, shared>>
      BY <2>1 DEF vars, globals, data, chain, history
    <3>2. ASSUME NEW s \in Sessions
          PROVE  /\ Underway(s)' = Underway(s) /\ Heard(s)' = Heard(s)
                 /\ LostOf(s)' = LostOf(s) /\ Audio(s)' = Audio(s)
      BY <3>1 DEF Underway, Heard, LostOf, Audio, AudioStreams
    <3>3. ASSUME NEW s \in Sessions, InFile(s), Given(s) PROVE InFile(s)' /\ Given(s)'
      BY <3>1, <3>2, <3>3 DEF InFile, Given
    <3>. QED BY <2>1, <3>1, <3>3 DEF SoundInv
  <2>2. ASSUME ContextsInvariant, SoundInv, Next PROVE SoundInv'
    BY <2>2, TrackStays, SetupSound, CallbackSound DEF ContextsInvariant, Next
  <2>. QED BY <2>1, <2>2
<1>3. ContextsInvariant /\ SoundInv => SoundInOrder
  BY SoundSays DEF ContextsInvariant
<1>. QED BY <1>1, <1>2, <1>3, ContextsAlways, PTL DEF Spec
=============================================================================
