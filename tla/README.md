# FFmpegAndroid: TLA+ models and proofs

The application is a collection of demos around FFmpeg: thin Java activities
whose *Start* buttons call native functions of one JNI library. The program's
own logic is in `src/jni/ffmpegHelper/com_ring0_ffmpeg_FFmpegHelper.cpp`, called
**H** below with line numbers. Around it are `yuv/simple_yuv.cpp`, the small
helpers `openglHelper` and `openslHelper`, and the sound effects in `effect/`,
which nothing calls. FFmpeg, x264, x265, libvpx and cpu-features are vendored,
and so is the directory `ffmpegHelper/ffmpeg`, which is FFmpeg's command line
program. The repository has no documentation and no tests; what it says about
itself are comments, log lines and labels, and the two findings quote them.

## 1. Inventory

| Component | Where | State | Operations | Status |
|---|---|---|---|---|
| Media player, one session | H:3792-4249 | `PlayerContext`: mutex, `video_queue`, `audio_queue`, `video_pkt`, `audio_pkt`, `audio_pts`, `yuv`; OpenSL buffer queue | init, play, `video_thread`, `audio_thread`, `opensles_callback`, renderer | modelled |
| Media player, further sessions | H:3792-4249, libavcodec/utils.c:3870-3942 | `pGlobalCtx`, `vm`, `l_sl_*`, the lock manager of libavcodec | a second click on *Start* | modelled |
| Simple player | H:805-1148 | file-wide `frames`, `mutex`, `frame_width`, `frame_height`, textures | init, decode and flush, renderer | modelled |
| Audio player | H:1386-1522 | file-wide contexts, packet, frame, `audio_index`; OpenSL queue | open, callback, stereo switch | all but the stereo switch |
| Muxer | H:2696-2861 | `current_pts_v`, `current_pts_a`, `frame_index` | one loop | modelled |
| Decoder jobs | H:384-602, 1150-1259, 3252-3334, 3557-3639, 3690-3790 | decoder, counters | six loops | modelled |
| Encoder jobs, converters | H:1261-1352, 1524-2056 | encoder, packet, counters | six loops | modelled |
| Remuxer, demuxers, pusher, puller | H:2058-2141, 2498-2694, 3365-3555, libavformat/mux.c:471-1367 | stream tables, packets waiting in the output | packet copying, interleaving | modelled |
| Memory reader and writer | H:2863-3168 | two `FILE`s, AVIO contexts | callbacks, closing | not modelled |
| PCM player, OpenSL helper | H:3641-3688, openslHelper | queued buffer | callback | not modelled |
| Raw YUV, RGB, PCM operations | H:603-803, simple_yuv.cpp | none | pure functions on files | not modelled |
| OpenSL engine | H:371-380, 1354-1384 | handles | load, unload | not modelled: straight-line |
| OpenGL helper, YUV player | openglHelper | texture names | set up, draw | not modelled: straight-line |
| Filters, device capture, scaler | H:2143-2496 | inside the libraries | read, filter, write | not modelled: the behaviour is the library's |
| Sound effects | effect/ | delay lines | none is called | not modelled |
| FFmpeg command line | H:3336-3363, ffmpegHelper/ffmpeg | third-party | | not modelled |
| Activities | src/src/com/ring0 | text fields | validate and call | only the `onClick` of the modelled players |

How they interact. An activity calls a native function, some in a thread of
their own, some on the UI thread. The three players call back: native code asks
Java for `requestRender()`, the GL thread then calls the native renderer, and
OpenSL calls a native callback each time a buffer was played. Sessions of the
same player share file-wide variables. Nothing else runs concurrently: all other
functions are sequential loops over a file.

What is hard in this code: two decoding threads, a demuxing thread, the OpenSL
thread and the GL thread around one mutex; a callback that first runs on the
thread that starts it; clicks that reset shared variables, and even the mutex,
under running threads; time stamps that belong to another picture; redraw
requests that coalesce; decoders and encoders that hold pictures back and are
drained in five different ways; ends of files that are noticed one turn late;
sessions that replace each other's lock manager, sound player and context;
outputs in which packets of several streams wait for each other.
`PROJECT.json` lists every such hazard at its line, with the properties that
would notice it, or the reason why none does yet.

## 2. Modules

| Module | Models | Checked by | Proved in |
|---|---|---|---|
| `MediaPlayer` | one session of the media player | `MCMediaPlayer` | `MediaPlayerProofs` |
| `AVSync` | what its user may rely on (abstract) | `KeepsPromise` of `MediaPlayer` | `MediaPlayerProofs` |
| `PlayerSessions` | what several sessions of the media player share | `MCPlayerSessions` | `PlayerSessionsProofs` |
| `SimplePlayer` | all sessions of the simple player | `MCSimplePlayer` | `SimplePlayerProofs` |
| `AudioPlayer` | all sessions of the audio player | `MCAudioPlayer` | `AudioPlayerProofs` |
| `Muxer` | the muxer | `MCMuxer` | `MuxerProofs` |
| `Decoders` | six decoding loops | `MCDecoders` | `DecodersProofs` |
| `Encoders` | six encoding loops | `MCEncoders` | `EncodersProofs` |
| `PacketCopy` | five copying jobs and the interleaving of libavformat | `MCPacketCopy` | `PacketCopyProofs` |

Definitions called `X_Something` are mutated forms of `X`. Nothing uses them;
each shows that a property would notice the slip it stands for.

**MediaPlayer.** A thread is a program counter `pc[t]`; `owner` holds the mutex.
Taking the mutex (`VideoLock`, `PutLock`, ...) and the critical section that ends
in its release (`VideoPop`, `Put`, ...) are one step each, so every interleaving
of lock, section and the code between two sections is there. A packet is its
position in the file and has a place `At` on the time line; what the code sees is
`Pts`, which for a packet without a time is `AV_NOPTS_VALUE` times the time base,
a time far below 0 (`None`), since neither H:4079 nor H:4131 asks. `play` opens the file, publishes the context, starts the
threads, runs the first callback itself and then demuxes. The decoder keeps
back `delay` pictures, a property of the container, and gives out the earliest; `Label` is the time of the
packet fed last (H:4079), which is not that of the picture. `RenderEmpty` and
`RenderDue` start from `front()` being read before `empty()` (H:4225). `slq` is
the buffer queue of OpenSL, with the mark that a queued buffer has already been
freed. `crashed` ends everything.

**AVSync** has three variables the user can perceive, clock, sounds, pictures,
and two actions, `Sound` and `Show`. The refinement maps the clock to
`audio_pts`, the sounds to what was handed towards OpenSL, the pictures to what
the renderer took; all other steps stutter. `Sound` may set the clock back only if
the file has a sound packet without a time or with one before that of its
predecessor (`SoundForward`), and `Show` needs the clock to have reached the label
of the picture or of a later one, which for a packet without a time it always has.

**PlayerSessions** is composed with `MediaPlayer` by division of work: packets,
clocks and pictures of one session are there, and here a session is only what it
does to the four things all sessions share. `ClearVM` and `StartSession` are the
two halves of init, between which a running `video_thread` finds no Java VM
(`VideoNotify`). `DestroyLock`, `CreateLock`, `AssignLock` are the assignments of
`av_lockmgr_register`, `FetchLock` to `Leave` those of `ff_lock_avcodec` and
`ff_unlock_avcodec` around each `avcodec_open2`, with their assertions and with
"Insufficient thread locking" (`Entangled`). `CreateAudioPlayer` to
`FirstCallback` are the calls of `init_opensles`, each through the handles that are
in `l_sl_*` at that moment. `DrawFrame` to `RenderUpload` are the accesses of the
renderer to `pGlobalCtx`, which it reads anew each time. `races` remembers which of
the four things two sessions have used at the same time; each property says what
holds as long as one of them was not.

**SimplePlayer.** `Click` to `StartThread` are the statements of init and of
`onClick` one by one, because each writes a variable other threads are using;
`InitMutex` frees a held mutex. `evicted` remembers that this happened while
somebody was inside, `raced` that two threads then operated on the list at once:
from there the list is anything, and only the properties that do not need it
continue to be asked.

**AudioPlayer.** The file-wide contexts are the number of the session that made
them, or null. `StartPlayer` runs the first callback on the UI thread. `shared`
remembers that a click came while another session was playing; a callback then
uses contexts of another file, and may crash. `audio_index` is file-wide too and no
click resets it, so a silent file is opened through the stream number of the file
before it; `OwnContexts` says which stream a session then plays.

**Muxer.** `Choose`, `Take`, `Write` are the steps of the loop; `ToInt` is the
64-bit time kept in an `int` (H:2807). An audio stream has no frame rate, so the
duration the code computes for its packets may be any integer. The time made up for
a packet is a quotient of doubles converted to an integer (H:2801, 2822):
`Truncated` gives the quotient without its fraction, or one less where the division
comes out even, as the divisor is rounded. At 30 frames a second and a time base of
1/30 the first times are 0, 0, 1, 2.

**Decoders** and **Encoders** have one variable `job` and one action per branch
of the loops, with guards that say which jobs have the branch. A decoder or
encoder is a queue that gives something back once it holds `delay` items; the
numbers in it are those of the order in which things come out. What a drain
feeds is part of the model: an empty packet (`DrainEmpty`), the last packet
again (`DrainAgain`, since `av_read_frame` leaves `pPacket` untouched at the end
of a file), the last frame again (`DrainEncoded`), or nothing. `packet` in
`Encoders` is what is offered to the encoder: a packet that brings room (`"room"`,
the first of a job that calls `av_new_packet`), one that brings none (`"null"`), or
one that nothing has set up (`"wild"`). A call that makes no packet or fails releases
what it was offered and leaves a null packet (libavcodec/utils.c:2047-2048), and the
job frees the packets it got, so the next call brings its own room (`PacketAfter`).
The packet of the video job is a local variable whose data and size are never set
(H:1619-1621), and the packet of the encoder job comes from `av_malloc` and is set up
only in the loop (H:1306, 1320): a file without a frame drains into it (`Wild`).
There is no frame to drain then either, but one without size, format or time.

**PacketCopy** has one variable `job`, as the loops above. `Submit` hands a packet
to the output: `compute_muxer_pkt_fields` refuses a time that goes back
(`Backwards`) or makes one up, and `Insert` puts the packet among those that wait.
`Interleave` and `Trailer` take the first packet out of the buffer, when every
stream has one there, when one is too far ahead of the first (`TooFar`), or at the
end, and write it after the header if that was deferred. A format is what
libavformat asks of a muxer: time base per kind, whether it needs times and rising
ones, which streams its header accepts, and when it is written. The pusher makes up
both times of a packet that has no presentation time, even if it has a decoding time
(H:3428-3431); the made up times are truncated quotients, here any times (`made`). It uses
`av_write_frame`, which does not wait. `forced` remembers that the order was given
up for an output.

## 3. Runs

| Run | Instance | Distinct states | Shows |
|---|---|---|---|
| `session_safety` | eight containers of at most five packets, two with decoder delay 1, one of them with reordered pictures, two with packets without times, one rejected packet, undefined behaviour survives or crashes | 1.28 M | mutex, conservation and order of packets, buffer chain, lateness, `KeepsPromise` |
| `session_liveness` | three packets, fair threads | 60 k | `SoundPlayed`, `DuePictureShown` |
| `silence` | the same | violation | finding 1 |
| `simple_player` | two clicks, two clips of different size, delay 1 | 573 k | mutex, conservation, order, flush, no overrun |
| `simple_player_liveness` | one click | 4.6 k | every request draws |
| `audio_player` | two clicks, all pairs of four files | 141 k | buffer chain, order and completeness of sound, contexts, the track ends |
| `muxer` | all pairs of files of up to three and two packets, with and without times, foreign packets, divisions that come out even and not | 182 k | copies, interleaving, what is lost, stamps, end |
| `decoders` | all files of up to four packets, six jobs, limits 0 to 4, delays 0 to 2 | 88 k | order, exact counts |
| `decoder_flush` | the same | violation | finding 2 |
| `encoders` | files of up to four frames, whole or cut, delays 0 to 3 | 4.8 k | each frame once, stamps, the drain gets all out |
| `player_sessions` | two clicks on five pairs of files, one kind of collision per behaviour | 3.3 M | the lock of `avcodec_open2`, mutexes, the sound of each session, what can kill the process |
| `packet_copy` | five jobs, seven arrangements of up to three streams, all files of up to four packets with both times, one or none, three formats | 1.70 M | copies, order, how much waits, headers, what can kill the process |

Bounds and why they are enough. `delay`: 1 is the smallest value at which
pictures are held, reordered and labelled wrongly; the decoding jobs, whose
counting depends on the delay, get up to 2, the encoding jobs up to 3.
`MaxLost = 1`: one rejected packet exercises the error branch at every position.
`Clicks = 2`: two sessions already overlap in every phase, and a third would only
repeat the pairwise sharing. The containers cover each shape the code
distinguishes: both streams, one of them, a foreign packet, a picture later than
all sound, an early or late first sound, a picture labelled by a packet without a
time, a sound without a time. `IntSpan = 16` makes times overflow
within three packets; nothing but the ratio of the times to it matters.
`MaxRaces = 1`: each property of `PlayerSessions` concerns behaviours without one
kind of collision, so a behaviour with another kind is enough to show that the
kinds do not cause each other's harm; behaviours with two kinds at once are left
out. Its files are pairs in which at most one reaches the players, so that opening
and playing do not multiply each other, and one pair in which both do. `MaxPics = 1`
tells an empty list from one that is not. In `PacketCopy`, four packets on two
streams (three on three) suffice for a packet to wait, to be overtaken, to be too
far ahead (`MaxDelta = 4` ticks against times up to 12 ticks) and to be left at the
end; time bases of 1 to 4 ticks make both directions of rounding happen. The three
formats differ in when the header is written, in whether equal times are allowed, and
in whether the header can be refused after packets have begun to wait.
`MaxCopies` stops the endless drain of the encoder job after it has written two
copies too many. `UB` is the set of outcomes of undefined behaviour in a build:
the process survives, or it crashes; the liveness run of the media player uses
only "survive", since after a crash nothing is owed. `CHECK_DEADLOCK FALSE` is
set everywhere, because sessions and jobs end, files run out and processes crash.

Fairness. The threads of the media and the simple player block on nothing but
one mutex, which is held for a few statements; bionic wakes waiters, the kernel
schedules every thread: strong fairness per thread says that a thread that finds
the mutex free again and again gets it. OpenSL goes on playing what is queued:
weak fairness of `BufferPlayed`. The callback of the audio player waits for
nobody, so weak fairness suffices. No click is ever owed. The sequential loops
have weak fairness of `Next`.

## 4. Findings

1. `SilenceIsSilent` (H:4201). The callback's comment says it queues empty data,
   silence; the buffer is freed before it has been played, as the queue keeps the
   pointer only.
2. `FlushedFramesSaved` (H:1238). The loop that logs "flush decoder frame" and is
   commented "save y" calls `fread` where the writing loop calls `fwrite`.

Also visible in the models, without a line of the repository that says
otherwise: `play` of the media player gives `pthread_join` addresses
instead of threads (H:4035); the pixel formats of `decoderVideoToYuv` other than
three of the ten offered are decoded and not written (H:459-480); the drain of
the encoder job feeds frames and so ends only when the encoder fails (H:1334);
and, if the file has no frame, it drains into a packet nobody has set up (H:1306); a
packet without a time makes a picture due at once (H:4079), or sets the clock of the
media player far back, so that pictures wait for the next sound (H:4131), although
the muxer and the pusher ask for `AV_NOPTS_VALUE` (H:2798, 3428); `yuv420p_to_h265` asks for an output format "libx265", which no muxer
has, and uses the null pointer it gets (H:1968); a file without an audio stream passes
the check "not found audio stream" of the audio player once a file with one has been
played, since `audio_index` is file-wide (H:1483); `demuxer2` writes no video if the
input has two video streams, because an h264 file takes one, and puts the last
audio stream under the header of the first (H:2615-2635); the pusher sends nothing
unless the video is stream 0 (H:3461, where the assignment of the stream index is
commented out); the remuxer crashes on a stream that is announced late (H:2117) and
copies nothing, or crashes, when the output format refuses the header (H:2106); two
clicks that overlap can leave one player with the callback of the other session, or
bring the process down at four places (`OnlyRacesKill`); `simple_ffmpeg_decoder` throws
away the rest of a piece of 4096 bytes whenever a packet yields no picture
(H:1207).

## 5. Proofs

TLAPS checks every theorem for all values of the constants that satisfy the named
assumptions of the modules. These fix the types of the constants and a few things
the code and the libraries give: a packet belongs to a stream of its file
(`TracksAssumption` of `AudioPlayer`, `FilesAssumption` of `PacketCopy`), time bases
and the interleaving limit are positive, `AV_NOPTS_VALUE` is below every time
(`MediasAssumption` of `MediaPlayer`), a packet with a presentation time has a
decoding time and there is a made up time for each packet that may need one
(`FilesAssumption` of `PacketCopy`), and the header of an flv file is written
at once (`FormatsAssumption`). Every safety invariant and action property that a passing run
checks is the statement of a theorem, with one exception given below.

| Theorem | Property | Argument |
|---|---|---|
| `TypeCorrect` | `TypeOK` of `MediaPlayer` | inductive as a conjunction of four parts (`PcsOK`, `SessionOK`, `QueuesOK`, `HandsOK`); the last, that a thread with work to do on a packet holds one, is what makes the queues stay typed |
| `MutexHeld` | `LockDiscipline` | inductive on top of the types; one lemma for each way a step treats the mutex |
| `ChainUnbroken` | `OneBufferChain` | inductive with the types, which say that the threads a callback needs are not yet born before `Spawn` |
| `PicturesNeverEarly` | `NeverEarly` | `LabelInv`: a picture's own time is never later than that of the packet that labels it, because the decoder gives out its earliest picture; the renderer compares the label, which is the time of that packet unless it has none |
| `SoundComplete` | `AudioFifo` | `FifoInv`: what is at rest is in nobody's hands (`HandsIdle`); every step but three leaves the audio line as it is, those three add a packet at its end or take one out |
| `PicturesComplete` | `VideoConserved` | the same invariant: what has not reached the decoder is in demuxing order and later than what it holds, so that a packet that is fed is new to everything behind it |
| `KeepsItsPromise` | `KeepsPromise`, the refinement of `AVSync` | a callback that takes a sound is `Sound`, `RenderDue` is `Show`, all else stutters; `OrderInv`: if the delay suffices to put the pictures in order, what the decoder gives out is not later than anything still to come, by counting the pictures that overtake (`NoneLeftBehind`); `ClockInv`: the clock shows the stamp of the last sound, so that with `AudioFifo` it goes forward if the stamps do |
| `SimpleTypeCorrect` | `TypeOK` of `SimplePlayer` | inductive |
| `SimpleMutexHeld` | `Exclusive` | `HoldersInv`: sessions not yet clicked are unborn, and while nobody was evicted the lock is held exactly by the one thread that is inside; then a lemma that counts holders |
| `UploadsStayInside` | `NoOverrun` | `SizesInv`: for each phase of the GL thread, which of the frame size, the texture and the picture bound one another, whatever init resets meanwhile |
| `NoPictureLost` | `PicturesConserved` | `ConservedInv`: with `SessionsInv` (a thread holds a picture exactly between the decoder and the list), the line of all pictures sent changes only by `Push`, and pushes a picture that was nowhere else |
| `FlushLeavesNone` | `FlushComplete` | the same invariant: a session that is done has read all and its decoder is empty |
| `PicturesInTurn` | `PicturesInOrder` | `OrderInv`, with what is still inside the decoder or unread: nothing sent is later than that; the counting argument of `KeepsItsPromise` for every session |
| `AudioTypeCorrect` | types of `AudioPlayer` | inductive in three parts |
| `OneBufferAtATime` | `OneBufferEach` | `ChainInv`: a session that was not started has neither buffer nor callback |
| `ContextsOfItsOwn` | `OwnContexts` | `ContextsInv`: while nothing is shared only the last session plays, the contexts are its own as far as it has been set up, and `audio_index` comes from a file that was opened |
| `WholeSoundInOrder` | `SoundInOrder` | `SoundInv`: what a player was handed is what was read and belongs to its stream, less what was lost and what is under way |
| `MuxerTypeCorrect` | `TypeOK` of `Muxer` | inductive; `ToIntRange` for the `int` times |
| `MuxerCopies` | `CopiedInOrder` | `CopyInv`: with it, what is about to be written is the last packet read |
| `MuxerInterleaves` | `Interleaved` | `OrderInv`, for files with proper times: nothing still to come is earlier than `current_pts` of its side, nothing written is later (`Reading`); a side is read only when it is behind (`Behind`); `Scaling` carries comparisons from one time base to another |
| `MuxerLosesTailOnly` | `OnlyTailLost` | from the same invariant `MuxerInv` at the end of the loop |
| `MuxerStampsRise` | `RawStampsRise` | `RawInv`: each stamp was made up for a value of the shared counter below the next (`Below`), and truncated quotients keep the order of what is divided, strictly if they are more than one unit apart; the counter counts the packets of a stream that is alone on it (`Alone`) |
| `DecodersTypeCorrect` | types of `Decoders` | inductive in parts |
| `PicturesWrittenInOrder` | `WrittenInOrder` | `LineInv`: what is written and what the decoder holds form one line; while a job runs the line is in turn and, but for the job that cuts its file into pieces, holds all good packets so far |
| `NoneMissing` | `AsManyAsDecoded` | `CountInv` ties the counters of the code (`dec_cnt`, `skip_frame`, the turns of the drain) to the lengths of the parts of that line |
| `EncodersTypeCorrect` | types of `Encoders` | inductive |
| `FramesAllOnce` | `EachFrameOnce` | `FramesInv`: the frames written and held are numbered without gap, and are as many as were fed |
| `StampsDoRise` | `StampsRise` | `StampsInv`: a frame has the time the count had when it was fed, which for the encoder job lags by at most the delay (`DueRises`) |
| `MutexesHold` | `MutexesKept` | `MutexInv`: before a context collision a list mutex is held exactly by the one thread in its lists, and the GL thread is inside the list it locked |
| `CodecsOpenAlone` | `OpensAlone` | `LockInv`: `ManagerInv` (the manager and its mutex while nobody replaced it) and `InsideInv` (who is between obtaining and leaving) |
| `SessionsSound` | `SoundKept`, if there was no player collision | `PlayersInv`: `BuildInv` (the handles are those of the one session that builds) and `ChainInv` (one buffer or callback for each session from the first callback on) |
| `CalmSessionsLive` | `OnlyRacesKill` | `SessionsInv`: the three above and `SizesInv`; a step can end the process only where one of them fails, and each fails only after its collision |
| `CopyTypeCorrect` | types of `PacketCopy` | inductive: the streams of an output were found in the input, and what waits has a time |
| `KnownCrashesOnly` | `OnlyKnownCrashes` | `HeaderInv`: an output that has streams is prepared unless its header was refused, and nothing is written before it |
| `UnderOwnHeader` | `OwnHeader` | every packet that is written or waits is known: read, sent there, under the number of its stream; numbers and streams correspond one to one unless `demuxer2` met several of a kind |
| `CopiesInOrder` | `InOrder` | `OrderInv`: what waits is sorted (`BufferSorted`), the last time of each stream bounds its packets (`CurLast`), and what was written while nothing had to leave is not later than what waits or is still to come (`FileSorted`); `Insert` keeps both orders |
| `WaitsAreBounded` | `BufferBounded` | `BoundInv`: an output that is not being served was found not due when it was served last; with the order of the buffer, the last packets of the streams tell how far all are apart |
| `NothingLostOrDoubled` | `CopiedOnce` | `OnceInv`: a packet sent to an output that can be reached is in it, waits, or was overtaken (`Kept`), a packet with the last time of its stream is still there (`LastIsThere`), and the trailer leaves none (`Ending`) |

The invariants the runs check are not inductive by themselves: `NeverEarly`
speaks of a step and needs the label of pictures in the list; `Exclusive` counts
holders and needs to know who they are; `NoOverrun` depends on how far the GL
thread has come; `Interleaved`, `PicturesInOrder` and `InOrder` need what is still
to be read or to leave; `AsManyAsDecoded` speaks of the end and needs the counters
on the way there; `BufferBounded` speaks of the moment of reading and needs what
happened to the output when it was served before.

One property changed because its proof failed. `BufferBounded` used to say of every
output that some stream has none waiting when the next packet is read. If a header
is written late and refused, the packet that meets the refusal is lost and
the job reads on (mux.c:759-775), however many others could leave; the property now
excludes such outputs, and the third format of `packet_copy` reaches them.

Only model-checked: all liveness (`SoundPlayed`, `DuePictureShown`,
`RequestDraws`, `TrackEnds`, `Ends`, `AllFramesOut`), which is beyond the prover,
as is anything about ENABLED. Of `SoundKept`, that nothing is dropped when two
sessions build their players at once is model-checked for two sessions and not
proved: three of them could fill one queue. The induction theorems of the library
take an operator as a parameter and cannot be used; where a proof needs the smallest
element of a set of numbers (the first stream of a kind, the place of a packet in the
buffer), it is obtained from the well-foundedness of strict inclusion of finite
sets. No module with a theorem uses a RECURSIVE operator, and invariants that
speak of a sequence without some of its elements are stated over its positions.

## 6. What is abstracted

Contents of pictures and sounds, conversion of formats, file names, parameters of
codecs and logging are left out. Memory that is never freed is not counted. A
decoder consumes one packet per picture; the order in which it puts pictures out
is modelled by `delay`. A file that stops being readable is the part before the
error. Failing allocations and a full or missing destination are not modelled.
Doubles are rounded only where the models say so (`Truncated` of `Muxer`, `made` of
`PacketCopy`); a quotient that is not whole is taken to be cut off at the whole number
below it, which the division of doubles misses only within a relative error of 2^-50.
In the media player all packets without a time have one label per stream; both labels
are below every time, in either order. The times of the raw encoders count frames,
before a time base scales them.
In `PacketCopy` times are not negative, a presentation time is never before the
decoding time, packets without a decoding time occur only in streams without
reordering, and a time that libavformat makes up is one unit after the last; the header of an aac
file is taken to be accepted; VP8 and VP9 streams, which do not count for the limit
of `TooFar`, do not occur; bitstream filters are identities on packets. In
`PlayerSessions` the default lock manager of libavcodec counts only as one that can
be destroyed without harm. OpenSL, GLSurfaceView and the codecs are modelled by what H uses of them and marked
external in the map.

## 7. Not modelled, and the plan

Not modelled: the raw YUV, RGB and PCM operations and the sound effects (sequential
arithmetic on samples, which tests reach as well); the memory reader and writer and
the PCM player with the OpenSL helper (two short callbacks each; their hazards are
listed without a property); filters, device capture and scaler (loops around
libavfilter, libavdevice and libswscale); FFmpeg's command line and the other
vendored code, but for the lock manager and the interleaving, on which the
application's behaviour depends directly; the OpenSL engine, the OpenGL helper and
the activities (straight-line calls).

Done: one session of the media player with `AVSync`; further sessions; simple
player; audio player; muxer; decoding, encoding and copying jobs. What is left:

1. Proofs: the part of `SoundKept` in which two sessions build their players at
   once; lemmas that several proof modules state for themselves (`Smallest`, what
   `Append` and `Tail` do to an order) in a module of their own.
2. `MemoryIO`: the AVIO callbacks and the order of closing (H:3153).
3. `PcmPlayer`: ownership of the one buffer of H:3641-3688 and of the OpenSL helper.
