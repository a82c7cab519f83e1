---------------------------- MODULE PlayerSessions ----------------------------
(***************************************************************************)
(* Several sessions of the media player (MediaPlayer is one of them).      *)
(* Every click on Start runs mediaplayer_init on the UI thread and then    *)
(* mediaplayer_play on a thread of its own, while the threads of the       *)
(* earlier sessions run on: nothing ever ends them.  The sessions meet in  *)
(* four places that were written for one session:                          *)
(*                                                                         *)
(*   vm          set to 0 and fetched again by every init                  *)
(*   lockmgr     libavcodec's one lock manager, which every play replaces  *)
(*   l_sl_...    the OpenSL player under construction                      *)
(*   pGlobalCtx  the session the GL thread draws                           *)
(*                                                                         *)
(* Packets, clocks and pictures are those of MediaPlayer and left out, but *)
(* for the number of pictures that wait in video_pkt.  A picture is its    *)
(* size, and so is a texture.                                              *)
(***************************************************************************)
EXTENDS Naturals, Sequences, FiniteSets

CONSTANTS Clicks,     \* bound: clicks on Start
          Playlists,  \* the files of the sessions: functions to Clip
          MaxPics,    \* bound: pictures waiting in one list
          MaxRaces,   \* bound: kinds of collision in one behaviour
          UB          \* what reaching undefined behaviour may do

Sessions == 1 .. Clicks
None     == 0                        \* no session, a null pointer
Codecs   == {"probe", "video", "audio"}

\* opens: the openings of a decoder it takes; safe: those whose codec has
\* FF_CODEC_CAP_INIT_THREADSAFE.
Clip == [size : Nat \ {0}, opens : SUBSET Codecs, safe : SUBSET Codecs]

ASSUME PlaylistsAssumption == Playlists \subseteq [Sessions -> Clip]
ASSUME BoundsAssumption == {Clicks, MaxPics, MaxRaces} \subseteq Nat
ASSUME UBAssumption == UB \subseteq {"survive", "crash"}

(***************************************************************************)
(* Definitions named X_... are mutated forms of the definition X that      *)
(* follows them.                                                           *)
(***************************************************************************)

VARIABLES
    clip,            \* the file of each session
    ui, clicks, vm,  \* the UI thread, its clicks so far, vm # 0
    pc, opening,     \* play of each session; the avcodec_open2 it is at
    lockmgr_cb, codec_mutex, waits,  \* lock manager; the mutex waited for
    taken,           \* mutexes of the lock manager that are locked
    entangled, ff_avcodec_locked,
    refused,         \* sessions whose avcodec_open2 failed
    l_sl_player, l_sl_play, l_sl_queue,
    realized, playing, registered,   \* OpenSL players, named by their creator
    slq, callback, dropped,          \* buffers queued, callback under way
    pGlobalCtx,
    held,            \* PlayerContext.mutex of each session is locked
    vpc, video_pkt,  \* video_thread, pictures waiting
    view,            \* PlayerContext.view_width and view_height
    gl, glmutex, glsize, glpic, texture,
    races,           \* history: the places where two sessions collided
    crashed

manager == <<lockmgr_cb, codec_mutex>>
entry   == <<entangled, ff_avcodec_locked, refused>>
lock    == <<manager, waits, taken, entry>>
handles == <<l_sl_player, l_sl_play, l_sl_queue>>
device  == <<realized, playing, registered>>
sound   == <<slq, callback, dropped>>
player  == <<handles, device, sound>>
frame   == <<glmutex, glsize, glpic>>
surface == <<view, texture>>
vars    == <<clip, ui, clicks, vm, pc, opening, lock, player, pGlobalCtx, held,
             vpc, video_pkt, gl, frame, surface, races, crashed>>

\* What the steps of each part have in common in what they leave alone.
StartsOnly == UNCHANGED <<clip, opening, lock, player, pGlobalCtx, held, vpc,
                          video_pkt, gl, frame, surface, crashed>>
OpensOnly  == UNCHANGED <<clip, ui, clicks, vm, player, pGlobalCtx, held, vpc,
                          video_pkt, gl, frame, surface>>
SoundsOnly == UNCHANGED <<clip, ui, clicks, vm, opening, lock, pGlobalCtx, held,
                          vpc, video_pkt, gl, frame, surface>>
FilmsOnly  == UNCHANGED <<clip, ui, clicks, vm, pc, opening, lock, player,
                          pGlobalCtx, gl, frame, surface>>
DrawsOnly  == UNCHANGED <<clip, ui, clicks, vm, pc, opening, lock, player,
                          pGlobalCtx, vpc, races>>

Goto(s, from, to) ==
    /\ ~crashed
    /\ pc[s] = from
    /\ pc' = [pc EXCEPT ![s] = to]

Undefined(bad) ==
    IF bad THEN \/ "survive" \in UB /\ UNCHANGED crashed
                \/ "crash" \in UB /\ crashed' = TRUE
           ELSE UNCHANGED crashed

Race(name, happened) ==
    /\ races' = IF happened THEN races \union {name} ELSE races
    /\ Cardinality(races') <= MaxRaces

(***************************************************************************)
(* The UI thread: onClick -> new MyThread(...), whose constructor calls    *)
(* mediaplayer_init, then start().                                         *)
(***************************************************************************)
ClearVM ==
    /\ ~crashed /\ ui = "idle" /\ clicks < Clicks
    /\ ui' = "init"
    /\ vm' = FALSE
    /\ StartsOnly /\ UNCHANGED <<clicks, pc, races>>

StartSession ==
    /\ ui = "init"
    /\ ui' = "idle"
    /\ vm' = TRUE
    /\ clicks' = clicks + 1
    /\ Goto(clicks', "unborn", "register")
    /\ StartsOnly /\ UNCHANGED races

(***************************************************************************)
(* av_lockmgr_register(lockmgr), and the lock around avcodec_open2.        *)
(***************************************************************************)
Within(from) == {s \in Sessions : pc[s] \in from}
Registering  == Within({"create", "assign"})
Locking      == Within({"obtain", "enter", "leave"})

\* The old mutex is destroyed, even one that is null or locked.
DestroyLock(s) ==
    /\ Goto(s, "register", "create")
    /\ Undefined(lockmgr_cb = "lockmgr" /\ codec_mutex \in taken \union {None})
    /\ Race("lock", Registering \union Locking # {})
    /\ lockmgr_cb' = "null"
    /\ codec_mutex' = None
    /\ OpensOnly /\ UNCHANGED <<opening, waits, taken, entry>>

CreateLock(s) ==
    /\ Goto(s, "create", "assign")
    /\ Race("lock", Locking # {})
    /\ lockmgr_cb' = "lockmgr"
    /\ OpensOnly /\ UNCHANGED <<opening, codec_mutex, waits, taken, entry, crashed>>

\* A mutex is named after the session that created it.
AssignLock(s) ==
    /\ Goto(s, "assign", "open")
    /\ Race("lock", Locking # {})
    /\ codec_mutex' = s
    /\ OpensOnly /\ UNCHANGED <<opening, lockmgr_cb, waits, taken, entry, crashed>>

OpenFails(s) ==
    /\ Goto(s, "open", "failed")
    /\ OpensOnly /\ UNCHANGED <<opening, lock, races, crashed>>

\* The next avcodec_open2 that takes the lock, of those that are left: not of
\* a stream the file lacks or of a thread-safe codec, which ff_lock_avcodec
\* and ff_unlock_avcodec let pass.
Order    == <<"probe", "video", "audio">>
Locks(s) == {k \in DOMAIN Order : Order[k] \in clip[s].opens \ clip[s].safe}

Proceed(s, from) ==
    LET left == {k \in Locks(s) : k > opening[s]} IN
    IF left = {} THEN Goto(s, from, "publish") /\ UNCHANGED opening
    ELSE /\ Goto(s, from, "lock")
         /\ opening' = [opening EXCEPT ![s] = CHOOSE k \in left : \A j \in left : k <= j]

\* avformat_open_input; then avcodec_open2 from avformat_find_stream_info,
\* for the video decoder and for the audio decoder.
OpenInput(s) ==
    /\ Proceed(s, "open")
    /\ OpensOnly /\ UNCHANGED <<lock, races, crashed>>

\* Without a lock manager there is nothing to wait for.
FetchLock(s) ==
    /\ IF lockmgr_cb = "null"
          THEN Goto(s, "lock", "enter") /\ UNCHANGED waits
          ELSE Goto(s, "lock", "obtain") /\ waits' = [waits EXCEPT ![s] = codec_mutex]
    /\ Race("lock", Registering # {})
    /\ OpensOnly /\ UNCHANGED <<opening, manager, taken, entry, crashed>>

Obtain_Trylock(s) ==
    /\ Goto(s, "obtain", "enter")
    /\ taken' = taken \union {waits[s]}
    /\ waits' = [waits EXCEPT ![s] = None]
    /\ OpensOnly /\ UNCHANGED <<opening, manager, entry, races, crashed>>

Obtain(s) ==
    /\ Goto(s, "obtain", "enter")
    /\ waits[s] \notin taken
    /\ Undefined(waits[s] = None \/ waits[s] # codec_mutex)
    /\ taken' = taken \union ({waits[s]} \ {None})
    /\ waits' = [waits EXCEPT ![s] = None]
    /\ OpensOnly /\ UNCHANGED <<opening, manager, entry, races>>

\* AV_LOCK_RELEASE of whatever mutex is codec_mutex by now.
ReleaseLock ==
    /\ taken' = IF lockmgr_cb = "null" THEN taken ELSE taken \ {codec_mutex}
    /\ Undefined(lockmgr_cb # "null" /\ codec_mutex = None)

Enter(s) ==
    /\ entangled = 0
    /\ Goto(s, "enter", "leave")
    /\ entangled' = 1
    /\ crashed' = ff_avcodec_locked        \* av_assert0(!ff_avcodec_locked)
    /\ ff_avcodec_locked' = TRUE
    /\ OpensOnly /\ UNCHANGED <<opening, manager, waits, taken, refused, races>>

\* "Insufficient thread locking": the lock of the thread inside is undone, and
\* this avcodec_open2 fails.  That ends the session only for the video decoder.
Entangled(s) ==
    /\ entangled > 0 /\ pc[s] = "enter"
    /\ IF Order[opening[s]] = "video"
          THEN Goto(s, "enter", "failed") /\ UNCHANGED opening
          ELSE Proceed(s, "enter")
    /\ ff_avcodec_locked' = FALSE
    /\ refused' = refused \union {s}
    /\ ReleaseLock
    /\ OpensOnly /\ UNCHANGED <<manager, waits, entangled, races>>

\* ff_unlock_avcodec, which begins with av_assert0(ff_avcodec_locked).
Leave(s) ==
    /\ IF ff_avcodec_locked
          THEN /\ Proceed(s, "leave")
               /\ ReleaseLock
          ELSE /\ Goto(s, "leave", "failed") /\ UNCHANGED <<opening, taken>>
               /\ crashed' = TRUE
    /\ ff_avcodec_locked' = FALSE
    /\ entangled' = entangled - 1
    /\ OpensOnly /\ UNCHANGED <<manager, waits, refused, races>>

Codec(s) == \/ DestroyLock(s) \/ CreateLock(s) \/ AssignLock(s)
            \/ OpenFails(s) \/ OpenInput(s) \/ FetchLock(s)
            \/ Obtain(s) \/ Enter(s) \/ Entangled(s) \/ Leave(s)

(***************************************************************************)
(* The context is published, video_thread is started.  Of a file without   *)
(* pictures or without sound a null codec context is used before that.     *)
(***************************************************************************)
Playable(s) == {"video", "audio"} \subseteq clip[s].opens

NullContext(s) ==
    /\ ~Playable(s)
    /\ Goto(s, "publish", "null")
    /\ crashed' = TRUE
    /\ OpensOnly /\ UNCHANGED <<opening, lock, races>>

Publish(s) ==
    /\ Playable(s)
    /\ Goto(s, "publish", "player")
    /\ Race("context", gl # "wait")
    /\ pGlobalCtx' = s
    /\ vpc' = [vpc EXCEPT ![s] = "lock"]
    /\ UNCHANGED <<clip, ui, clicks, vm, opening, lock, player, held,
                   video_pkt, gl, frame, surface, crashed>>

(***************************************************************************)
(* init_opensles.  A method called through a null interface brings the     *)
(* process down.                                                           *)
(***************************************************************************)
SLBuffers == 2
Building  == Within({"realize", "play", "queue", "callback", "start", "first"})

CreateAudioPlayer(s) ==
    /\ Goto(s, "player", "realize")
    /\ Race("player", Building # {})
    /\ l_sl_player' = s
    /\ SoundsOnly /\ UNCHANGED <<l_sl_play, l_sl_queue, device, sound, crashed>>

Realize(s) ==
    /\ Goto(s, "realize", "play")
    /\ realized' = realized \union {l_sl_player}
    /\ SoundsOnly /\ UNCHANGED <<handles, playing, registered, sound, races, crashed>>

\* GetInterface gives a null interface of a player that is not realized.
Interface == IF l_sl_player \in realized THEN l_sl_player ELSE None

GetPlay(s) ==
    /\ Goto(s, "play", "queue")
    /\ l_sl_play' = Interface
    /\ SoundsOnly /\ UNCHANGED <<l_sl_player, l_sl_queue, device, sound, races, crashed>>

GetQueue(s) ==
    /\ Goto(s, "queue", "callback")
    /\ l_sl_queue' = Interface
    /\ SoundsOnly /\ UNCHANGED <<l_sl_player, l_sl_play, device, sound, races, crashed>>

\* The platform accepts a callback only while the player is stopped.
RegisterCallback(s) ==
    /\ Goto(s, "callback", "start")
    /\ crashed' = (l_sl_queue = None)
    /\ registered' = IF l_sl_queue \in playing \union {None} THEN registered
                     ELSE [registered EXCEPT ![l_sl_queue] = s]
    /\ SoundsOnly /\ UNCHANGED <<handles, realized, playing, sound, races>>

SetPlayState(s) ==
    /\ Goto(s, "start", "first")
    /\ crashed' = (l_sl_play = None)
    /\ playing' = playing \union ({l_sl_play} \ {None})
    /\ SoundsOnly /\ UNCHANGED <<handles, realized, registered, sound, races>>

Enqueue(q) ==
    IF slq[q] < SLBuffers
       THEN slq' = [slq EXCEPT ![q] = @ + 1] /\ UNCHANGED dropped
       ELSE dropped' = TRUE /\ UNCHANGED slq

FirstCallback_Skipped(s) ==
    /\ Goto(s, "first", "demux")
    /\ ~held[s]
    /\ SoundsOnly /\ UNCHANGED <<player, races, crashed>>

\* opensles_callback takes the mutex of its session and enqueues one buffer:
\* the first time on this thread, later on the OpenSL thread of a player.
FirstCallback(s) ==
    /\ Goto(s, "first", "demux")
    /\ ~held[s]
    /\ crashed' = (l_sl_queue = None)
    /\ IF l_sl_queue = None THEN UNCHANGED <<slq, dropped>> ELSE Enqueue(l_sl_queue)
    /\ SoundsOnly /\ UNCHANGED <<handles, device, callback, races>>

OpenSL(s) == \/ CreateAudioPlayer(s) \/ Realize(s) \/ GetPlay(s) \/ GetQueue(s)
             \/ RegisterCallback(s) \/ SetPlayState(s) \/ FirstCallback(s)

\* External: a buffer has been played, and the callback is called if any.
BufferPlayed(p) ==
    /\ ~crashed /\ p \in playing /\ slq[p] > 0 /\ ~callback[p]
    /\ slq' = [slq EXCEPT ![p] = @ - 1]
    /\ callback' = [callback EXCEPT ![p] = registered[p] # None]
    /\ SoundsOnly /\ UNCHANGED <<pc, handles, device, dropped, races, crashed>>

Callback(p) ==
    /\ ~crashed /\ callback[p] /\ ~held[registered[p]]
    /\ callback' = [callback EXCEPT ![p] = FALSE]
    /\ Enqueue(p)
    /\ SoundsOnly /\ UNCHANGED <<pc, handles, device, races, crashed>>

(***************************************************************************)
(* video_thread of a session: a picture into the list, under the mutex,    *)
(* and a call of OnRenderer() through vm.                                  *)
(***************************************************************************)
Decode(s, from, to) ==
    /\ ~crashed
    /\ vpc[s] = from
    /\ vpc' = [vpc EXCEPT ![s] = to]
    /\ FilmsOnly

VideoLock(s) ==
    /\ Decode(s, "lock", "push")
    /\ ~held[s]
    /\ held' = [held EXCEPT ![s] = TRUE]
    /\ UNCHANGED <<video_pkt, races, crashed>>

VideoPush(s) ==
    /\ Decode(s, "push", "notify")
    /\ held' = [held EXCEPT ![s] = FALSE]
    /\ \/ video_pkt[s] < MaxPics /\ video_pkt' = [video_pkt EXCEPT ![s] = @ + 1]
       \/ UNCHANGED video_pkt
    /\ UNCHANGED <<races, crashed>>

VideoNotify(s) ==
    /\ Decode(s, "notify", "lock")
    /\ Race("vm", ~vm)
    /\ crashed' = ~vm
    /\ UNCHANGED <<held, video_pkt>>

Video(s) == VideoLock(s) \/ VideoPush(s) \/ VideoNotify(s)

(***************************************************************************)
(* simple_ffmpeg_mediaplayer_renderer, which reads pGlobalCtx anew for     *)
(* every access.                                                           *)
(***************************************************************************)
Size(s) == clip[s].size

Draw(from, to) ==
    /\ ~crashed
    /\ gl = from
    /\ gl' = to
    /\ DrawsOnly

DrawNothing ==
    /\ pGlobalCtx = None
    /\ Draw("wait", "wait")
    /\ UNCHANGED <<held, video_pkt, frame, surface, crashed>>

DrawFrame_Unchecked ==
    /\ Draw("wait", "mutex")
    /\ crashed' = (pGlobalCtx = None)
    /\ glsize' = IF pGlobalCtx = None THEN 0 ELSE view[pGlobalCtx]
    /\ UNCHANGED <<held, video_pkt, glmutex, glpic, surface>>

\* width and height; then the argument of pthread_mutex_lock.
DrawFrame ==
    /\ pGlobalCtx # None
    /\ Draw("wait", "mutex")
    /\ glsize' = view[pGlobalCtx]
    /\ UNCHANGED <<held, video_pkt, glmutex, glpic, surface, crashed>>

RenderMutex ==
    /\ Draw("mutex", "lock")
    /\ glmutex' = pGlobalCtx
    /\ UNCHANGED <<held, video_pkt, glsize, glpic, surface, crashed>>

RenderLock ==
    /\ Draw("lock", "list")
    /\ ~held[glmutex]
    /\ held' = [held EXCEPT ![glmutex] = TRUE]
    /\ UNCHANGED <<video_pkt, frame, surface, crashed>>

\* Not due, or the list is empty; what its front() is read to be then is
\* RenderEmpty of MediaPlayer.
RenderNone ==
    /\ Draw("list", "unlock")
    /\ UNCHANGED <<held, video_pkt, frame, surface, crashed>>

RenderPop ==
    /\ Draw("list", "copy")
    /\ video_pkt[pGlobalCtx] > 0
    /\ video_pkt' = [video_pkt EXCEPT ![pGlobalCtx] = @ - 1]
    /\ glpic' = pGlobalCtx
    /\ UNCHANGED <<held, glmutex, glsize, surface, crashed>>

\* memcpy of the picture into PlayerContext.yuv.
RenderCopy ==
    /\ Draw("copy", "unlock")
    /\ Undefined(Size(glpic) > Size(pGlobalCtx))
    /\ glsize' = Size(glpic)
    /\ glpic' = None
    /\ UNCHANGED <<held, video_pkt, glmutex, surface>>

RenderUnlock_Forgotten ==
    /\ Draw("unlock", "view")
    /\ glmutex' = None
    /\ UNCHANGED <<held, video_pkt, glsize, glpic, surface, crashed>>

RenderUnlock ==
    /\ Draw("unlock", "view")
    /\ held' = [held EXCEPT ![pGlobalCtx] = FALSE]
    /\ glmutex' = None
    /\ UNCHANGED <<video_pkt, glsize, glpic, surface, crashed>>

\* setupShader allocates the textures when the size has changed.
RenderView ==
    /\ Draw("view", "upload")
    /\ IF view[pGlobalCtx] # glsize
          THEN /\ view' = [view EXCEPT ![pGlobalCtx] = glsize]
               /\ texture' = glsize
          ELSE UNCHANGED <<view, texture>>
    /\ UNCHANGED <<held, video_pkt, frame, crashed>>

\* setupTexture reads view-many bytes of yuv into the textures.
RenderUpload ==
    /\ Draw("upload", "wait")
    /\ Undefined(view[pGlobalCtx] > Size(pGlobalCtx) \/ view[pGlobalCtx] > texture)
    /\ glsize' = 0
    /\ UNCHANGED <<held, video_pkt, glmutex, glpic, surface>>

Render == \/ DrawNothing \/ DrawFrame \/ RenderMutex \/ RenderLock \/ RenderNone
          \/ RenderPop \/ RenderCopy \/ RenderUnlock \/ RenderView \/ RenderUpload

-----------------------------------------------------------------------------
Each(x) == [s \in Sessions |-> x]

Init ==
    /\ clip \in Playlists
    /\ ui = "idle" /\ clicks = 0 /\ vm = FALSE
    /\ pc = Each("unborn") /\ opening = Each(0)
    /\ lockmgr_cb = "default" /\ codec_mutex = None /\ waits = Each(None)
    /\ taken = {} /\ entangled = 0 /\ ff_avcodec_locked = FALSE /\ refused = {}
    /\ l_sl_player = None /\ l_sl_play = None /\ l_sl_queue = None
    /\ realized = {} /\ playing = {} /\ registered = Each(None)
    /\ slq = Each(0) /\ callback = Each(FALSE) /\ dropped = FALSE
    /\ pGlobalCtx = None /\ held = Each(FALSE)
    /\ vpc = Each("off") /\ video_pkt = Each(0) /\ view = Each(0)
    /\ gl = "wait" /\ glmutex = None /\ glsize = 0 /\ glpic = None
    /\ texture = 0
    /\ races = {} /\ crashed = FALSE

Session(s) == \/ Codec(s) \/ NullContext(s) \/ Publish(s) \/ OpenSL(s) \/ Video(s)
              \/ BufferPlayed(s) \/ Callback(s)

Next == \/ ClearVM \/ StartSession \/ Render
        \/ \E s \in Sessions : Session(s)

Spec == Init /\ [][Next]_vars

-----------------------------------------------------------------------------
(***************************************************************************)
(* Properties.                                                             *)
(***************************************************************************)

\* As long as nobody replaces the lock manager while another session is in
\* avcodec_open2, two sessions open their codecs one after the other, none is
\* refused, and the assertions of ff_lock_avcodec and ff_unlock_avcodec hold.
OpensAlone ==
    "lock" \notin races =>
        /\ entangled = Cardinality(Within({"leave"}))
        /\ entangled <= 1
        /\ ff_avcodec_locked <=> entangled = 1
        /\ refused = {}

\* As long as no session is published in the middle of a frame, the mutex of
\* each session is locked exactly while one thread is inside its lists.
Inside(s) == (IF vpc[s] = "push" THEN 1 ELSE 0)
             + (IF gl \in {"list", "copy", "unlock"} /\ glmutex = s THEN 1 ELSE 0)
MutexesKept ==
    "context" \notin races =>
        \A s \in Sessions : Inside(s) = (IF held[s] THEN 1 ELSE 0)

\* Two sessions that build their players at the same time may end up with one
\* player between them, but no sound is dropped at a full queue; otherwise
\* each has its own, with one buffer or one callback under way.
Sounding(s) == slq[s] + (IF callback[s] THEN 1 ELSE 0)
SoundKept ==
    /\ ~dropped
    /\ "player" \notin races => \A s \in Sessions :
          pc[s] = "demux" => registered[s] = s /\ Sounding(s) = 1

\* Apart from what one session may do alone (a file without sound or without
\* pictures; the rest is in MediaPlayer), only these four collisions can bring
\* the process down: clicking again at any other moment is safe.
OnlyRacesKill ==
    crashed => races # {} \/ \E s \in Sessions : pc[s] = "null"
=============================================================================
