-------------------------- MODULE MCPlayerSessions --------------------------
(* Two clicks, on files that play and on files that do not. *)
EXTENDS PlayerSessions

\* h264 and aac are opened without the lock, mpeg4 and mp3 under it.  Files
\* with one kind of stream die at the end of opening, so that the lock and the
\* players are explored without multiplying each other.
Film(size) == [size |-> size, opens |-> {"video", "audio"}, safe |-> {"video", "audio"}]
Song  == [size |-> 1, opens |-> {"audio"}, safe |-> {}]
Mute  == [size |-> 1, opens |-> {"probe", "video"}, safe |-> {}]
MCPlaylists == {<<Film(2), Film(1)>>, <<Film(1), Song>>, <<Mute, Film(1)>>,
                <<Song, Mute>>, <<Mute, Mute>>}
=============================================================================
