------------------------------- MODULE AVSync -------------------------------
(***************************************************************************)
(* What somebody in front of the media player may rely on, with no threads,*)
(* queues or buffers: sound comes in the order of the file and carries the *)
(* clock with it, which does not step back unless the times of the file    *)
(* do; a picture comes at most once, in its turn, and not before the clock *)
(* has reached its time - or, where a packet has no time, the stand-in for *)
(* it.  It says nothing about when a step is taken, and leaves it open to  *)
(* skip packets: decoders may.                                             *)
(***************************************************************************)
EXTENDS Integers, Sequences, FiniteSets

CONSTANT Medias     \* the files: [streams, pkts, delay, none], as in MediaPlayer

VARIABLES media,    \* the file being played
          clock,    \* time of the latest sound
          sounded,  \* audio packets given to the loudspeaker, oldest first
          shown     \* pictures given to the screen, oldest first

vars == <<media, clock, sounded, shown>>

Of(kind)   == {p \in DOMAIN media.pkts : media.pkts[p].kind = kind}
Time(p)    == media.pkts[p].at
Stamp(p)   == IF media.pkts[p].timed THEN Time(p) ELSE media.none[media.pkts[p].kind]
Members(s) == {s[i] : i \in DOMAIN s}

\* No picture follows more pictures of a later time than its decoder keeps
\* back to put them in order.
InReach ==
    \A p \in Of("video") :
        Cardinality({q \in Of("video") : q < p /\ Time(q) > Time(p)}) <= media.delay

\* The sound has times, from 0 on, that do not go back.
SoundForward ==
    \A a \in Of("audio") :
        Stamp(a) >= 0 /\ \A b \in Of("audio") : a < b => Stamp(a) <= Stamp(b)

Init ==
    /\ media \in Medias
    /\ clock = 0
    /\ sounded = <<>>
    /\ shown = <<>>

Sound(a) ==
    /\ \A b \in Members(sounded) : b < a
    /\ sounded' = Append(sounded, a)
    /\ clock' = Stamp(a)
    /\ SoundForward => clock <= clock'
    /\ UNCHANGED <<media, shown>>

\* The clock has reached what the packet of the picture, or a later one that
\* is not earlier on the time line, is stamped with.
Show(p) ==
    /\ p \notin Members(shown)
    /\ \E f \in Of("video") : p <= f /\ Time(p) <= Time(f) /\ Stamp(f) <= clock
    /\ InReach => \A q \in Members(shown) : Time(q) <= Time(p)
    /\ shown' = Append(shown, p)
    /\ UNCHANGED <<media, clock, sounded>>

Next ==
    \/ \E a \in Of("audio") : Sound(a)
    \/ \E p \in Of("video") : Show(p)

Spec == Init /\ [][Next]_vars
=============================================================================
