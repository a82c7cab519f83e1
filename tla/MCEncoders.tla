----------------------------- MODULE MCEncoders -----------------------------
(* Files of up to four frames for the encoding jobs.                       *)
EXTENDS Encoders

UpTo4 == [n : 0 .. 4, rest : {"none", "short", "most"}]

MCDelays == 0 .. 3
=============================================================================
