------------------------------- MODULE MCTrip -------------------------------
(* The trips and rows, and the decoders that give the rows their values. *)
EXTENDS TableBuffers, Decoders

\* A callback gets a value that the decoders made of a frame: they are right on
\* every word, at the boundary of its sign too, and safe on every frame, also one
\* that was cut off ("Returns None on any error", obd_commands.py:50).
DecodersSound == hand # Nothing => SignedWords /\ FramesDecode
=============================================================================
