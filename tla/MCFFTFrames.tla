----------------------------- MODULE MCFFTFrames -----------------------------
(* Every position of a frame relative to a 64-byte boundary. *)
EXTENDS FFTFrames

EveryOffset == {0, 8, 16, 24, 32, 40, 48, 56}
OneOffset == {0}
=============================================================================
