------------------------------ MODULE FFTKernels ------------------------------
(***************************************************************************)
(* The kernels of fft/ on their processor: which program is the code that  *)
(* the emitter of a call writes.                                           *)
(***************************************************************************)
EXTENDS FFTProcessor

AVX == INSTANCE FFTButterfly
Split == INSTANCE FFTSplit
Neon == INSTANCE FFTNeon
Mirror == INSTANCE FFTMirror

KernelProgram(c) ==
  CASE c.unit = "pass" -> Straight(c.e.w, AVX!Body(c.e))
    [] c.unit = "pass32" -> Straight(c.e.w, AVX!f32Body(c.e))
    [] c.unit = "split" -> Straight(c.e.w, Split!Body(c.e))
    [] c.unit = "split512" -> Straight(8, Split!Split512Body(c.e))
    [] c.unit = "neon pass" -> Neon!Pass(c.e)
    [] c.unit = "neon batch" -> Neon!Batch(c.e)
    [] c.unit = "neon last" -> Neon!LastBlocks(c.e)
    [] c.unit = "neon last32" -> Neon!Last32(c.e)
    [] c.unit = "untangle" -> Mirror!Untangle(c.e)
    [] c.unit = "untangle512" -> Mirror!Untangle512(c.e)
    [] c.unit = "untangle32" -> IF c.e.inverse THEN Mirror!Retangle32(c.e) ELSE Mirror!Untangle32(c.e)
    [] c.unit = "neon untangle" -> Mirror!armUntangle(c.e)
    [] c.unit = "neon untangle32" -> Mirror!armUntangle32(c.e)
    [] c.unit = "stage" -> IF c.e.r = 2 THEN Product!Radix2SSE2(c.e) ELSE Product!Radix4SSE2(c.e)
    [] OTHER -> ProductProgram(c)
=============================================================================
