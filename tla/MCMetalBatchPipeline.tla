----------------------- MODULE MCMetalBatchPipeline -----------------------
(* Small batches for MetalBatchPipeline.                                  *)
EXTENDS MetalBatchPipeline

\* Two interleaved groups; the first takes two chunks of two images.
TwoGroups == <<<<1, 2, 4>>, <<3, 5>>>>
\* One group of three chunks.
OneGroup == <<<<1, 2, 3>>>>
NoErrors == <<>>
OneError == <<6>>
=============================================================================
