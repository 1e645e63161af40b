---------------------------- MODULE MCRuntimeFiles ----------------------------
(* TLC instances of RuntimeFiles.                                          *)
EXTENDS RuntimeFiles

CONSTANTS k1, k2

OneKubeconfig == <<k1>>
TwoKubeconfigs == <<k1, k2>>
==============================================================================
