----------------------------- MODULE MCSynthTop -----------------------------
(* Short programs on the synthesised core, with the recorder at its ports.  *)
EXTENDS SynthTop, MCPipeline
=============================================================================
