----------------------------- MODULE MCStartup -----------------------------
(* The instance of MCDirectSynth from the start of the ranks on *)
EXTENDS Startup, MCDirectSynth
=============================================================================
