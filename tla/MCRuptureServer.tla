-------------------------- MODULE MCRuptureServer --------------------------
(* Two ruptures of one to three slips, or that cannot be used, or missing *)
EXTENDS RuptureServer

SomeResults == {Missing, 0, 1, 2, 3}
=============================================================================
