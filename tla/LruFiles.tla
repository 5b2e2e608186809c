------------------------------ MODULE LruFiles ------------------------------
(***************************************************************************)
(* What the master's file pointer cache promises: the streams it keeps     *)
(* open are those of the CacheSize files written to most recently, the     *)
(* last one used first.  FpCache, the array of fp_cache.c, implements it;  *)
(* Checkpoint builds the master's output on it.                            *)
(***************************************************************************)
EXTENDS Naturals, SequencesExt

CONSTANTS Files, CacheSize

VARIABLE recent     \* files with an open stream, most recently used first

lruInit == recent = <<>>

IsCached(f) == \E n \in DOMAIN recent : recent[n] = f
Without(f) == IF IsCached(f) THEN RemoveAt(recent, CHOOSE n \in DOMAIN recent : recent[n] = f)
                            ELSE recent

(* The files whose stream has to be closed to make room for f *)
Evicted(f) == IF ~IsCached(f) /\ Len(recent) = CacheSize THEN {Last(recent)} ELSE {}

Use(f) == recent' = LET s == <<f>> \o Without(f)
                    IN  IF Len(s) > CacheSize THEN Front(s) ELSE s
Close(f) == recent' = Without(f)
CloseAll == recent' = <<>>

lruNext == (\E f \in Files : Use(f) \/ Close(f)) \/ CloseAll
lruSpec == lruInit /\ [][lruNext]_recent
=============================================================================
