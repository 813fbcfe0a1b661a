---------------------------- MODULE MCRateLimit ----------------------------
(***************************************************************************)
(* RateLimit with two tokens per three ticks and four per ten: the hour    *)
(* refills at about half the minute's rate, so that either bucket can be   *)
(* the empty one, or both.  A tenth of a second is two ticks, so that a    *)
(* caller is told a wait of an even number of ticks, up to one too few or  *)
(* too many.                                                               *)
(***************************************************************************)
EXTENDS RateLimit

CONSTANTS t1

OneId == {t1}

=============================================================================
