----------------------------- MODULE MCSharePage -----------------------------
(* Two openings of the page of one share, and two requests at a time.        *)
EXTENDS SharePage, TLC

AnyOrder == Permutations(Viewers) \cup Permutations(Requests)
=============================================================================
