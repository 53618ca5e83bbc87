----------------------------- MODULE MCLiveFeed -----------------------------
(* LiveFeed with two requests captured at a time and a channel of two.     *)
EXTENDS LiveFeed
=============================================================================
