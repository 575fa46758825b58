----------------------------- MODULE MCCrawler -----------------------------
(* A site of seven addresses, one of them out of scope, one malformed. *)
EXTENDS Crawler

CONSTANTS home, a, b, c, d, away, odd

MCUrls == {home, a, b, c, d, away, odd}
MCInScope == MCUrls \ {away, odd}
MCMalformed == {odd}
=============================================================================
