--------------------------- MODULE MCRateLimiter ---------------------------
(* Two hosts: one whose burst is cut by MAX_BURST_TOKENS, and one so slow     *)
(* that its burst is the floor of one token.                                  *)
EXTENDS RateLimiter, TLC

CONSTANTS fast, slow

MCHost == {fast, slow}
OneHost == {fast}
MCInterval == [h \in Host |-> IF h = fast THEN 1 ELSE 5]
=============================================================================
