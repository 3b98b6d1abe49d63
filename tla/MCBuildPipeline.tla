-------------------------- MODULE MCBuildPipeline --------------------------
(* A roster of two people, documents that may be about both of them, and two  *)
(* readings of each document's text.                                          *)
EXTENDS BuildPipeline

CONSTANTS ann, bob

MCRoster == <<ann, bob>>
=============================================================================
