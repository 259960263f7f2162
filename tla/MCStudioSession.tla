---- MODULE MCStudioSession ----
(* One turn, two VM images. *)
EXTENDS StudioSession, TLC
CONSTANTS t1
====
