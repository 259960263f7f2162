---- MODULE MCGuestProcesses ----
(* One process with both its streams, two control requests. *)
EXTENDS GuestProcesses, TLC
CONSTANTS c1, q1, q2
====
