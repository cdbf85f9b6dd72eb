------------------------------ MODULE MCAuthGuard ------------------------------
(* Two threads and a health probe of one client, for TLC. *)
EXTENDS AuthGuard

CONSTANTS first, second, probe, control

SmallClientOf == [c \in Caller |-> control]
================================================================================
