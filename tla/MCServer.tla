------------------------------ MODULE MCServer -------------------------------
(***************************************************************************)
(* Three clients and four descriptors: enough for in, out or both to find  *)
(* no descriptor, and for a number to be closed and given out again.       *)
(***************************************************************************)
EXTENDS Server

MCClients == 1..3
MCFds == 3..6

=============================================================================
