---------------------------- MODULE MCTdlibClient ----------------------------
(* Two clients that share the worker, and one call of a user.                 *)
EXTENDS ClientImplementsService
CONSTANTS c1, c2

MCClients == {c1, c2}
MCCalls == {"getMe"}
MCUpdates == [c \in Clients |-> IF c = c1 THEN 3 ELSE 0]
=============================================================================
