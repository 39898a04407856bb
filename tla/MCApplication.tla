---------------------------- MODULE MCApplication ----------------------------
(* An instance of Application.tla: two requests, one session, one peer that   *)
(* may hold a connection, and one task.                                       *)
EXTENDS Application
CONSTANTS r1, r2, s1, p1, t1

MCRequests == {r1, r2}
MCSessions == {s1}
MCPeers == {p1}
MCTasks == {t1}
MCChunks == {<<"text">>, <<"garbage">>, <<"binary", "text">>, <<"close", "text">>}
=============================================================================
