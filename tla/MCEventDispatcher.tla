-------------------------- MODULE MCEventDispatcher --------------------------
(* An instance of EventDispatcher.tla: a listener declared before listen()   *)
(* with four of the events, and one registered at runtime with the fifth.    *)
EXTENDS EventDispatcher
CONSTANTS e1, e2, e3, e4, e5, l1, l2

MCEvents == {e1, e2, e3, e4, e5}
MCAddress == [e \in MCEvents |-> IF e = e5 THEN l2 ELSE l1]
MCListeners == {l1, l2}
MCDeclared == {l1}
=============================================================================
