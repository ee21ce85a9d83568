---------------------------- MODULE MCAsyncBridge ----------------------------
(* Model checking AsyncBridge: the classes of programs the runs explore.    *)
EXTENDS AsyncBridge

AnyOuter == {"sync", "async"}

AnyUsage == Vias \ {"outer"}

\* create_task always copies the current context.
NoFreshContext == AnyUsage \ {"fresh"}
=============================================================================
