-------------------------- MODULE MCAgentLifecycle --------------------------
(* One handler, one goroutine that restarts, and the health loop: three      *)
(* actors on one agent.  Two instances are referred to at once at most; a    *)
(* start that finds no third one waits, or its adapter fails.                *)
EXTENDS AgentLifecycle

MCInstances == 1 .. 2
=============================================================================
