-------------------------- MODULE MCEngineRequests --------------------------
(* Small instances of EngineRequests.  The requests are named for what they *)
(* stand for: a chat that is asked to stop, a search that is killed, the    *)
(* load that ends a hold, idle background work (cold: killed, warm: asked   *)
(* to stop first) and a local teacher computing in the main process.        *)
EXTENDS EngineRequests
=============================================================================
