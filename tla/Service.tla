------------------------------- MODULE Service -------------------------------
(***************************************************************************)
(* A service process: its goroutines set up the global logger and tracer   *)
(* and build the server (Globals), which then serves requests (HttpServer).*)
(*                                                                         *)
(* A request reads of the globals whether there is a logger, which is so   *)
(* from New on, and the goroutines' calls read nothing of a request: the   *)
(* two commute, and requests are looked at after the calls.                *)
(***************************************************************************)
EXTENDS Globals, HttpServer

serviceVars == <<globals, exchange>>

SInit == GInit /\ HInit

Boot == GNext /\ UNCHANGED exchange

\* the access log and the error handler log through L
Request ==
    /\ server /\ Quiet
    /\ Serve
    /\ LoggerInit(IF IsInitialized THEN logger ELSE "default")
    /\ UNCHANGED <<initCalled, server, tracers, gpc, booted>>

Finish == Done /\ UNCHANGED globals

\* the process ends without a server, or with its goroutines' calls
Stopped == Quiet /\ ~server /\ UNCHANGED serviceVars

SNext == Boot \/ Request \/ Finish \/ Stopped

ServiceSpec == SInit /\ [][SNext]_serviceVars

=============================================================================
