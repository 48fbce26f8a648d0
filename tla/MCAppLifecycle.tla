--------------------------- MODULE MCAppLifecycle ---------------------------
(* AppLifecycle on small registrations for TLC. *)
EXTENDS AppLifecycle

\* Config.ShutdownTimeout: unset (zero) or one time unit
MCCfgTimeouts == {0, 1}
\* SHUTDOWN_TIMEOUT: the durations "-1s", "0" and "1s"
MCEnvTimeouts == {-1, 0, 1}

=============================================================================
