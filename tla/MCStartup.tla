------------------------------ MODULE MCStartup -----------------------------
(* Few starts, and pids that are used again.                                *)
EXTENDS Startup

MCModes == {"daemon", "foreground"}
=============================================================================
