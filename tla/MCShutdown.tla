----------------------------- MODULE MCShutdown -----------------------------
(* Three applications in the main thread, one of which only registers its  *)
(* event, and one in a thread of its own.                                   *)
EXTENDS Shutdown
MCMainApps == {"api", "admin", "jobs"}
MCThreadApps == {"test"}
MCAlone == {"jobs"}
=============================================================================
