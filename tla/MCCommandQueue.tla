--------------------------- MODULE MCCommandQueue ---------------------------
(***************************************************************************)
(* Instances of CommandQueue for TLC, and what the documentation says of   *)
(* the shutdown, which the code does not do.                               *)
(***************************************************************************)
EXTENDS CommandQueue

\* doc/ebotula.1.in and irchelp.c: !die shuts the bot down, !restart shuts it
\* down and starts it again.  AppMain can only return from the state "closed".
ShutdownCompletes == stop ~> pc[Main] = "closed"
=============================================================================
