----------------------------- MODULE MCAsyncLog -----------------------------
(* The log of AsyncLog with the three threads of AsyncLog.cfg. *)
EXTENDS AsyncLog
=============================================================================
