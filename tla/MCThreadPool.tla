---------------------------- MODULE MCThreadPool ----------------------------
(***************************************************************************)
(* The instance of ThreadPool for TLC: three workers and three callers,    *)
(* one task each, named in the configuration.                              *)
(***************************************************************************)
EXTENDS ThreadPool
=============================================================================
