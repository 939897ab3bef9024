-------------------------- MODULE MCMediaScanner --------------------------
(* A small instance of MediaScanner.  Liveness is checked, so that nothing *)
(* is taken as symmetric.                                                  *)
EXTENDS MediaScanner
=============================================================================
