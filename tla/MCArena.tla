------------------------------ MODULE MCArena ------------------------------
(* Model-checking instance of Arena; constants are given in MCArena.cfg.  *)
EXTENDS Arena

=============================================================================
