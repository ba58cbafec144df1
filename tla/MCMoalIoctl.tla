-------------------------------- MODULE MCMoalIoctl --------------------------------
(* Two requests of two threads, with every choice of wait options.             *)
EXTENDS MoalIoctl
CONSTANTS r1, r2
================================================================================
