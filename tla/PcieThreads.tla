------------------------------ MODULE PcieThreads ------------------------------
(* What the models of the rings of a PCIe card share. *)
CONSTANTS
  None,  \* MNULL in a list of buffers; no thread
  Main   \* the main process
================================================================================
