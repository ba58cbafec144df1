-------------------------------- MODULE MCPcie ---------------------------------
(* A small instance of Pcie: the rings wrap, one busy at a time or all a bit. *)
EXTENDS Pcie
Load(tx, rx, evt) == [tx |-> tx, rx |-> rx, evt |-> evt]
MCLoads == {Load(5, 0, 0), Load(0, 5, 0), Load(0, 0, 5), Load(1, 1, 0), Load(1, 0, 1)}
================================================================================
