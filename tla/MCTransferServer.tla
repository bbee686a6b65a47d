--------------------------- MODULE MCTransferServer ---------------------------
(* TransferServer for TLC: two source directories of different priorities. *)
EXTENDS TransferServer

MCPriority == [s \in Sources |-> s]

=============================================================================
