-------------------------- MODULE MCTransferOutbox --------------------------
(* Two rows and two passes; with three attempts a row can fail, be put back by *)
(* hand and be abandoned.                                                     *)
EXTENDS TransferOutbox
=============================================================================
