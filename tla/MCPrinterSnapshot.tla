-------------------------- MODULE MCPrinterSnapshot --------------------------
(* Two queues, one of which prints on the only USB device. *)
EXTENDS PrinterSnapshot

CONSTANTS a, b, lp0

MCQueueOf == [d \in Devices |-> a]
MCEnvironments == {None, Invalid, b}
=============================================================================
