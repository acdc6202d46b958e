------------------------------- MODULE MCPipe -------------------------------
(* A writer and a reader, with calls longer than the ring of two bytes,    *)
(* whose counters wrap after two laps.                                     *)
EXTENDS Pipe
=============================================================================
