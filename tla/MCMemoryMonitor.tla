--------------------------- MODULE MCMemoryMonitor ---------------------------
(* MemoryMonitor on a machine of MaxMemory GB; the constants are numbers   *)
(* and are given in the .cfg files.                                        *)
EXTENDS MemoryMonitor
=============================================================================
