----------------------------- MODULE MCStartup ------------------------------
(***************************************************************************)
(* Instance of Startup for TLC: the first and the last instrument, and a   *)
(* few ways to start the process.                                          *)
(***************************************************************************)
EXTENDS Startup

FirstAndLast == <<Active, Pairs>>

Flags(udp, otel, auto, file, flag, perCPU, perMB) ==
  [udp |-> udp, otel |-> otel, auto |-> auto, file |-> file, flag |-> flag,
   cpus |-> 2, perCPU |-> perCPU, memMB |-> 3, perMB |-> perMB]

\* Both extras with a quota from the file; no quota and no UDP; quotas by the
\* processors, by the memory, raised to 1, with a negative size, and a size of 0.
Starts ==
  { Flags(TRUE,  TRUE,  FALSE, 1, 2,  10, 50),
    Flags(FALSE, TRUE,  FALSE, 0, 0,  10, 50),
    Flags(FALSE, FALSE, TRUE,  0, 0,  1,  1),
    Flags(FALSE, FALSE, TRUE,  2, 0,  10, 2),
    Flags(FALSE, FALSE, TRUE,  0, 1,  0,  50),
    Flags(FALSE, FALSE, TRUE,  0, 0,  10, -1),
    Flags(TRUE,  FALSE, TRUE,  0, 0,  10, 0) }
=============================================================================
