---------------------- MODULE MCCUDACachingAllocator ----------------------
(* Sizes are in units of 256 KiB, max_split_size is 21 MiB.                *)
EXTENDS CUDACachingAllocator

CONSTANTS s0, s1, s2, t1, t2, g1, g2

Program(threads, home, streams, graphs, sizes, max_active, max_work, resets) ==
  [threads |-> threads, home |-> home, streams |-> streams, graphs |-> graphs,
   sizes |-> sizes, max_active |-> max_active, max_work |-> max_work, resets |-> resets]

Programs ==
  {\* two neighbours of a segment, each used on both streams
   Program({t1}, {s0, s1}, {s0, s1}, {}, {3}, 2, 1, "never"),
   \* blocks that two streams have to finish with
   Program({t1}, {s0}, {s1, s2}, {}, {3}, 2, 1, "never"),
   \* large and oversize requests until the device is full
   Program({t1}, {s0}, {}, {}, {6, 82, 90}, 2, 0, "never"),
   \* two threads that get and give back the same addresses
   Program({t1, t2}, {s0}, {}, {}, {3}, 3, 0, "never"),
   \* two graphs, with a pool each or sharing one
   Program({t1}, {s1}, {}, {g1, g2}, {3}, 1, 0, "kept"),
   \* a capture beside tensors of other streams
   Program({t1}, {s0, s1}, {s0, s1}, {g1}, {3}, 1, 1, "never")}

ProgramsWithReset == {Program({t1}, {s1}, {}, {g1, g2}, {3}, 1, 0, "dropped")}
===========================================================================
