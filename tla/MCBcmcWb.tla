------------------------------ MODULE MCBcmcWb ------------------------------
(* A finite set of bus requests for the run of BcmcWb.                     *)
EXTENDS BcmcWb

Base == [stb |-> TRUE, we |-> FALSE, word |-> TRUE, adr |-> "NONE",
         idx |-> 0, dat |-> 0, bits |-> {}]

Quiet == [Base EXCEPT !.stb = FALSE]
Rd(adr, idx) == [Base EXCEPT !.adr = adr, !.idx = idx]
Wr(adr, idx, dat) ==
  [Base EXCEPT !.we = TRUE, !.adr = adr, !.idx = idx, !.dat = dat]
WrBits(adr, bits) == [Base EXCEPT !.we = TRUE, !.adr = adr, !.bits = bits]
Misaligned(r) == [r EXCEPT !.word = FALSE]

Start == WrBits("CTRL", {"START"})
ClearIrq == WrBits("STATUS", {"IRQ"})

\* Every step of a job, in any order and over and over: two rows, N below and
\* beyond the reach of the weights (6 is reduced to 2 when it is written), C
\* below and above MAX_C.
Programming ==
  {Quiet, Start, ClearIrq, Wr("N", 0, 3), Wr("N", 0, 6), Wr("C", 0, 1),
   Wr("C", 0, 3), Wr("WEIGHT", 0, 2), Wr("WEIGHT", 1, 1), Wr("WEIGHT", 1, 3),
   Wr("CELL_COL", 0, 2)}

\* A read of every register, with a lane inside and one beyond the window.
Reads ==
  {Rd(adr, 0) : adr \in {"CAPS", "CTRL", "STATUS", "N", "C", "CELL_ROW",
                         "CELL_COL", "CELL", "COLUMN", "WEIGHT", "NONE"}}
    \cup {Rd(adr, 1) : adr \in {"COLUMN", "OFFSET"}}

\* Writes that are refused in every state: read-only, out of range, misaligned.
RefusedWrites ==
  {Wr("COLUMN", 0, 1), Wr("WEIGHT", 2, 1), Misaligned(Wr("N", 0, 1))}

PeripheralRequests == Programming \cup Reads \cup RefusedWrites
=============================================================================
