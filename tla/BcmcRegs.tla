------------------------------ MODULE BcmcRegs ------------------------------
(***************************************************************************)
(* validation/bcmc_periph.py: BcmcPeripheral, the register map without     *)
(* clocks.  The object is the record `dev`; a bus access is one call that  *)
(* first lets time pass (_advance) and is then refused or served.  An      *)
(* address is a register and, for the windows, an index; "HOLE" stands for *)
(* an unmapped word and "ODD" for a byte address that is no word.  START   *)
(* over weights the theorem does not admit is a PreconditionError: the     *)
(* model raises, after CTRL.IRQ_EN has been written.                       *)
(***************************************************************************)
EXTENDS BcmcArith, FiniteSets

CONSTANTS
  MAX_C,          \* the lanes of the windows
  WordLanes,      \* lanes in a COLUMN word: 32 in the code
  ReservedWords,  \* words in the COLUMN span: 8 in the code
  IdxRange,       \* 2^IDX_W
  Latencies       \* bound: the accesses a transform may take

ASSUME RegsAssumption ==
  /\ MAX_C \in Nat \ {0} /\ WordLanes \in Nat \ {0} /\ IdxRange \in Nat \ {0}
  /\ ReservedWords \in Nat /\ MAX_C <= WordLanes * ReservedWords
  /\ Latencies \subseteq Nat

VARIABLES
  dev,            \* the peripheral
  resp            \* the last access and its outcome

Rows == 0 .. MAX_C - 1
Window == [Rows -> Val]
Zeros == [i \in Rows |-> 0]
column_words == (MAX_C + WordLanes - 1) \div WordLanes

reset_state(latency) ==
  [weights |-> Zeros, offsets |-> Zeros, n |-> 0, c |-> 0,
   cell_row |-> 0, cell_col |-> 0, busy |-> FALSE, valid |-> FALSE,
   irq |-> FALSE, irq_en |-> FALSE, pending |-> Zeros, remaining |-> 0,
   latency |-> latency]

\* weights[: c] is cut at the window's end when c is beyond it.
used_rows(d) == IF d.c < MAX_C THEN d.c ELSE MAX_C

\* bcmc_core over the rows there are, and 0 in the rest of the window.
stream(d) ==
  LET offset[i \in Rows] ==
        IF i = 0 \/ i >= d.c THEN 0
        ELSE LET s == offset[i - 1] + d.weights[i - 1]
             IN  IF s >= d.n THEN s - d.n ELSE s
  IN  offset

-----------------------------------------------------------------------------
(* Time.                                                                   *)
complete(d) ==
  [d EXCEPT !.offsets = d.pending, !.pending = Zeros,
            !.busy = FALSE, !.valid = TRUE, !.irq = TRUE]

advance(d) ==
  IF ~d.busy THEN d
  ELSE IF d.remaining = 0 THEN complete(d)
  ELSE [d EXCEPT !.remaining = @ - 1]

start_legal(d) == Legal(d.n, used_rows(d), d.weights)

\* Mutant of start: the transform is one access longer.
start_long(d) ==
  IF start_legal(d)
  THEN [d EXCEPT !.pending = stream(d), !.valid = FALSE, !.busy = TRUE,
                 !.remaining = d.latency + 1]
  ELSE d

start(d) ==
  IF start_legal(d)
  THEN [d EXCEPT !.pending = stream(d), !.valid = FALSE, !.busy = TRUE,
                 !.remaining = d.latency]
  ELSE d

-----------------------------------------------------------------------------
(* The matrix, one cell and one COLUMN word.                               *)
evaluate(d, row) ==
  row < d.c /\ (d.cell_col - d.offsets[row]) % d.n < d.weights[row]

column_word(d, k) ==
  {row \in Rows : row \div WordLanes = k /\ evaluate(d, row)}

-----------------------------------------------------------------------------
(* The error model: a reason, or "none".                                   *)
ReadOnly == {"CONST", "CELL"}
Context == {"N", "C", "WEIGHT"}
Matrix == {"CELL", "COLUMN", "OFFSET"}

check_access(d, addr, sel, write) ==
  CASE addr.reg = "ODD" -> "E1"
    [] addr.reg # "ODD" /\ ~sel -> "E3"
    [] sel /\ addr.reg = "HOLE" -> "E1"
    [] sel /\ addr.reg \in {"WEIGHT", "OFFSET"} /\ addr.i >= MAX_C -> "E1"
    [] sel /\ addr.reg = "COLUMN" /\ addr.i >= column_words -> "E1"
    [] OTHER ->
         IF write /\ addr.reg \in ReadOnly \cup {"COLUMN", "OFFSET"} THEN "E2"
         ELSE IF /\ d.busy
                 /\ addr.reg \in IF write THEN Context ELSE Matrix
              THEN "E4" ELSE "none"

\* Mutant of require_matrix: OFFSET is readable whenever nothing runs.
require_matrix_loose(d, addr) == addr.reg \in {"CELL", "COLUMN"} => d.valid

require_matrix(d, addr) == addr.reg \in Matrix => d.valid

start_guard(d, addr, data) == addr.reg = "CTRL" /\ data.start => ~d.busy

read_refusal(d, addr, sel) ==
  LET reason == check_access(d, addr, sel, FALSE)
  IN  IF reason = "none" /\ ~require_matrix(d, addr) THEN "E4" ELSE reason

write_refusal(d, addr, data, sel) ==
  LET reason == check_access(d, addr, sel, TRUE)
  IN  IF reason = "none" /\ ~start_guard(d, addr, data) THEN "E4" ELSE reason

-----------------------------------------------------------------------------
(* The bus.  The data of CTRL and STATUS are records of their bits; those  *)
(* of the constants are not modelled.                                      *)
read_value(d, addr) ==
  CASE addr.reg = "CTRL" -> [irq_en |-> d.irq_en]
    [] addr.reg = "STATUS" ->
         [busy |-> d.busy, valid |-> d.valid, irq |-> d.irq]
    [] addr.reg = "N" -> d.n
    [] addr.reg = "C" -> d.c
    [] addr.reg = "CELL_ROW" -> d.cell_row
    [] addr.reg = "CELL_COL" -> d.cell_col
    [] addr.reg = "CELL" -> evaluate(d, d.cell_row)
    [] addr.reg = "COLUMN" -> column_word(d, addr.i)
    [] addr.reg = "WEIGHT" -> d.weights[addr.i]
    [] addr.reg = "OFFSET" -> d.offsets[addr.i]
    [] OTHER -> "constant"

field(data, range) == data % range

\* Mutant of weight_written: a weight changes under a matrix that stays valid.
weight_written_keeping(d, i, data) ==
  [d EXCEPT !.weights[i] = field(data, ValRange)]

weight_written(d, i, data) ==
  [d EXCEPT !.weights[i] = field(data, ValRange), !.valid = FALSE]

\* IRQ_EN before START: the write that starts a transform arms the pin for it.
written(d, addr, data) ==
  CASE addr.reg = "CTRL" ->
         LET armed == [d EXCEPT !.irq_en = data.irq_en]
         IN  IF data.start THEN start(armed) ELSE armed
    [] addr.reg = "STATUS" -> [d EXCEPT !.irq = @ /\ ~data.irq]
    [] addr.reg = "N" -> [d EXCEPT !.n = field(data, ValRange), !.valid = FALSE]
    [] addr.reg = "C" -> [d EXCEPT !.c = field(data, IdxRange), !.valid = FALSE]
    [] addr.reg = "CELL_ROW" -> [d EXCEPT !.cell_row = field(data, IdxRange)]
    [] addr.reg = "CELL_COL" -> [d EXCEPT !.cell_col = field(data, ValRange)]
    [] addr.reg = "WEIGHT" -> weight_written(d, addr.i, data)

\* A row at or above C is inactive; one that C admits and the window does not
\* hold is an index error of the Python list.
read_raises(d, addr) ==
  addr.reg = "CELL" /\ d.cell_row < d.c /\ d.cell_row >= MAX_C

\* <<f(0), ..., f(n - 1)>>: a list of accesses, one after another.
Each(n, f(_)) == [k \in 1 .. n |-> f(k - 1)]

At(reg) == [reg |-> reg, i |-> 0]
Lane(reg, i) == [reg |-> reg, i |-> i]
Command(s, e) == [start |-> s, irq_en |-> e]

\* What the caller is left with: the value of a read that was acknowledged, or
\* the kind of the outcome.
Answer(addr, data) == [kind |-> "ack", addr |-> addr, data |-> data]
Outcome(kind) == [kind |-> kind, addr |-> At("CONST"), data |-> 0]
NoAccess == Outcome("ack")

\* The two methods.  A refused access has advanced time and nothing else.
Read(addr, sel) ==
  LET d == advance(dev)
      reason == read_refusal(d, addr, sel)
  IN  /\ dev' = d
      /\ resp' = IF reason # "none" THEN Outcome(reason)
                 ELSE IF read_raises(d, addr) THEN Outcome("IndexError")
                 ELSE Answer(addr, read_value(d, addr))

Write(addr, data, sel) ==
  LET d == advance(dev)
      reason == write_refusal(d, addr, data, sel)
      raises == addr.reg = "CTRL" /\ data.start /\ ~start_legal(d)
  IN  IF reason # "none"
      THEN dev' = d /\ resp' = Outcome(reason)
      ELSE /\ dev' = written(d, addr, data)
           /\ resp' = Outcome(IF raises THEN "PreconditionError" ELSE "ack")

DeviceTypeOK(d) ==
  /\ d.weights \in Window /\ d.offsets \in Window /\ d.pending \in Window
  /\ d.n \in Val /\ d.cell_col \in Val
  /\ d.c \in 0 .. IdxRange - 1 /\ d.cell_row \in 0 .. IdxRange - 1
  /\ d.remaining \in 0 .. d.latency

\* The transform of the programmed context.
IsCurrent(d, offsets) ==
  start_legal(d) /\ IsTransform(offsets, Rows, d.n, d.c, d.weights)

-----------------------------------------------------------------------------
(* The strengthening that every access keeps.                              *)
Device ==
  [weights : Window, offsets : Window, n : Val, c : 0 .. IdxRange - 1,
   cell_row : 0 .. IdxRange - 1, cell_col : Val, busy : BOOLEAN,
   valid : BOOLEAN, irq : BOOLEAN, irq_en : BOOLEAN, pending : Window,
   remaining : Nat, latency : Nat]

\* The answers that may be read, and those that are on their way, are of the
\* context in the registers.
DeviceInv(d) ==
  /\ d \in Device /\ d.remaining <= d.latency
  /\ d.valid => ~d.busy /\ IsCurrent(d, d.offsets)
  /\ d.busy => IsCurrent(d, d.pending)
=============================================================================
