---------------------------- MODULE BcmcAccesses ----------------------------
(***************************************************************************)
(* BcmcRegs under any sequence of bus accesses, refused ones included: the *)
(* suites of validation/test_periph.py, and every order they do not try.   *)
(***************************************************************************)
EXTENDS BcmcRegs

CONSTANTS
  Values,         \* bound: the data written to N and WEIGHT
  Counts,         \* bound: the data written to C
  Queries         \* bound: the data written to CELL_ROW and CELL_COL

ASSUME AccessesAssumption ==
  Values \subseteq Nat /\ Counts \subseteq Nat /\ Queries \subseteq Nat

VARIABLES
  seen            \* history: accesses that observed BUSY since the last START

deviceVars == <<dev, resp, seen>>

DeviceInit ==
  /\ \E l \in Latencies : dev = reset_state(l)
  /\ resp = NoAccess /\ seen = 0

\* Observed after time has passed: by this access, whatever it is.
Observe ==
  seen' = IF resp'.kind = "ack" /\ dev'.busy /\ ~advance(dev).busy THEN 0
          ELSE IF advance(dev).busy THEN seen + 1 ELSE seen

Targets ==
  {At(reg) : reg \in {"CONST", "CTRL", "STATUS", "N", "C", "CELL_ROW",
                      "CELL_COL", "CELL", "HOLE", "ODD"}}
    \cup {Lane(reg, i) : reg \in {"WEIGHT", "OFFSET"}, i \in 0 .. MAX_C}
    \cup {Lane("COLUMN", k) : k \in 0 .. column_words}

DataOf(addr) ==
  CASE addr.reg = "CTRL" -> {Command(s, e) : s, e \in BOOLEAN}
    [] addr.reg = "STATUS" -> {[irq |-> b] : b \in BOOLEAN}
    [] addr.reg = "C" -> Counts
    [] addr.reg \in {"CELL_ROW", "CELL_COL"} -> Queries
    [] addr.reg \in {"N", "WEIGHT"} -> Values
    [] OTHER -> {0}

ReadAccess == \E addr \in Targets, sel \in BOOLEAN : Read(addr, sel) /\ Observe

WriteAccess ==
  \E addr \in Targets, sel \in BOOLEAN :
    \E data \in DataOf(addr) : Write(addr, data, sel) /\ Observe

ResetAccess == dev' = reset_state(dev.latency) /\ resp' = NoAccess /\ seen' = 0

AnyAccess == ReadAccess \/ WriteAccess \/ ResetAccess

-----------------------------------------------------------------------------
RegsTypeOK == DeviceTypeOK(dev) /\ seen \in Nat

\* A readable matrix is the one the transform computed (the assertion in
\* _evaluate): whenever VALID is set, and whatever was written since, no
\* transform runs and the offsets are those of the context programmed now.
ReadableMatrixIsCurrent ==
  dev.valid => ~dev.busy /\ IsCurrent(dev, dev.offsets)

\* latency is the number of accesses that observe BUSY = 1, for any accesses.
LatencyIsAccesses ==
  /\ dev.busy => seen + dev.remaining = dev.latency
  /\ dev.valid => seen = dev.latency

\* "It never returns ack with a plausible-looking zero": what a read of the
\* matrix was answered with is the matrix of the context programmed now, by its
\* definition, in every lane of the window.
Marked(i) == i < dev.c /\ RefBit(i, dev.cell_col, dev.n, dev.c, dev.weights)

AnswersAreTheMatrix ==
  resp.kind = "ack" =>
    LET i == resp.addr.i
    IN  CASE resp.addr.reg = "CELL" /\ dev.cell_col < dev.n ->
               resp.data <=> dev.cell_row < dev.c /\ Marked(dev.cell_row)
          [] resp.addr.reg = "COLUMN" /\ dev.cell_col < dev.n ->
               resp.data = {r \in Rows : r \div WordLanes = i /\ Marked(r)}
          [] resp.addr.reg = "OFFSET" ->
               /\ start_legal(dev)
               /\ resp.data = IF i < dev.c
                              THEN RefOffset(i, dev.n, dev.c, dev.weights) ELSE 0
          [] OTHER -> TRUE

\* What the peripheral keeps under any sequence of accesses: registers in their
\* widths, a VALID that is of the context of now, a latency counted in accesses,
\* and true answers.
DeviceContract ==
  /\ RegsTypeOK
  /\ ReadableMatrixIsCurrent
  /\ LatencyIsAccesses
  /\ AnswersAreTheMatrix
=============================================================================
