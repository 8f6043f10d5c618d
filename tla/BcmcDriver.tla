----------------------------- MODULE BcmcDriver -----------------------------
(***************************************************************************)
(* sw/bcmc.c: the C driver in a program with an interrupt handler.  A call *)
(* is a list of bus accesses with an early return at the first refusal;    *)
(* the handler may run, to its end, between any two of them, and makes     *)
(* driver calls of its own.  The device is the golden peripheral of        *)
(* BcmcRegs, with a transform that takes as long as the driver reckons.    *)
(***************************************************************************)
EXTENDS BcmcRegs, Sequences, SequencesExt

CONSTANTS
  Loads,          \* bound: the arguments <<weights, n, c>> of bcmc_load
  POLL_MARGIN     \* 16 in the code: slack in the poll bound

\* Weights that the theorem admits: START over others is refused by the golden
\* peripheral, and the driver does not look at them.  No transform takes more
\* polls than its C + 4 clocks: each poll is a bus access of a clock or more.
ASSUME DriverAssumption ==
  /\ MAX_C < IdxRange
  /\ \A l \in Loads :
       /\ l = <<l[1], l[2], l[3]>>
       /\ l[2] \in Val \ {0} /\ l[3] \in Nat /\ l[1] \in [1 .. l[3] -> 0 .. l[2]]
  /\ \A t \in Latencies, l \in Loads : t <= l[3] + 4
  /\ POLL_MARGIN \in Nat \ {0}

VARIABLES
  probed,         \* dev->probed
  call,           \* the call of the main program: its function and arguments
  todo,           \* its accesses still to be made
  ctrl,           \* bcmc_start: CTRL as it was read
  polls, words,   \* bcmc_wait, bcmc_read_column: their locals
  ret,            \* what the call has returned, "none" while it runs
  handler,        \* the accesses the interrupt handler still has to make
  wanted,         \* history: the last argument of bcmc_irq_enable
  raced,          \* history: it was set inside a bcmc_start of main
  moved,          \* history: the handler asked a query during this call
  before          \* history: the peripheral when the call began

locals == <<call, todo, ctrl, polls, words, ret>>
histories == <<wanted, raced, moved, before>>
vars == <<dev, resp, probed, locals, handler, histories>>

Op(kind, addr, data) == [kind |-> kind, addr |-> addr, data |-> data]
write_reg(addr, data) == <<Op("write", addr, data)>>

\* bcmc_start: read CTRL, keep IRQ_EN, set START.
bcmc_start ==
  <<Op("read_ctrl", At("CTRL"), 0), Op("write_ctrl", At("CTRL"), 0)>>

bcmc_irq_enable(enable) == write_reg(At("CTRL"), Command(FALSE, enable))
bcmc_irq_clear == write_reg(At("STATUS"), [irq |-> TRUE])

bcmc_read_cell(row, col) ==
  write_reg(At("CELL_ROW"), row) \o write_reg(At("CELL_COL"), col)
    \o <<Op("read", At("CELL"), 0)>>

\* Mutant of bcmc_read_column: the query index is what it was.
bcmc_read_column_unset(col) ==
  LET word(k) == Op("read_word", Lane("COLUMN", k), 0)
  IN  Each(column_words, word)

bcmc_read_column(col) ==
  LET word(k) == Op("read_word", Lane("COLUMN", k), 0)
  IN  write_reg(At("CELL_COL"), col) \o Each(column_words, word)

\* C first, and its range checked before anything is written.
bcmc_load(weights, n, c) ==
  LET weight(i) == Op("write", Lane("WEIGHT", i), weights[i + 1])
  IN  write_reg(At("C"), c) \o write_reg(At("N"), n) \o Each(c, weight)
        \o bcmc_start \o <<Op("poll", At("STATUS"), 0)>>

bcmc_probe == [k \in 1 .. 3 |-> Op("read_id", At("CONST"), 0)]

\* Mutant of poll_bound: the clocks of the sequencer are forgotten.
poll_bound_short(c) == c + POLL_MARGIN

poll_bound(c) == c + 4 + POLL_MARGIN

NoCall == [fn |-> "none"]

Init ==
  /\ \E l \in Latencies : dev = reset_state(l)
  /\ resp = NoAccess /\ probed = FALSE
  /\ call = NoCall /\ todo = <<>> /\ ctrl = FALSE /\ polls = 0 /\ words = <<>>
  /\ ret = "OK" /\ handler = <<>>
  /\ wanted = FALSE /\ raced = FALSE /\ moved = FALSE /\ before = dev

-----------------------------------------------------------------------------
\* Entering a call; one that fails its local checks returns at once.
Enter(what, accesses, status) ==
  /\ ret # "none" /\ handler = <<>>
  /\ call' = what /\ ret' = status
  /\ todo' = IF status = "none" THEN accesses ELSE <<>>
  /\ polls' = 0 /\ words' = <<>>
  /\ moved' = FALSE /\ before' = dev
  /\ UNCHANGED <<dev, resp, ctrl, handler, wanted, raced>>

CallProbe ==
  Enter([fn |-> "probe"], bcmc_probe, "none") /\ probed' = FALSE

CallLoad ==
  \E l \in Loads :
    /\ Enter([fn |-> "load", weights |-> l[1], n |-> l[2], c |-> l[3]],
             IF l[3] > MAX_C THEN <<>> ELSE bcmc_load(l[1], l[2], l[3]),
             IF ~probed THEN "EINVAL"
             ELSE IF l[3] > MAX_C THEN "ERANGE" ELSE "none")
    /\ UNCHANGED probed

\* The context it starts is legal: the driver checks no mathematics.
CallStart ==
  /\ start_legal(dev)
  /\ Enter([fn |-> "start"], bcmc_start, "none")
  /\ UNCHANGED probed

CallReadColumn ==
  \E col \in 0 .. dev.n - 1 :
    /\ Enter([fn |-> "read_column", col |-> col], bcmc_read_column(col),
             IF probed THEN "none" ELSE "EINVAL")
    /\ UNCHANGED probed

-----------------------------------------------------------------------------
Return(status) == ret' = status /\ todo' = <<>>
GoOn == ret' = (IF Len(todo) = 1 THEN "OK" ELSE "none") /\ todo' = Tail(todo)

Access(a, command) ==
  CASE a.kind = "write" -> Write(a.addr, a.data, TRUE)
    [] a.kind = "write_ctrl" -> Write(a.addr, Command(TRUE, command), TRUE)
    [] OTHER -> Read(a.addr, TRUE)

\* Mutant of OnRefusal: the status of the access is not looked at.
OnRefusalDeaf(a) == GoOn /\ UNCHANGED <<polls, words>>

\* if (s != BCMC_OK) return s;
OnRefusal(a) == Return("EREFUSED") /\ UNCHANGED <<polls, words>>

OnAnswer(a) ==
  IF a.kind = "poll" /\ ~resp'.data.valid
  THEN /\ polls' = polls + 1 /\ UNCHANGED words
       /\ IF polls' >= poll_bound(call.c) THEN Return("ENOTREADY")
          ELSE UNCHANGED <<ret, todo>>
  ELSE /\ GoOn /\ UNCHANGED polls
       /\ words' = IF a.kind = "read_word" THEN Append(words, resp'.data)
                   ELSE words

\* Mutant of kept_irq_en: START is written alone.
kept_irq_en_dropped == FALSE

kept_irq_en == ctrl

\* The next access of the main program's call.
MainStep ==
  /\ ret = "none" /\ handler = <<>>
  /\ LET a == Head(todo)
     IN  /\ Access(a, kept_irq_en)
         /\ ctrl' = IF a.kind = "read_ctrl" THEN resp'.data.irq_en ELSE ctrl
         /\ IF resp'.kind = "ack" THEN OnAnswer(a) ELSE OnRefusal(a)
         /\ probed' = (probed \/ (a.kind = "read_id" /\ ret' = "OK"))
  /\ UNCHANGED <<call, handler, histories>>

\* The handler is entered between two accesses, or between two calls.
Interrupt ==
  /\ handler = <<>>
  /\ \/ \E b \in BOOLEAN :
          /\ handler' = bcmc_irq_enable(b) /\ UNCHANGED moved
     \/ /\ handler' = bcmc_irq_clear /\ UNCHANGED moved
     \/ /\ handler' = bcmc_read_cell(0, 0) /\ moved' = TRUE
  /\ UNCHANGED <<dev, resp, probed, locals, wanted, raced, before>>

\* The value main read is the value it will write back: a change by the handler
\* in between is undone, unless main's START is refused.
HandlerStep ==
  /\ handler # <<>>
  /\ LET a == Head(handler)
         enables == a.kind = "write" /\ a.addr.reg = "CTRL"
     IN  /\ Access(a, FALSE)
         /\ handler' = Tail(handler)
         /\ wanted' = IF enables THEN a.data.irq_en ELSE wanted
         /\ raced' = IF ~enables THEN raced
                     ELSE todo # <<>> /\ Head(todo).kind = "write_ctrl"
  /\ UNCHANGED <<probed, locals, moved, before>>

Next ==
  \/ CallProbe \/ CallLoad \/ CallStart \/ CallReadColumn
  \/ MainStep \/ Interrupt \/ HandlerStep

Spec == Init /\ [][Next]_vars

-----------------------------------------------------------------------------
Loading == call.fn = "load"
Requested(d) ==
  /\ d.n = call.n /\ d.c = call.c
  /\ \A i \in 0 .. call.c - 1 : d.weights[i] = call.weights[i + 1]
SameContext(d, e) == d.n = e.n /\ d.c = e.c /\ d.weights = e.weights

\* bcmc_load that returns OK leaves a matrix, and it is the matrix asked for.
LoadedIsRequested ==
  [][ Loading /\ ret = "none" /\ ret' = "OK" =>
        /\ dev'.valid /\ Requested(dev')
        /\ IsCurrent(dev', dev'.offsets) ]_vars

\* "gets BCMC_ERANGE with N and the weights still as they were", and the same
\* of a load refused because an earlier transform still runs: a load that fails
\* has not touched the context, so no matrix of two contexts can follow.
FailedLoadChangesNothing ==
  Loading /\ ret \notin {"none", "OK"} => SameContext(dev, before)

\* "still BUSY after a bound that proves it should not be": the poll bound is
\* never reached, with and without a handler that takes time on the bus.
LoadIsNeverLate == ret # "ENOTREADY"

\* A status of bcmc_load can be believed: a failure has changed nothing, and
\* BCMC_ENOTREADY never comes of a transform that only takes its time.
LoadTellsTheTruth ==
  /\ FailedLoadChangesNothing
  /\ LoadIsNeverLate

\* bcmc_start keeps the caller's interrupt enable, refused or not; the one way
\* to lose it is a handler that changes it between main's read and write.
StartKeepsIrqEnable == dev.irq_en # wanted => raced

\* A column that is returned is column `col` of the present matrix in all its
\* words, unless the handler moved the query index meanwhile.
ColumnIsWhole ==
  call.fn = "read_column" /\ ret = "OK" /\ ~moved =>
    \A k \in DOMAIN words :
      words[k] = {i \in Rows : /\ i \div WordLanes = k - 1 /\ i < dev.c
                               /\ RefBit(i, call.col, dev.n, dev.c, dev.weights)}

\* What a handler may do to the calls it interrupts is no more than this.
HandlerIsHarmless ==
  /\ StartKeepsIrqEnable
  /\ ColumnIsWhole

-----------------------------------------------------------------------------
(* The strengthening of the properties that is inductive.                  *)
Operations ==
  {a \in [kind : {"read_id", "read_ctrl", "read_word", "poll", "write", "write_ctrl"},
          addr : [reg : {"CONST", "CTRL", "STATUS", "N", "C", "CELL_COL", "COLUMN",
                         "WEIGHT"}, i : Nat],
          data : Nat] :
     /\ a.kind = "write" => a.addr.reg \in {"N", "C", "CELL_COL", "WEIGHT"}
     /\ a.kind \in {"read_ctrl", "write_ctrl"} => a.addr.reg = "CTRL"}

\* The accesses of the call, and how many of them have been made.
Program ==
  CASE call.fn = "probe" -> bcmc_probe
    [] call.fn = "load" -> bcmc_load(call.weights, call.n, call.c)
    [] call.fn = "start" -> bcmc_start
    [] call.fn = "read_column" -> bcmc_read_column(call.col)
    [] OTHER -> <<>>
made == Len(Program) - Len(todo)

CallInv ==
  /\ DeviceInv(dev) /\ dev.c <= MAX_C /\ dev.latency \in Latencies
  /\ ret \in {"none", "OK", "EINVAL", "ERANGE", "EREFUSED"}
  /\ todo \in Seq(Operations)
  /\ IF ret = "none"
     THEN /\ Len(todo) \in 1 .. Len(Program)
          /\ \A k \in 1 .. Len(todo) : todo[k] = Program[made + k]
     ELSE todo = <<>>
  /\ call.fn \in {"none", "probe", "load", "start", "read_column"}
  /\ Loading => <<call.weights, call.n, call.c>> \in Loads
  /\ Loading /\ ret = "none" => call.c <= MAX_C
  /\ call.fn = "read_column" => call.col \in 0 .. dev.n - 1

\* What the accesses made so far have written, that nothing runs beside them,
\* and that every poll has seen one access of the transform go by.
LoadInv ==
  Loading =>
    /\ ret = "none" =>
         /\ made = 0 => SameContext(dev, before)
         /\ made >= 1 => dev.c = call.c
         /\ made >= 2 => dev.n = call.n
         /\ \A i \in 0 .. call.c - 1 :
              made >= 3 + i => dev.weights[i] = call.weights[i + 1]
         /\ made \in 1 .. call.c + 3 => ~dev.busy /\ polls = 0
         /\ made = 0 => polls = 0
         /\ made = call.c + 4 =>
              /\ polls \in Nat
              /\ dev.valid \/ (dev.busy /\ polls + dev.remaining <= dev.latency)
    /\ ret \notin {"none", "OK"} => SameContext(dev, before)

\* CTRL as it was read is CTRL as it is, unless the handler has written it.
IrqInv ==
  /\ dev.irq_en # wanted => raced
  /\ ret = "none" /\ todo[1].kind = "write_ctrl" =>
       ctrl \in BOOLEAN /\ (ctrl = dev.irq_en \/ raced)
  /\ wanted \in BOOLEAN /\ raced \in BOOLEAN

ColumnWord(k, col) ==
  {i \in Rows : /\ i \div WordLanes = k - 1 /\ i < dev.c
                /\ RefBit(i, col, dev.n, dev.c, dev.weights)}

\* The words read so far, and the query index that they and the next ones are
\* read at.
ColumnInv ==
  call.fn = "read_column" /\ ret \in {"none", "OK"} /\ ~moved =>
    /\ words \in Seq(SUBSET Rows)
    /\ \A k \in DOMAIN words : words[k] = ColumnWord(k, call.col)
    /\ ret = "none" =>
         /\ made = 0 => words = <<>>
         /\ made >= 1 => dev.cell_col = call.col /\ Len(words) = made - 1

\* What a handler has still to do, and that it is known to ask a query.
Acknowledgements ==
  {Op("write", At("CTRL"), Command(FALSE, b)) : b \in BOOLEAN}
    \cup {Op("write", At("STATUS"), [irq |-> TRUE])}
CellQuery ==
  {Op("write", At("CELL_ROW"), 0), Op("write", At("CELL_COL"), 0),
   Op("read", At("CELL"), 0)}

HandlerInv ==
  /\ moved \in BOOLEAN
  /\ handler \in Seq(Acknowledgements \cup CellQuery)
  /\ ~moved => handler \in Seq(Acknowledgements)

DriverInv == CallInv /\ LoadInv /\ IrqInv /\ ColumnInv /\ HandlerInv
=============================================================================
