# A TLA+ model of BCMC

BCMC turns a list of row weights into a binary matrix without storing it: row `i`
of an `N`-column matrix holds `w_i` consecutive ones (cyclically), starting where
row `i - 1` ended, so that the loads of any two columns differ by at most one. The
repository holds the RTL of a Wishbone peripheral that does this
(`rtl/bcmc_core.v` to `rtl/bcmc_wb.v`), a hardware observer that scans the matrix
column by column and drives pins (`rtl/bcmc_observer.v`, `bcmc_out_engine.v`, three
traversal sources and the register window `bcmc_obs_wb.v`), a C driver and software
observers (`sw/`), and in `validation/` a second, executable description of all of
it in Python: reference mathematics, a behavioural model of each register map, and
golden models of the engine, the sources and the output stage.

This directory models that system in TLA+, checks the models with TLC and proves
the most important facts about the Core and its matrix, the peripheral and the C driver
and clients on top of it, the engine, the register window and the shuffled source with TLAPS. Every
definition translates a passage of the source; `PROJECT.json` names the lines
(`map`), and the hazards each property is for (`hazards`). Where the repository
describes one thing twice, in Verilog and in Python, both are modelled and compared.

## 1. Inventory

| Component | State | Operations | Modelled by |
|---|---|---|---|
| Core, `rtl/bcmc_core.v` | `state`, `offset_q`, `row_q`, `n_q`, `c_q`, `offset_out`, `offset_valid` | start, accept a weight, gap, finish, retire, reset | `BcmcArith`, `BcmcCore`, `BcmcStream` |
| Cell, column, row evaluators, `rtl/bcmc_cell.v`, `bcmc_column.v`, `bcmc_row.v` | none (combinational) | evaluate a bit, a column, a row | `BcmcArith` |
| Context, `rtl/bcmc_context.v` | weight window, offset window, `wr_ptr`, `loading_q` | software write, load start, store an offset, load done, reset | `BcmcContext` |
| Wishbone peripheral, `rtl/bcmc_wb.v` | register file, VALID, IRQ, IRQ_EN, sequencer, bus response | every read, write and refusal; START; the sequencer's steps; reset | `BcmcWb` (abstractly: `BcmcTransform`) |
| Observer engine, `rtl/bcmc_observer.v` | `state_q`, `t_q`, `col_q`, `visit_q`, `aborted_q` | start, trigger, end of pass, abort, reset | `BcmcObserver`, `BcmcScan` |
| Output engine, `rtl/bcmc_out_engine.v` | `pattern_q`, `valid_q` | latch a visit, clear, gate | `BcmcOutEngine`, `BcmcScan` |
| Shuffled source, `rtl/bcmc_src_shuffled.v` | two banks with written masks, their states, fill and start-up registers | fill step, rejection, exchange at a boundary, load, reset | `BcmcSrcShuffled`, `BcmcShuffledPass` |
| Affine source, `rtl/bcmc_src_affine.v` | phase of the derivation, `(a, b)`, Euclid's registers, the accumulator, the step it stands for | draw, subtract, redraw, answer, load, reset | `BcmcSrcAffine`, `BcmcAffineWalk` |
| Identity source, `rtl/bcmc_src_identity.v` | none | `ts_pi = ts_t` | the identity branch of `BcmcObsWb` and `BcmcObsWindow` |
| Observer window, `rtl/bcmc_obs_wb.v` | bus response, mode, selector, seed, DONE, ABORTED, SEED_UNDERRUN, the copy of N | register accesses, loads of the sources, admission of START | `BcmcObsWb`; over the shuffled source `BcmcShuffledPass` |
| C driver, `sw/bcmc.c` | the probed geometry, what the caller holds | probe, load, start, wait, matrix reads, interrupt calls | `BcmcDriver` |
| Software observers, `validation/observers.py`, `sw/bcmc_observer.c` | SplitMix32 counter, order (C: a cursor) | build an order, visit, observe | `BcmcOrders`, `BcmcObservers`; the C cursor is not modelled |
| Reference model, `validation/reference.py`, `verify_conjecture.py` | none | every form of the construction, the theorem's checks | `BcmcMatrix`, `BcmcObservers` |
| Behavioural peripheral, `validation/bcmc_periph.py` | the register file, a transform in progress | bus read and write, START, the clients | `BcmcRegs`, `BcmcAccesses`, `BcmcClient` |
| Golden engine, `validation/observer_hw.py` | cursor, column, pending visit, ABORTED | a cycle, a reset, `simulate()`'s accounting | `BcmcEngine`, `BcmcSimulate` |
| Golden output stage, `validation/output_engine.py` | pattern, last `valid` | a cycle; `Attached` | `BcmcPins`, `BcmcAttached` |
| Golden sources, `validation/traversal_sources.py` | pair and accumulator; two banks | load, tick, answer | `BcmcAffineSource`, `BcmcSources`, `BcmcOrders` |
| Golden window, `validation/observer_periph.py`, `observer_window.py`, `observer_periph_v2c.py` | mode, selector, seed, latches, pulses | accesses, tick | `BcmcObsWindow` |
| Examples, test benches, vectors, scripts | | | not modelled (section 8) |

### How the parts interact

Everything in `rtl/` is on one clock. The bus master talks to `bcmc_wb`, whose
sequencer streams the weights of the context into the Core, one per clock, and the
Core's offsets back into the context. While that lasts (BUSY) software may not
change the context. When it ends VALID and IRQ rise, and CELL, COLUMN and OFFSET
may be read.
The observer sees the peripheral through a read-only sideband (N, C, both windows,
VALID). Nothing in the sideband holds the peripheral back: software may reprogram
the context in the middle of a scan, and the observer has to notice. At each
trigger the engine asks a traversal source for the next step of a permutation and
gets the answer in the same clock; the column is presented for one clock, and the
output engine keeps its pattern. The source is loaded again when the seed, the
selector or N changes. The sideband is modelled from how the observer uses it: the
`bcmc_wb.v` of this commit does not export it yet (`docs/Hardware_Observer_Architecture.md`,
section 6.1).
The C driver is one or more bus accesses per call, and its only concurrency is an
interrupt handler, which may make driver calls of its own between any two accesses
of the main program.

### What is hard

* **Stale state.** Answers outlive their context, patterns outlive their matrix,
  banks and affine pairs outlive their row. Each is caught by one bit (VALID, its
  falling edge, the comparison of N with its copy) that has to change in exactly the
  right clock.
* **Interleaving.** Software writes land in any clock of a transform, a pass, a fill
  or a derivation, among them the clock in which it ends; an interrupt handler lands
  between the accesses of one call.
* **Same-clock feedback.** The bank of a pass is chosen combinationally in the
  clock in which it is exchanged; a fill chooses its bank in the same clock; one
  write may change the selector and start a pass.
* **Ordering.** The affine accumulator follows the question one clock behind; the
  window follows the engine's abort one clock behind.
* **Arithmetic at the edge.** Modular reduction by one subtraction at the register
  width, `N - 1` for `N = 0`, `C = 0`, `weight = N`, `C > MAX_C`.
* **Refusal.** An access that errs must leave nothing behind, in every state; a call
  of several accesses may be refused after the first of them.
* **Liveness.** Transforms, passes, fills and derivations must end, and polls with them.

There is no persistence (reset is the only restart), no message loss (the bus is
synchronous) and no thread.

### What makes each component correct

* Core: the emitted stream is the prefix sums modulo N, whatever the gaps.
* Evaluators: the bit is that of the characteristic definition; the matrix is balanced.
* Context and peripheral: VALID means the stored offsets are the transform of the
  registers; software sees a transform as one event; refusals are silent.
* Engine: a pass is a permutation of one matrix's columns, or it is marked aborted.
* Output engine: the pins show the last visit of the present matrix, or nothing.
* Shuffled source: the bank being read is whole and is never written.
* Affine source: a pair called ready is the one that seed and row define, and the
  accumulator gives the closed form of it wherever a walk stops and begins.
* Observer window: admitted starts find a source of the present row; no status
  event is lost and none is reported of a pass it does not belong to.
* Driver: `bcmc_load` either completes or has changed nothing; its poll bound is
  enough; a handler costs the main program no more than the comments say.
* Golden models: the same answers as the hardware, in the same clock.

## 2. Modules

### The peripheral

`BcmcArith` holds the arithmetic of the RTL, with its width (`ValRange` is
`2^VAL_W`), and below it the mathematics of `validation/reference.py` with which the
runs compare it. `BcmcCore` has one action per branch of the Core's clocked block;
`Edge` is the whole block with the inputs as parameters. `BcmcStream` closes it with
a producer that may pause between any two weights and a consumer.

`BcmcContext` is the storage, `BcmcWb` the peripheral: registers, bus handshake, the
sequencer, an instance of `BcmcCore` and the context. A step is one rising edge of
`wb_clk_i`, with any request of `Requests` on the bus. Requests name a register
and its fields, not an address and a word; misaligned and partial accesses are
`word = FALSE`, unmapped addresses are `NONE`. ID, VERSION and CAPS are constants, and
a word of flags is the set of the bits that are 1.

`BcmcTransform` is what the register map promises, without clocks: a context, a
status, the answers of a valid context, an interrupt. `BcmcWb` implements it under the
mapping `Promise` (offsets that software may not read are mapped to zeros).

`BcmcRegs` is the behavioural model in full: the object is one record, an access lets
time pass and is then refused or served, and a START over weights that the theorem
does not admit raises after IRQ_EN has been written, as the Python does.
`BcmcAccesses` makes any sequence of accesses on it, `BcmcClient` puts the clients
`program`, `read_offsets`, `read_column` and `read_matrix` on top, one job after
another with anybody else's accesses between (its specification is `ClientSpec`), and
`BcmcDriver` the C driver: a call is
a list of accesses with an early return at the first refusal, and the interrupt
handler is a second list that runs to its end between any two accesses.

### The observer

`BcmcObserver` is the engine, one action per branch, and `BcmcOutEngine` the output
engine. `BcmcScan` composes them with the abstract peripheral `BcmcTransform` and a
source that answers from any permutation `order` of the row. Using the abstract
peripheral here is justified by the refinement. The two history variables keep the
visits of the current pass and the last column shown.

`BcmcEngine` and `BcmcPins` are the Python models of the same two parts, in their own
words: the wrap compares `tq + 1` with N, where the hardware compares `tq` with
`N - 1`; the pattern is a list comprehension, where the hardware has cells.
`BcmcAttached` runs both pairs in the same clock on the same inputs, and `BcmcSimulate`
adds the accounting of `simulate()`: requests accepted, presented, suppressed.

`BcmcSrcShuffled` is the shuffled source. A bank's memory and its written mask are
one partial function: an entry outside the domain reads as its own index. The
generator is abstracted to the draw it yields in a clock, any value under the mask;
so every shuffle of every seed is covered, and rejections too. `BcmcShuffledPass`
puts it under the engine with the part of the window that stands between them:
`n_q`, the load pulse, the reset for `N = 0` and the gate of START. The sideband is an
input that keeps the one rule the peripheral guarantees: N does not change
without VALID falling. Its histories remember each bank as its fill left it, the
bank a pass began with, and the banks already played.

`BcmcSrcAffine` is the affine source, clock by clock: a word of the generator, one
subtraction of Euclid's algorithm or one bit of the mask in each. A seed is a periodic
stream of words (`BcmcOrders`). `BcmcAffineSource` is its golden model. `BcmcAffineWalk`
drives the two side by side as the benches do: steps held for any time, walks that die
and begin again, changes of N with and without a load, resets in mid-derivation.

`BcmcObsWb` is the register window over the engine and `BcmcSrcAffine`: the handshake,
the classes of access, the selector, the seed, the copy of N, the loads, the gate of
START and the status bits. The shuffled source is an input of it.
`BcmcObsWindow` is the golden window in the same way over `BcmcEngine` and the golden
sources of `BcmcSources`; an access and `tick()` are calls of their own.

### The mathematics

`BcmcMatrix` holds the functions of `reference.py` and `verify_conjecture.py`, and what
a pass yields in `observers.py`; `BcmcOrders` what a seed becomes: rejection,
Fisher-Yates, the affine pair, the walk without multiplication, the rate at which a
bank must be filled. `BcmcObservers` runs them together on bounded inputs (its parts are
`ObserversInit`, `ObserversNext` and `ObserversSpec`, so that one module of proofs can
extend it together with `BcmcStream`).

The `MC` modules only hold finite sets for TLC. The theorems are in `BcmcArith_proofs`
(the arithmetic, the reference and the draws, which the others build on),
`BcmcStream_proofs`, `BcmcWb_proofs`, `BcmcRegs_proofs` (the behavioural peripheral with
its clients and the driver), `BcmcGolden_proofs` (the golden engine, output stage and
window), `BcmcScan_proofs`, `BcmcShuffled_proofs` and `BcmcObsWb_proofs`. Operators marked "Mutant of" are
deliberate bugs that no specification uses; they show that the properties notice.

## 3. Runs

| Run | Module, cfg | Question |
|---|---|---|
| `stream` | `BcmcStream`, `Stream.cfg` | Are the Core's offsets, and the matrix they give, the mathematical ones, for every legal list and every pattern of gaps? |
| `peripheral` | `MCBcmcWb`, `Peripheral.cfg` | Under any access in any clock: is VALID ever stale, an end of transform lost, an answer wrong, a refusal noticed; does the clocked peripheral implement `BcmcTransform`; does each transform end, in its fixed time? |
| `scan` | `MCBcmcScan`, `Scan.cfg` | Is a pass a permutation of one matrix's columns, what do the pins show, does a pass end? |
| `shuffled` | `BcmcShuffledPass`, `Shuffled.cfg` | Are the banks whole, isolated and played in full; is a repeat reported; does every start-up end? |
| `attached` | `MCBcmcSimulate`, `Attached.cfg` | Do the golden engine and output stage ever differ from the hardware pair; is any visit unaccounted for? |
| `client` | `MCBcmcClient`, `Client.cfg` | Does every job of a client succeed, in a bounded number of polls, and read its own matrix, whatever was done before it? |
| `driver` | `MCBcmcDriver`, `Driver.cfg` | Can the status of `bcmc_load` be believed, and what may an interrupt handler do to the call it interrupts? |
| `software` | `BcmcObservers`, `Software.cfg` | Do all forms of the construction agree, is the theorem true of them, and is every order drawn from a seed a permutation of the words it counts? |
| `affine` | `MCBcmcAffineWalk`, `Affine.cfg` | Is a ready pair the one its seed defines, is every answer its closed form, does the golden model agree, does every derivation end? |
| `window` | `MCBcmcObsWindow`, `Window.cfg` | What does a pass through the golden window present, and does readiness come back? |
| `obs_wb` | `MCBcmcObsWb`, `ObsWb.cfg` | What does a pass through the hardware window play, and what does an access leave behind, in whatever clock it comes? |
| `obs_wb_seed` | `MCBcmcObsWb`, `ObsWbSeed.cfg` | Expected to fail: the sources are loaded from the seed that was written (section 6). |

### Bounds, and why they are enough

* `stream`: `ValRange = 8`, every N from 1 to 7, every list of up to 3 legal weights.
  All the edges are inside: `weight = 0`, `weight = N`, `N = 1`, `N` at the top of the
  width, `C = 0`, and sums that need the extra bit. Three rows wrap twice.
* `peripheral`: `ValRange = 4`, two lanes. C is written as 1 and as 3, one above the
  lane count (storage drops what does not fit); two lanes are enough for a stale offset
  above a smaller C. N is written as 3 and as 6, which the register reduces to 2. Every register
  is read, the windows at a lane inside and one beyond. The COLUMN word has one bit, so
  that the span has two words.
* `scan`: rows of 0, 1 and 3 columns (1 is where the first visit is the last), two
  lanes, all six orders of a row of 3, C of 1 and 2 with a weight above C. `Contexts`
  bounds what software programs. The history `visited` is capped at N + 1 visits, of
  which two are already equal.
* `shuffled`: banks of 4, rows of 0, 1, 3 and 5 (too long for a bank), `Lead = 2` as
  instantiated. Two banks cover every exchange; a shuffle of 3 has two steps, so a fill
  can be interrupted between them.
* `attached`: the contexts of `scan` in small, and per row the identity and one other
  order. The counters are kept as their balance, so that runs have any length.
* `client`: rows of 1 and 3 columns, 0 to 2 lanes, transforms that take 0 or 2 accesses,
  one lane to a COLUMN word, so that a column has several; between two jobs any access with
  legal and with too large data.
* `driver`: a load of two rows, of none and of one too many; transforms of 0 and of 4
  accesses, 4 being the C + 4 of an empty list; `POLL_MARGIN = 1` instead of 16, which makes the bound harder to keep. The
  handler enables or disables the interrupt, clears it, or reads a cell.
* `software`: streams of up to 5 words out of {0, 1, 2, 4, 5, 7}, rows up to 4, up to
  three weights, register values of 3 bits. Words under and over every mask occur, so
  rejections do. The inputs are finite and the run stops: `CHECK_DEADLOCK FALSE`.
* `affine`: `ValRange = 8`, rows 1 to 7, among them primes, 4 and 6 with words not
  coprime to them; three streams with words out of range for some rows. The rows above
  4 need the extra bit of the accumulator's sum.
* `window`: banks of 3, rows of 1, 3 and (not servable) 4, one stream with
  rejections, `LEAD = 2`; the control words change the source in every way a pass can meet.
* `obs_wb`: rows of 0, 1 and 3, a stream whose first word is not coprime to 3 so that
  the derivation draws again, every command with every selector. `obs_wb_seed` has two
  streams with different pairs.

### Fairness

* `stream`: the clock runs, and the producer does not pause for ever.
* `peripheral`: the clock runs, nothing else; the master may do anything.
* `scan`: the trigger source keeps firing while a pass runs. The trigger is an input
  of the engine (a timer or a `STEP` write), and without it a pass does wait for ever.
* `shuffled`: the clock runs, and a fill that waits is in the end given a draw inside
  its range. The generator is a bijective counter mix: its outputs run through all
  32-bit words, so the masked draw 0 occurs.
* `affine`: the clock runs while the bench waits. That a coprime word in range comes
  needs no fairness: the streams are periodic, as the generator is, and contain 0 and 1.
* `window`: `tick()` is called again and again, however many accesses come
  between. It is enabled in every state, so `[]<><<Tick>>_vars` is its weak fairness.

All runs but `software` check for deadlock: in every state the clock can tick, or the
caller can go on.

## 4. What the properties say

Every property is stated in a comment above it. A contract is a conjunction of named
parts, checked together because one state decides them together.

* `StreamContract`: registers in their width, prefix sums, each below N, done last.
  `EvaluatesTheMatrix`: what the cells make of them is the characteristic matrix, seen
  by column and by row, and balanced. `RunCompletes`: the Core cannot get stuck.
* `ValidIsCurrent`: VALID stands for the transform of the N, C and weights that are
  in the registers now. It fails if one write forgets to clear VALID.
  `KeepsThePromise`: the whole peripheral is `BcmcTransform`; it fails if a smaller C
  leaves old offsets behind, or if BUSY and VALID ever overlap. `AnswersAreTheMatrix`:
  what an acknowledged read returns is the characteristic definition's bit, not merely
  the hardware's own offsets. `CompletionNotLost`, `OneServicePerResponse`,
  `RefusalIsSilent`: the bus.
* `PassIsAPermutation`, `PassOfOneMatrix`, `PinsContract`: a pass presents each column
  once, every pattern it has presented is a column of the context that is valid now,
  and so is what the pins show. `IncompletePassIsMarked` says which passes are aborted.
* `SourceContract`: banks that may be played are whole and of the present row, ready
  means readable, and rows too long are never granted. `BankIsolation`,
  `PassPlaysOneBank`: the bank being read is not written, and a pass presents exactly
  the bank that was whole when it began. A partly shuffled bank is still a
  permutation, which is why "each column once" alone cannot see this.
  `RepeatIsReported`: a pass plays a bank again exactly when the source reports an
  underrun.
* `OutputsAgree`, `PinsAgree`: the golden and the hardware pair are indistinguishable
  from outside, in each clock. `Conservation`: every accepted request is presented, due,
  or was lost to an invalidation, and an invalidation loses one at most.
* `DeviceContract`: what the behavioural model promises under any accesses (VALID is
  current and no transform runs beside it, a transform is over after the accesses it
  takes, reads are answered from the definition). `ClientSucceeds`: a job is never
  refused, polls no longer than the transform takes, and returns its own matrix, bit
  by bit, whatever other contexts were there before.
* `LoadTellsTheTruth`, `LoadedIsRequested`: a `bcmc_load` that fails has not touched the
  context, never fails for lack of time, and one that succeeds leaves the matrix asked
  for. `HandlerIsHarmless` bounds two losses that the driver, which has no lock,
  does not prevent: the only way to lose an IRQ_EN is a handler that changes it between
  `bcmc_start`'s read and write; the only way to a mixed column is a handler that moves
  the query index.
* `ReferenceAgrees`: every form of the construction has the loads of the theorem's
  closed form, rows keep their weights, moving weight between rows changes no load, and
  a whole pass in any order yields each event of the matrix once.
  `DrawsAreOfTheirWords`: a fill and a derivation take the words they count, none twice and
  none left out, the results are permutations, the walk without multiplication is the
  closed form (and without its extra bit only for the lower half of the rows). The rate
  covers the steps of a fill and is the least that does; the fill, with its setup clock,
  is in time by it except when the steps are a whole number of rows, where it is one
  clock late, and the next rate is always enough (section 6).
* `WalkIsAffine`: ready pair = derived pair, answer = closed form, hardware = golden, in
  every hold, restart and reset. `DerivationEnds`.
* `PassIsPermutation`, `WindowContract`, `ReadinessReturns`: through the golden window a
  finished pass of the identity or of the shuffled source has shown every column (from a
  START that changed the selector on: as soon as it begins a step 0 with the new source
  ready); a fill is apart from the pass; no slot stands
  idle; ABORTED is of the pass before; readiness comes back.
* `ReadyPairIsOfTheRow`, `PassFollowsItsSource`: through the hardware window, a START that
  looks at SEED_READY and keeps the selector finds the pair of the present row, and a
  pass of the identity or the affine source presents its order. After a START that did
  change the selector the identity owes that from its first visit, the affine source from
  the first step 0 at which its pair is there. `AccessesAreSafe`: no access swallows the end of a pass, and a
  refused one leaves sources, mode and engine alone. `AbortedIsReported`:
  ABORTED is the engine's abort as of the clock before, until software acknowledges that
  abort; a clear in the clock of the abort, or before it, acknowledges nothing.

## 5. What is proved

Every theorem here holds for all values of the constants. The only assumptions are the
named `ASSUME`s, which TLC evaluates on the run's instance: `ValRange` and `IdxRange` are
at least 2 (they need not be powers of two), `MaxC` is at least 1 and below `IdxRange`,
and the sets that bound an environment hold well-formed members (a request has a
register and an index, a context a weight for every lane, a seed is a sequence of words
among which are 0 and 1, as the full period of the generator's counter ensures: without
them a rejection loop need not end).
The clients and the driver program contexts that the theorem admits; START over any other
is an error in the golden peripheral.

### The mathematics: `BcmcArith_proofs`, `BcmcStream_proofs`

| Theorem | States |
|---|---|
| `ColumnsAreReference` | of a legal context, the chain of the Core's steps is the prefix sums modulo N, and every cell is the bit of the characteristic definition |
| `BalanceTheorem` | for legal weights, column `j` of the characteristic matrix holds `PredictedOccupancy(j, n, total)` ones |
| `StreamKeepsItsContract` | `StreamContract`: the Core behind its interface, under any gaps |
| `FinishedRunsAreBalanced` | `EvaluatesTheMatrix`: at `done` both evaluators answer the characteristic matrix; rows keep their weights and columns are balanced |
| `ReferenceAlwaysAgrees` | `ReferenceAgrees`: the four forms of the reference have the same loads, rows keep their weights, the loads depend on the total alone, and a pass in any order yields the matrix |
| `PairIsOfTheRow` | the pair drawn from a seed lies in the row, within a bounded number of words |
| `BankIsAnOrder` | what Fisher-Yates leaves in a bank is an order of the row |
| `DerivedOrderIsAnOrder` | so is the affine order of a derived pair |
| `DrawsTakeTheirWords` | `DrawsAreOfTheirWords`: both, and that each takes the words it counts and each once; that the walk without multiplication is the closed form; that the rate covers the steps of a fill and is the least that does, and when the fill with its setup clock is in time |

The sums are over lists of any length, and there is no induction rule to cite. What
replaces it is `LeastNatural` (a non-empty set of naturals has a least member): of the set
of counterexamples take the least, and its predecessor contradicts it. In this way
`SumsExist` shows that the recursive function `PrefixSum` has a solution,
`PrefixSumEquation` that it satisfies its equation, and the rest follows from the
equation. `NextOffsetIsModular` is one step of the Core: with an offset below N and a
weight of at most N, one comparison and one subtraction are the residue, and the width is
never felt. `EvaluatorIsReference` does not need the weights to be legal: given the
reference's offset, the cell of a row that wraps several times is still right.

Counting is by bijections (`CountByMap`). The columns that a row marks are the places
`0 .. w - 1` after its offset (`RowCount`), and the rows that mark column `j` are the
integers below the total whose residue is `j`: every such integer lies in the interval of
one row (`EveryIntegerHasARow`), and an interval of at most N integers holds a residue
once (`ResiduesAreApart`). The latter is where legality is needed.

`StreamContract` is not inductive: the offsets that have been emitted do not determine the
next one. `StreamInv` adds the two registers the next ones come from: `offset_q` is the
reference for all the weights taken, `offset_out`, while valid, for all but the last. A
further weight leaves the references of the rows before it alone (`PrefixSumAgrees`).

The forms of `ReferenceAgrees` are sums over functions, and the fold of the library is
defined by a choice among recursions on the subsets of a set. `LoopExists` (a recursion
along a rank in the naturals has a solution, again from `LeastNatural`) gives the fold its
equation (`SumEquation`), with the subsets ranked by their size. It takes elements in the
order of the choice, so the next lemma is that any element can be the last (`SumPoint`);
after it, sums are added, reindexed and compared freely. The forms agree cell by cell
(`CellsOfTheMatrix`): the interval, the residues and the row that wraps mark the
same columns, each once. `PassInv` says that a list is of weights of at most N, that an
order that was drawn names every column once, and that a pass is the visits of its first
steps; so a whole pass is the sum of the loads, reindexed (`WholePass`), and moving weight
between rows leaves the loads alone (`PerturbKeepsTheSum`).

The draws are loops that end because of what the stream holds. Every masked word is at
most its mask, a word 0 passes any range, and a word 1 is coprime to anything: hence a
rejection loop ends within a period (`RejectionsEnd`), and so does the search for a
multiplier (`CoprimeDrawEnds`). `LoopExists` gives each of the recursive functions its
equation, ranked by what it has left. Euclid's subtractions keep the greatest common
divisor (`EuclidKeepsTheGcd`) and end at it. That an affine order is a permutation is that
multiples of a number coprime to N differ modulo N (`MultiplesAreApart`); that a bank is
one, that a swap of two entries keeps one (`SwapKeepsAnOrder`). `DrawsAreOfTheirWords` follows
the words one by one: a run over a stretch of the stream is the runs over its parts
(`FromTo`, `RunExists`), so a draw ends at the word it counted to and not before.

### The peripheral: `BcmcWb_proofs`

| Theorem | States |
|---|---|
| `Invariance` | `Spec => []IInv` |
| `TypeCorrect` | `TypeOK`: no register leaves its width, no pointer its memory |
| `ContractsAlwaysKept` | `ContractsKept`: what Core and context demand of their caller |
| `ValidNeverStale` | `ValidIsCurrent` |
| `OffsetsStayBelowN` | `OffsetsBelowN`: with a legal context the single subtraction is a reduction |
| `ReadsAnswerTheMatrix` | `AnswersAreTheMatrix`: an acknowledged read carries the characteristic matrix |
| `CompletionsAreNeverLost` | `CompletionNotLost` |
| `RefusalsAreSilent` | `RefusalIsSilent` |
| `RequestsLandOnce` | `OneServicePerResponse` |
| `LatencyIsFixed` | `FixedLatency`: C + 3 clocks after the one that accepts START, whatever the bus does |
| `Refinement` | `KeepsThePromise`: `BcmcWb` implements `BcmcTransform` |

`ValidIsCurrent` is not inductive: when VALID rises, the offset window must already
be right, and that is a fact about the whole stream before. `IInv` adds `StreamInv`:
while weights stream, the window holds the chain of offsets up to `wr_ptr` and zeros
above it, the offset on its way from the Core to the window continues the chain, and
so does the one in the Core. `ContractsKept` keeps the two pointers together and
`BoundInv` carries "below N" along. The proof of a step goes by the part of the
invariant and, under it, by the state of the sequencer. That BUSY freezes the
context (`BusyFreezesContext`) is what makes a chain over live memories stay true.
`ReadsAnswerTheMatrix` is `ValidIsCurrent` and `ColumnsAreReference` together: the stored
chain is the reference's, so the bits computed from it in the clock of the read are too.
The refinement maps IDLE edges to `Program`, `AcknowledgeIrq` or a stutter, START to
`Begin`, the edge of `done` to `Complete`, and everything else to a stutter.

### The behavioural peripheral, its clients and the driver: `BcmcRegs_proofs`

| Theorem | States |
|---|---|
| `ClientContract` | `DeviceContract`: VALID, latency and answers, under jobs and any accesses between them |
| `ClientIsServed` | `ClientSucceeds`: a job is never refused, polls no longer than the transform takes, and reads exactly its own matrix |
| `LoadStatusIsTrue` | `LoadTellsTheTruth`: a `bcmc_load` that fails has left the context alone, and none fails for lack of time |
| `LoadDoesWhatItSays` | `LoadedIsRequested`: after OK the peripheral holds the valid transform of the arguments |
| `HandlerDoesNoHarm` | `HandlerIsHarmless`: what a handler may cost the call it interrupts |

The peripheral comes first. `DeviceInv` says that VALID stands over the transform of the
registers as they are now, that the offsets of a running transform are that too, and that
VALID excludes BUSY. The golden model computes the offsets by a recursion;
`ReferenceIsChain` shows that the reference solves it (`StreamIsTransform`), so that every
answer over VALID is the definition's bit, word or offset (`ValidIsReference`). What each
access does to the record is stated once (`AdvanceEffect`, `WrittenEffect`, `ReadAdmitted`
and their like), and client and driver cite it.

A client's promise is about a list of accesses, and a list is walked one access at a time.
`SessionInv` says how far: what is left of the plan is the tail of the job's accesses;
after `progress` of them the registers written so far hold what the job wants
(`ProgramInv`, in the order in which `program` writes them); the peripheral is idle until
the START, busy at the poll, valid after it; the queries stand where the reading has got
to, and so do the answers (`ReadingInv`); and each answer so far is the one expected. The
poll bound is the equation `polled + dev.remaining = dev.latency`: a poll that finds BUSY
uses up one access of the transform. The lists are concatenations of lists;
`FlattenBlocks` gives the entry at a place of one that is made of blocks of equal
length, from which `ColumnsAre` and the two lemmas after it read off which access comes
when. That the job ends with all of its answers and no more is that the two ways of
counting, accesses made and answers got, meet at the end only there.

`DriverInv` is the same for the driver, with a handler between any two accesses. Its parts
answer to the parts of the properties: `LoadInv` (the context is the one before the call
until the first write, which is refused if anything runs; from there on nothing runs and
no access is refused), `IrqInv` (CTRL as main read it is CTRL as it is, or the handler has
written it), `ColumnInv` (each word read so far is a word of the column asked for, as long
as the handler has asked no query), and `HandlerInv` (what is left of the handler, and
that `moved` is set if a query is in it). A handler delays main but never shortens a
transform, and its accesses use up time of it: hence `<=` where the client has `=`. The
assumption on time is the driver's own (`sw/bcmc.h:277`): a poll takes a clock or more, so
no transform of C rows outlasts C + 4 of them. With it, `poll_bound` is never reached, for
every C and every margin above 0.

### The golden models: `BcmcGolden_proofs`

| Theorem | States |
|---|---|
| `CoupledAlways` | `Coupled`: the registers of the golden and the hardware engine correspond |
| `Lockstep` | `OutputsAgree`: no output of the one ever differs from the other's |
| `PinsLockstep` | `PinsAgree`: nor do the pins behind them |
| `RequestsAreConserved` | `Conservation`: no accepted request is unaccounted for |
| `WindowInvAlways` | `WindowSpec => []WindowInv` |
| `WindowPassIsPermutation` | `PassIsPermutation`: a pass of the identity or the shuffled source presents every column once |
| `WindowKeepsItsContract` | `WindowContract`: its buffer, its registers and its ABORTED |

Agreement of the outputs is not inductive, because a cursor shows only when it is
asked. `Coupled` relates the registers, and adds that a running cursor of a valid row
stands below N: this is what makes the golden `tq + 1 = N` and the hardware's
`tq = N - 1` at the register width the same condition, also for `N = 0`, where the
latter is `ValRange - 1`. For the engines the sources may answer anything; what the proof
needs of the environment is that the context is replaced only with a fall of valid. The
pins need a little more: a visit names a column of the row, since outside it the golden
cell reduces modulo N what the hardware cell compares at the register width.
`PinsInv` says that the two stages hold one pattern and that a pattern that outlives its
matrix is on its way out. `Accounted` adds to `Conservation` that a visit which is due
over a context that is gone is the first one lost since the fall of valid.

The golden window fills its banks by the words of a seed, so its proof rests on
`BankIsAnOrder`. `WindowInv` has four parts. `EngineInv`: a pass has a step and a column of
the row, and the sources were last asked for the step that follows. `AffineInv` and
`BufferInv`: what the sources hold is of the row they were loaded with; a bank is an order
or there is none, the fill in work is an order for a slot without a bank, a slot without
one is being filled, and once the start-up is over the slot that plays holds a bank.
`PassInv`: the columns shown are the first entries of the order that plays, all of it at
the last step, where the boundary may have changed the banks already; a pass whose START
changed the selector joins at the first step 0 with its source ready, where the columns
shown are that of step 0 alone. An access, a change
of the sideband and the tick that takes both are steps of their own, so the parts speak of
the cycle between them too: `moved` marks a context that has gone under a pass which does
not know it yet.

### The scan: `BcmcScan_proofs`

| Theorem | States |
|---|---|
| `PassFollowsOneOrder` | `Spec => []PassInv` |
| `PassesArePermutations` | `PassIsAPermutation`: a pass that is done presented each column once |
| `AbortsAreMarked` | `IncompletePassIsMarked` |
| `OneMatrixAtATime` | `Spec => []MatrixInv` |
| `PassesShowOneMatrix` | `PassOfOneMatrix`, over legal contexts |
| `PinsAlwaysKeepTheContract` | `PinsContract`, its last part over legal contexts |

That a finished pass is a permutation is not inductive: it follows from the steps the
pass took. `PassInv` says that the visits so far are the first entries of one
permutation (`Follows`). It cannot say "of `order`": a source may prepare the order of
the next pass in the clock in which the last column of this one is presented, so the
invariant asserts that some permutation is followed and that it is still `order`
until the last step. The step `N - 1` then makes the visits all of it, and that they
are all of the row is a count of distinct elements.

`MatrixInv` is about the hardware's own bits, in every context: the history of the pass
and the held pattern are columns of the matrix that is valid now, because valid falls
before anything they depend on can change, and the first clock without it empties the
register. That these bits are the reference's holds where the reference defines a matrix:
`LegalContext` (a lane for every row, weights of at most N) is the hypothesis of the last
two theorems, because the repository makes no claim about other contexts; that a pass
and the pins never mix two contexts is `MatrixInv`, which has no such hypothesis. The
run also has rows of one column with weights above N, over which the bits happen to agree.

### The shuffled source: `BcmcShuffled_proofs`

| Theorem | States |
|---|---|
| `SourceInvariance` | `Spec => []ShuffledInv` |
| `BanksAreIsolated` | `BankIsolation`: a fill never touches the bank that is read |
| `SourceKeepsItsContract` | `SourceContract`: banks that may be played are whole permutations |
| `PassesPlayOneBank` | `PassPlaysOneBank`: a pass presents the bank it began with |
| `RepeatsAreReported` | `RepeatIsReported`: underrun means a repeat, and the converse |

Here banks have at least 2 entries (not necessarily a power of two), LEAD is 1 or 2, and
the rows are any values of the register with 0 among them.
`ShuffledInv` has four parts besides the types. `FillInv`: the bank in work is marked
EMPTY, and at every index of the shuffle it is a permutation of the row (unwritten
entries read as their own index, and a swap permutes a permutation), so nothing need
be said about how far the fill has come. `BanksInv`: a bank that is not EMPTY is the
whole one its history remembers. `StartUpInv`: the first fill goes to the bank played
first, so that from the first completed fill on the bank in play holds something; this
carries `BankIsolation` across the exchange, where the bank that is read is not the
one in `playing_q`. `PlayInv`: until its last step, the bank of a live pass is the one
in play; at the last step the seam already asks about step 0 of the next pass, and the
exchange may have happened. `RepeatsAreReported` needs one more, `ReportInv`: between
the boundary and the pass that follows it, which may be far apart, `underrun_q` tells
whether the bank in play has been played. The row of the window's copy `n_q` stands for N
except in the clock of a change.

### The register window: `BcmcObsWb_proofs`

| Theorem | States |
|---|---|
| `WindowInvariant` | `Spec => []ObsWbInv` |
| `ReadyPairsAreOfTheRow` | `ReadyPairIsOfTheRow`: a ready pair is the one its seed defines for the present row |
| `WalkInvariant` | `WalkSpec => []WalkInv` |
| `WalksAreAffine` | `WalkIsAffine`: on any walk the RTL's source and its golden model have the pair of the seed and answer its closed form |
| `PassesFollowTheirSource` | `PassFollowsItsSource`: every visit of the identity or the affine source that is owed its order shows it |
| `AbortIsReported` | `AbortedIsReported` |
| `AccessesAreAlwaysSafe` | `AccessesAreSafe` |

The derivation comes first, because a pair must be the seed's before it can be walked. It is
clocked: a word, a subtraction or a bit of the mask at a time, while the definition
`derive_ab` is a search. `DerivationInv` relates the two by what is left: the draw from
the position that has been reached gives what the draw from the beginning gives, the two
numbers of the Euclid have the greatest common divisor of the multiplier and the row, the
mask is on its way to the mask of the range. At the end nothing is left, and the pair is
the one defined.

The argument for a pass then has three parts. What a derivation draws is inside the row
(`DeriveInv`). While a pass lives nothing that the window accepts loads its source, changes its selector
or its row, because START needs an idle engine and every other write of those is refused
or aborts the pass. And the accumulator of a source that is not loaded walks the closed
form (`AffineAdvances`), although it follows the question one clock behind: the engine
asks for the step it presents or for the next one, and `ObsPassInv` says that the
accumulator stands for one of the two. A pass that was begun over a source that was not
ready joins them at the first step 0 at which it is: there the answer is b whatever the
accumulator held, and it takes b over (`SettledAtZero`). `AbortInv` beside it says that an
abort which the window has not seen yet is not acknowledged, and that a pass that runs is
not aborted; `AbortedIsReported` follows from step to step with those two.

`WalkInv` is the same for the source by itself, beside the golden one, where walks die and
rows change in any clock: `PairsInv` is `DerivationInv`, with the words the golden model
was given; `AccumulatorsInv` says where both accumulators stand while a walk lives, at the
step asked about last, which is the one of now or the one before.

### Only model-checked

* All liveness (`TransformEnds`, `RunCompletes`, `PassEnds`, `StartUpCompletes`,
  `DerivationEnds`, `ReadinessReturns`) is beyond the prover, which has no ENABLED and no
  rule for a variant under fairness.

Every invariant that a passing run checks is also a theorem. The runs keep their use:
they show that the cases which the theorems speak of occur, and the mutants are theirs.

## 6. Disagreements between the code and what is said of it

**The seed that is loaded** (run `obs_wb_seed`, the one finding). "A write loads every
instantiated source" (`docs/Observer_Register_Map.md`, OBS_SEED). In `bcmc_obs_wb.v` the
load pulse is raised in the clock of the write (line 211), and the sources take
`seed_q` in that clock, which still holds the previous seed. The pair derived next is
the previous seed's, and SEED_READY rises over it. A second write of the same seed, or
any later load, corrects it. The golden window assigns the seed first and does not
show this.

Met while modelling, and excluded by name from the properties they would break:

* **The golden affine source inside the golden window** is one step ahead.
  `observer_periph_v2c.py:145` gives the engine the source itself, whose accumulator
  the tick has moved already: for N = 5 and seed 7 a pass presents 2, 4, 0, 1, 2.
  `PassIsPermutation` and `WindowPassIsPermutation` therefore do not cover the affine
  source, whatever the START; `BcmcAffineWalk` shows that the golden source, ticked as its
  own walk does, is right.
* **A selector changed by the write that starts.** "O1 holds unconditionally"
  (`docs/Traversal_Sources_Specification.md:752`). `bcmc_obs_wb.v:233` judges START by
  the readiness of the source selected before, and the same write loads the new one: the
  pass runs over a source that is being derived. The golden window does the same
  (`observer_periph_v2c.py:205`). In both models the history `mixed` marks such a pass from
  its START until it presents a step 0 over a ready source, in the hardware window also any
  step of the identity: only these visits are excluded from `PassFollowsItsSource`, and only
  a pass that ends before is excluded from `PassIsPermutation`. That they are out of order
  is the code's behaviour, so no property forbids it.
* **The required rate leaves out the setup clock.** `required_rate` says of itself that it
  is "section 5.4's *sustained* condition" (`validation/traversal_sources.py:304`) and is the
  least R with `N * R >= c_fill(N)`. The condition there is `N * R >= setup + c_fill(N)` with
  setup = 1 (`docs/Traversal_Sources_Specification.md:454` and `:523`), and the source pays
  that clock (`traversal_sources.py:553`, here `fill_clocks`). For N = 4 and one rejected
  word the steps are 4, the rate is 1, and the bank takes 5 clocks of a pass of 4. The
  document itself keeps the old formula at `:535`. `RateCoversTheFill` states what the rate
  does give, the clock it misses, and when.
* **SEED_UNDERRUN survives RESET**: `bcmc_obs_wb.v:460` against
  `docs/Observer_Register_Map.md:363`.
* **ABORTED is one clock late** (`bcmc_obs_wb.v:471`): a START in that clock is followed
  by an ABORTED of the pass before, against T4 of `docs/Observer_Register_Map.md:472`.
  `AbortedIsReported` allows that clock and no other.
* **An abort can be acknowledged unseen.** In the clock after an abort ABORTED still reads
  0 and RUNNING does too, and a write of 1 to ABORTED that arrives then wins over the latch
  (`bcmc_obs_wb.v:471` and `:475`): the abort is never shown, against "the three endings
  of section 3.10, each visible in exactly one bit combination"
  (`docs/Observer_Register_Map.md:349`). `AbortedIsReported` names this clock. An end of
  pass cannot be lost in this way (`AccessesAreSafe`).
* **The underrun flag is not sticky.** `bcmc_src_shuffled.v:124` comments `underrun_q` as
  "sticky until load"; it is a level that the next good boundary clears, and
  `RepeatIsReported` speaks of the level.
* **C above MAX_C is accepted.** "`C > MAX_C` is refused under E1"
  (`docs/Register_Map.md:126`). The register takes it (`bcmc_wb.v:543`,
  `bcmc_periph.py:396`), and only an access to a WEIGHT beyond the window errs; a START
  over it transforms the lanes there are. The run `peripheral` has such a C.
* **Two assertions in the sources** (`bcmc_src_affine.v:385`, `bcmc_src_shuffled.v:436`)
  fire on legal input: for one clock after N changes the registers belong to the old
  row. Nothing follows from it, as `BcmcShuffledPass` and `BcmcAffineWalk` show: no START
  is granted in that clock. The assertions are too strong, not the code wrong.

## 7. Plan

What is left, in order of what it would add:

1. An abstract traversal source (in each clock while ready, an answer of one fixed
   permutation per pass), shown to be implemented by both hardware sources; it would
   replace `order` in `BcmcScan` and the shuffled input of `BcmcObsWb`.
2. `FillIsApart` and `NoIdleSlot` for any LEAD.
3. `sw/bcmc_observer.c`: the cursor and its refusals over the orders of `BcmcOrders`.
4. OBS_PASS and the values read from the windows.

## 8. Not modelled, and why

The SplitMix32 mixing function and its 32-bit arithmetic (a fixed computation,
compared by vectors in `sim/`; the models cover every output, and use of it only that
its counter has a full period). IRQ_EN's gating of the interrupt pin (one AND). Bit
layout of registers and the classes of bad addresses beyond "refused". X propagation
and the initial contents of memories before reset. Bank sizes that are no power of
two, which the RTL refuses. OBS_PASS, a counter nothing depends on. Null-pointer
checks, diagnostics and the version test of the C driver. The headline measurements at
the end of `traversal_sources.py`, and the exploratory scripts `test1.py` to
`test5.py`. Vector generators, benches and test suites have no protocol of their own;
two of the generators, which drive the affine source and the output engine, were read as
environments, and the assertions of the benches as statements about the modules.
Examples are callers of the driver and print what they read.
