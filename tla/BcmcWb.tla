------------------------------- MODULE BcmcWb -------------------------------
(***************************************************************************)
(* rtl/bcmc_wb.v: the Wishbone peripheral, composed of its registers, the  *)
(* sequencer, the Core (rtl/bcmc_core.v) and the persistent context        *)
(* (rtl/bcmc_context.v), all on one clock.  A step is one rising edge of   *)
(* wb_clk_i; r is what the bus master drives during the clock before it.   *)
(* The master is arbitrary: it may hold stb through a response, change its *)
(* mind, and issue any access in any state.                                *)
(***************************************************************************)
EXTENDS BcmcContext

CONSTANTS
  IdxRange,                      \* 2^IDX_W
  WordBits,                      \* rows per COLUMN word: 32 in the RTL
  Requests                       \* what the master may drive in one clock

Idx == 0 .. IdxRange - 1

\* The register file; "ID" stands for the two constant registers beside CAPS,
\* "NONE" for every address nothing is mapped at.
Adr == {"ID", "CAPS", "CTRL", "STATUS", "N", "C", "CELL_ROW", "CELL_COL",
        "CELL", "COLUMN", "WEIGHT", "OFFSET", "NONE"}
ReadOnly == {"ID", "CAPS", "CELL", "COLUMN", "OFFSET"}
Matrix == {"CELL", "COLUMN", "OFFSET"}

\* stb: wb_cyc_i and wb_stb_i.  word: the address is aligned and all byte lanes
\* are selected.  idx: the word of a window or of the COLUMN span.  dat is the
\* numeric field of the data written, bits its flags.
Request == [stb: BOOLEAN, we: BOOLEAN, word: BOOLEAN, adr: Adr, idx: Nat,
            dat: Nat, bits: SUBSET {"START", "IRQ_EN", "IRQ"}]

ASSUME WbAssumption ==
  /\ IdxRange \in Nat /\ MaxC < IdxRange
  /\ WordBits \in Nat \ {0}
  /\ Requests \subseteq Request

VARIABLES
  n_q, c_q, cell_row_q, cell_col_q,
  valid_q, irq_q, irq_en_q,
  seq,            \* "IDLE", "KICK" or "STREAM"
  stream_ptr,     \* weights presented so far
  wb_ack_o, wb_err_o,
  wb_dat_o,       \* the word last read: a field as {value}, flags and columns
                  \* as the set of the bit positions that are 1
  core_state, core_offset_q, core_row_q, core_n_q, core_c_q,
  core_offset_out, core_offset_valid

Core == INSTANCE BcmcCore WITH
  state <- core_state, offset_q <- core_offset_q, row_q <- core_row_q,
  n_q <- core_n_q, c_q <- core_c_q, offset_out <- core_offset_out,
  offset_valid <- core_offset_valid

coreVars == <<core_state, core_offset_q, core_row_q, core_n_q, core_c_q,
              core_offset_out, core_offset_valid>>
regVars == <<n_q, c_q, cell_row_q, cell_col_q, valid_q, irq_q, irq_en_q>>
seqVars == <<seq, stream_ptr>>
busVars == <<wb_ack_o, wb_err_o, wb_dat_o>>
vars == <<regVars, seqVars, busVars, coreVars, contextVars>>

TypeOK ==
  /\ n_q \in Val /\ cell_col_q \in Val
  /\ c_q \in Idx /\ cell_row_q \in Idx /\ stream_ptr \in Idx
  /\ valid_q \in BOOLEAN /\ irq_q \in BOOLEAN /\ irq_en_q \in BOOLEAN
  /\ seq \in {"IDLE", "KICK", "STREAM"}
  /\ wb_ack_o \in BOOLEAN /\ wb_err_o \in BOOLEAN
  /\ wb_dat_o \in SUBSET Nat
  /\ Core!CoreTypeOK /\ ContextTypeOK

Init ==
  /\ n_q = 0 /\ c_q = 0 /\ cell_row_q = 0 /\ cell_col_q = 0
  /\ valid_q = FALSE /\ irq_q = FALSE /\ irq_en_q = FALSE
  /\ seq = "IDLE" /\ stream_ptr = 0
  /\ wb_ack_o = FALSE /\ wb_err_o = FALSE /\ wb_dat_o = {}
  /\ Core!CoreInit /\ ContextInit

-----------------------------------------------------------------------------
(* Address decode and the error model E1 .. E4.                            *)

busy == seq # "IDLE"

column_words == (MaxC + WordBits - 1) \div WordBits

mapped(r) ==
  /\ r.adr # "NONE"
  /\ r.adr = "COLUMN" => r.idx < column_words
  /\ r.adr \in {"WEIGHT", "OFFSET"} => r.idx \in Lanes

starts(r) == r.we /\ r.adr = "CTRL" /\ "START" \in r.bits

e_dir(r) == r.we /\ r.adr \in ReadOnly

\* Mutants of e_state: N may change under a transform, and a read may see a
\* context that is not valid.
e_state_open_n(r) ==
  \/ busy /\ r.we /\ r.adr \in {"C", "WEIGHT"}
  \/ busy /\ starts(r)
  \/ (busy \/ ~valid_q) /\ ~r.we /\ r.adr \in Matrix

e_state_any_read(r) ==
  \/ busy /\ r.we /\ r.adr \in {"N", "C", "WEIGHT"}
  \/ busy /\ starts(r)

e_state(r) ==
  \/ busy /\ r.we /\ r.adr \in {"N", "C", "WEIGHT"}
  \/ busy /\ starts(r)
  \/ (busy \/ ~valid_q) /\ ~r.we /\ r.adr \in Matrix

err_now(r) == ~mapped(r) \/ ~r.word \/ e_dir(r) \/ e_state(r)

\* Mutants of access and do_write: a held request is serviced again, and a
\* refused write still lands.
access_held(r) == r.stb
do_write_refused(r) == r.stb /\ ~wb_ack_o /\ ~wb_err_o /\ r.we

\* The one clock in which a request is serviced.
access(r) == r.stb /\ ~wb_ack_o /\ ~wb_err_o
do_write(r) == access(r) /\ r.we /\ ~err_now(r)
do_read(r) == access(r) /\ ~r.we /\ ~err_now(r)
start_write(r) == do_write(r) /\ starts(r)
writes(r, adr) == do_write(r) /\ r.adr = adr

-----------------------------------------------------------------------------
(* The projection and the read data.                                       *)

column_bits ==
  {i \in Lanes : ColumnBit(i, cell_col_q, n_q, c_q, weight_mem, offset_mem)}

column_word(k) == {b \in 0 .. WordBits - 1 : k * WordBits + b \in column_bits}

rdata(r) ==
  CASE r.adr = "CAPS"     -> {MaxC}
    [] r.adr = "CTRL"     -> {b \in {1} : irq_en_q}
    [] r.adr = "STATUS"   -> {b \in 0 .. 2 : \/ b = 0 /\ busy
                                             \/ b = 1 /\ valid_q
                                             \/ b = 2 /\ irq_q}
    [] r.adr = "N"        -> {n_q}
    [] r.adr = "C"        -> {c_q}
    [] r.adr = "CELL_ROW" -> {cell_row_q}
    [] r.adr = "CELL_COL" -> {cell_col_q}
    [] r.adr = "CELL"     -> {b \in {0} : cell_row_q \in column_bits}
    [] r.adr = "COLUMN"   -> column_word(r.idx)
    [] r.adr = "WEIGHT"   -> {ReadLane(weight_mem, r.idx)}
    [] r.adr = "OFFSET"   -> {ReadLane(offset_mem, r.idx)}
    [] OTHER              -> {}

-----------------------------------------------------------------------------
(* One rising edge: the bus response, the registers, the Core, the context *)
(* and, by the state of the sequencer, one of its five steps.              *)

BusResponse(r) ==
  /\ wb_ack_o' = (access(r) /\ ~err_now(r))
  /\ wb_err_o' = (access(r) /\ err_now(r))
  /\ wb_dat_o' = IF do_read(r) THEN rdata(r) ELSE wb_dat_o

RegisterWrites(r) ==
  /\ irq_en_q' = IF writes(r, "CTRL") THEN "IRQ_EN" \in r.bits ELSE irq_en_q
  /\ n_q' = IF writes(r, "N") THEN r.dat % ValRange ELSE n_q
  /\ c_q' = IF writes(r, "C") THEN r.dat % IdxRange ELSE c_q
  /\ cell_row_q' = IF writes(r, "CELL_ROW") THEN r.dat % IdxRange
                                            ELSE cell_row_q
  /\ cell_col_q' = IF writes(r, "CELL_COL") THEN r.dat % ValRange
                                            ELSE cell_col_q

\* Mutant of invalidates: a new C is taken for a change of nothing.
invalidates_not_c(r) == do_write(r) /\ r.adr \in {"N", "WEIGHT"}

invalidates(r) == do_write(r) /\ r.adr \in {"N", "C", "WEIGHT"}
clears_irq(r) == writes(r, "STATUS") /\ "IRQ" \in r.bits

core_start == seq = "KICK"
core_done == Core!done

\* Mutants of core_weight_valid: the stream waits for the bus, and the stream
\* stops one weight short.
core_weight_valid_polite ==
  seq = "STREAM" /\ Core!busy /\ stream_ptr # c_q /\ ~wb_ack_o
core_weight_valid_short ==
  seq = "STREAM" /\ Core!busy /\ stream_ptr + 1 < c_q

core_weight_valid == seq = "STREAM" /\ Core!busy /\ stream_ptr # c_q

CoreEdge ==
  Core!Edge(core_start, n_q, c_q,
            core_weight_valid, ReadLane(weight_mem, stream_ptr))

ContextEdge(r) ==
  /\ Ownership(seq = "KICK", seq = "STREAM" /\ core_done)
  /\ WeightWindow(writes(r, "WEIGHT"), r.idx, r.dat % ValRange)
  /\ OffsetWindow(seq = "KICK", core_offset_valid, core_offset_out)

Datapath(r) ==
  BusResponse(r) /\ RegisterWrites(r) /\ CoreEdge /\ ContextEdge(r)

\* SEQ_IDLE without an accepted START: software owns the context.
IdleEdge(r) ==
  /\ seq = "IDLE" /\ ~start_write(r)
  /\ Datapath(r)
  /\ valid_q' = (valid_q /\ ~invalidates(r))
  /\ irq_q' = (irq_q /\ ~clears_irq(r))
  /\ UNCHANGED seqVars

\* SEQ_IDLE and an accepted START: VALID falls in the edge BUSY rises.
StartEdge(r) ==
  /\ seq = "IDLE" /\ start_write(r)
  /\ Datapath(r)
  /\ seq' = "KICK" /\ stream_ptr' = 0
  /\ valid_q' = FALSE
  /\ UNCHANGED irq_q

\* SEQ_KICK: start to the Core and load_start to the context.
KickEdge(r) ==
  /\ seq = "KICK"
  /\ Datapath(r)
  /\ seq' = "STREAM"
  /\ valid_q' = (valid_q /\ ~invalidates(r))
  /\ irq_q' = (irq_q /\ ~clears_irq(r))
  /\ UNCHANGED stream_ptr

\* SEQ_STREAM: one weight per clock until C have gone in, then wait for done.
StreamEdge(r) ==
  /\ seq = "STREAM" /\ ~core_done
  /\ Datapath(r)
  /\ stream_ptr' = IF core_weight_valid THEN stream_ptr + 1 ELSE stream_ptr
  /\ valid_q' = (valid_q /\ ~invalidates(r))
  /\ irq_q' = (irq_q /\ ~clears_irq(r))
  /\ UNCHANGED seq

\* Mutant of CompleteEdge: a write of STATUS.IRQ in the same clock wins.
CompleteEdgeClearWins(r) ==
  /\ seq = "STREAM" /\ core_done
  /\ Datapath(r)
  /\ seq' = "IDLE"
  /\ valid_q' = TRUE /\ irq_q' = ~clears_irq(r)
  /\ UNCHANGED stream_ptr

\* SEQ_STREAM and done: the context is complete.  Setting VALID and IRQ comes
\* after the register writes in the block, so it wins over a clear.
CompleteEdge(r) ==
  /\ seq = "STREAM" /\ core_done
  /\ Datapath(r)
  /\ seq' = "IDLE"
  /\ valid_q' = TRUE /\ irq_q' = TRUE
  /\ UNCHANGED stream_ptr

\* wb_rst_i, which the modules share.
Reset ==
  /\ n_q' = 0 /\ c_q' = 0 /\ cell_row_q' = 0 /\ cell_col_q' = 0
  /\ valid_q' = FALSE /\ irq_q' = FALSE /\ irq_en_q' = FALSE
  /\ seq' = "IDLE" /\ stream_ptr' = 0
  /\ wb_ack_o' = FALSE /\ wb_err_o' = FALSE /\ wb_dat_o' = {}
  /\ Core!ResetCore /\ ResetContext

Clock(r) ==
  IdleEdge(r) \/ StartEdge(r) \/ KickEdge(r) \/ StreamEdge(r) \/ CompleteEdge(r)

Next == Reset \/ \E r \in Requests : Clock(r)

Spec == Init /\ [][Next]_vars

\* The only fairness is that of the clock, whatever the master drives.
FairSpec == Spec /\ WF_vars(\E r \in Requests : Clock(r))

-----------------------------------------------------------------------------
(* Properties.                                                             *)

\* The contracts the wrapper owes the modules below it, which they assert in
\* simulation: the context belongs to the transform exactly while weights
\* stream, the Core runs only then and on the N and C of the register file, it
\* is shown row stream_ptr and never more than C rows, and no offset arrives
\* at a context that software owns.
ContractsKept ==
  /\ loading_q = (seq = "STREAM")
  /\ (core_state # "IDLE") = (seq = "STREAM")
  /\ seq = "STREAM" => /\ core_n_q = n_q /\ core_c_q = c_q
                       /\ core_row_q = stream_ptr /\ stream_ptr <= c_q
  /\ core_offset_valid => seq = "STREAM" /\ core_state = "RUN"
  /\ core_done => stream_ptr = c_q

\* VALID means what it says: the offset window is the transform of the N, C and
\* weights programmed now, not of some earlier ones, no lane at or above C
\* keeps an offset of a longer instance, and no transform is under way.
ValidIsCurrent ==
  valid_q => /\ ~busy
             /\ IsTransform(offset_mem, Lanes, n_q, c_q, weight_mem)

\* The assertion of the Core, kept through the composition: with a legal
\* context the running offset stays below N, because no write that could make
\* a weight exceed N or change N is accepted between START and done.
LegalContext == c_q <= MaxC /\ Legal(n_q, c_q, weight_mem)

OffsetsBelowN ==
  LegalContext =>
    /\ core_state = "RUN" => core_offset_q < n_q
    /\ valid_q => \A k \in Lanes : offset_mem[k] < n_q

\* The strengthening that makes the two above inductive.  While weights stream,
\* the offset window holds the chain up to wr_ptr and zeros above it, the
\* offset on its way to the window continues the chain, and so does the one the
\* Core will emit next.
chain(k) ==
  IF k = 0 THEN 0 ELSE NextOffset(offset_mem[k - 1], weight_mem[k - 1], n_q)

StreamInv ==
  /\ seq = "KICK" => stream_ptr = 0 /\ ~valid_q
  /\ seq = "STREAM" =>
       LET stored == IF core_offset_valid THEN stream_ptr - 1 ELSE stream_ptr
       IN  /\ ~valid_q
           /\ stored >= 0
           /\ wr_ptr = IF stored < MaxC THEN stored ELSE MaxC
           /\ \A k \in Lanes : offset_mem[k] = IF k < wr_ptr THEN chain(k) ELSE 0
           /\ core_offset_valid /\ stored < MaxC => core_offset_out = chain(stored)
           /\ core_state = "RUN" /\ stream_ptr <= MaxC =>
                core_offset_q =
                  IF core_offset_valid
                  THEN NextOffset(core_offset_out, weight_mem[stored], n_q)
                  ELSE chain(stream_ptr)

BoundInv ==
  LegalContext /\ seq = "STREAM" =>
    /\ \A k \in Lanes : offset_mem[k] < n_q
    /\ core_offset_valid => core_offset_out < n_q

IInv == /\ TypeOK /\ ContractsKept /\ StreamInv /\ ValidIsCurrent
        /\ BoundInv /\ OffsetsBelowN

\* Clocks left until BUSY falls.
remaining ==
  CASE seq = "IDLE" -> 0
    [] seq = "KICK" -> c_q + 3
    [] seq = "STREAM" /\ core_state = "RUN" -> (c_q - stream_ptr) + 2
    [] OTHER -> 1

\* A transform takes C + 3 clocks after the one that accepts START, and no bus
\* traffic can stretch it: the driver's poll bound of C + 4 relies on it.
FixedLatency ==
  [][Reset \/ IF busy THEN remaining' = remaining - 1
                      ELSE remaining' \in {0, c_q + 3}]_vars

\* The end of a transform is never lost: VALID and IRQ are both up in the clock
\* after BUSY falls, whatever the master wrote in that very edge.
CompletionNotLost == [][busy /\ ~busy' => Reset \/ (valid_q' /\ irq_q')]_vars

\* A refused access has no side effect: apart from the transform's own progress
\* the edge that refuses it is the edge of an idle bus.
RefusalIsSilent ==
  [][wb_err_o' =>
       /\ UNCHANGED <<n_q, c_q, cell_row_q, cell_col_q, irq_en_q>>
       /\ UNCHANGED <<weight_mem, wb_dat_o>>
       /\ ~wb_ack_o'
       /\ ~busy => UNCHANGED <<valid_q, irq_q, seq>>
       /\ busy /\ busy' => UNCHANGED <<valid_q, irq_q>>]_vars

\* One request, one service: in the clock that carries the response nothing is
\* serviced, even if the master still holds stb with a write or with START.
OneServicePerResponse ==
  [][wb_ack_o \/ wb_err_o =>
       \/ Reset
       \/ /\ ~wb_ack_o' /\ ~wb_err_o'
          /\ UNCHANGED <<n_q, c_q, irq_en_q, weight_mem, wb_dat_o>>
          /\ ~busy => UNCHANGED <<seq, valid_q>>]_vars

\* Row i, column j of the matrix that the programmed context stands for.
Row(i, j) == i < c_q /\ RefBit(i, j, n_q, c_q, weight_mem)

\* A matrix read is acknowledged only with the answer of the matrix of the
\* programmed context, as the characteristic definition has it: never while
\* BUSY, never from offsets of an earlier context, in every word of the COLUMN
\* span.  It says nothing of a context that is illegal or of CELL_COL >= N.
AnswersAreTheMatrix ==
  [][\A r \in Requests :
       (r.adr \in Matrix /\ do_read(r) /\ LegalContext /\ Clock(r)) =>
         /\ r.adr = "OFFSET" =>
              wb_dat_o' = {IF r.idx < c_q
                           THEN RefOffset(r.idx, n_q, c_q, weight_mem) ELSE 0}
         /\ (r.adr = "COLUMN" /\ cell_col_q < n_q) =>
              wb_dat_o' = {b \in 0 .. WordBits - 1 :
                             Row(r.idx * WordBits + b, cell_col_q)}
         /\ (r.adr = "CELL" /\ cell_col_q < n_q) =>
              wb_dat_o' = {b \in {0} : Row(cell_row_q, cell_col_q)}]_vars

\* Every accepted START ends, under the fairness of the clock alone.
TransformEnds == busy ~> ~busy

\* BcmcWb implements the abstract peripheral: whatever the interleaving of
\* clocks and accesses, software sees a transform as one event.
Promise == INSTANCE BcmcTransform WITH
  N <- n_q, C <- c_q, W <- weight_mem, irq <- irq_q,
  status <- IF busy THEN "busy" ELSE IF valid_q THEN "valid" ELSE "invalid",
  offsets <- IF ~busy /\ valid_q THEN offset_mem ELSE [i \in Lanes |-> 0]

KeepsThePromise == Promise!AbsSpec
=============================================================================
