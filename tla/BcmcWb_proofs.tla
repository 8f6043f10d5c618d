--------------------------- MODULE BcmcWb_proofs ---------------------------
(***************************************************************************)
(* Proofs about BcmcWb, for every width, every capacity MAX_C and every    *)
(* set of bus requests: its invariants, what its reads answer, the timing  *)
(* of a transform, and that it implements BcmcTransform, where every edge  *)
(* is one event of the register map or none.                               *)
(***************************************************************************)
EXTENDS BcmcWb, BcmcArith_proofs

-----------------------------------------------------------------------------
(* The arithmetic.                                                         *)

\* A register keeps the low bits of the data written.
LEMMA TruncationType ==
  ASSUME NEW d \in Nat, NEW m \in Nat \ {0}
  PROVE  d % m \in 0 .. m - 1
  OBVIOUS

(* A lane is read as a value, also beyond the window.                      *)
LEMMA ReadLaneType ==
  ASSUME ContextTypeOK, NEW i \in Idx
  PROVE  ReadLane(weight_mem, i) \in Val
  BY ValRangeAssumption DEF ContextTypeOK, ReadLane, Val

-----------------------------------------------------------------------------
(* Initial states and reset.                                               *)

(* The peripheral after reset keeps IInv.                                  *)
LEMMA InitInv == Init => IInv
  <1> SUFFICES ASSUME Init PROVE IInv
    OBVIOUS
  <1> USE ValRangeAssumption, MaxCAssumption, WbAssumption
  <1>1. TypeOK
    <2>1. 0 \in Val /\ 0 \in Idx /\ 0 \in Core!Val /\ 0 \in Core!Idx
      BY DEF Val, Core!Val, Idx, Core!Idx
    <2>2. Core!CoreTypeOK
      BY <2>1 DEF Init, Core!CoreInit, Core!CoreTypeOK
    <2>3. ContextTypeOK
      <3>1. weight_mem \in [Lanes -> Val] /\ offset_mem \in [Lanes -> Val]
        BY <2>1 DEF Init, ContextInit
      <3>2. wr_ptr \in 0 .. MaxC /\ loading_q \in BOOLEAN
        <4>1. wr_ptr = 0 /\ loading_q = FALSE
          BY DEF Init, ContextInit
        <4>2. 0 \in 0 .. MaxC
          OBVIOUS
        <4> QED BY <4>1, <4>2
      <3> QED BY <3>1, <3>2 DEF ContextTypeOK
    <2> QED BY <2>1, <2>2, <2>3 DEF Init, TypeOK
  <1>2. ContractsKept
    BY DEF Init, ContractsKept, Core!CoreInit, ContextInit, core_done, Core!done
  <1>3. StreamInv /\ ValidIsCurrent
    BY DEF Init, StreamInv, ValidIsCurrent
  <1>4. BoundInv /\ OffsetsBelowN
    BY DEF Init, BoundInv, OffsetsBelowN, Core!CoreInit
  <1> QED BY <1>1, <1>2, <1>3, <1>4 DEF IInv

(* Reset leads to the initial registers.                                   *)
LEMMA ResetIsInit == Reset => Init'
  BY DEF Reset, Init, Core!ResetCore, Core!CoreInit, ResetContext, ContextInit

-----------------------------------------------------------------------------
(* What one edge does, by the state of the sequencer.                      *)

\* The instance's arithmetic is the arithmetic of this module.
LEMMA CoreArith ==
  ASSUME NEW o, NEW w, NEW n
  PROVE  Core!NextOffset(o, w, n) = NextOffset(o, w, n)
  BY DEF Core!NextOffset, NextOffset

\* The edge of the Core under the sequencer's control: of the disjuncts of its
\* always block exactly one is possible.
LEMMA CoreStep ==
  ASSUME IInv, CoreEdge
  PROVE  /\ seq = "IDLE" => Core!WaitStart
         /\ seq = "KICK" => Core!StartCore(n_q, c_q)
         /\ seq = "STREAM" /\ ~core_done /\ stream_ptr # c_q =>
              core_weight_valid /\ Core!Accept(ReadLane(weight_mem, stream_ptr))
         /\ seq = "STREAM" /\ ~core_done /\ stream_ptr = c_q =>
              ~core_weight_valid /\ Core!Finish
         /\ seq = "STREAM" /\ core_done => Core!Retire
  BY DEF IInv, TypeOK, ContractsKept, CoreEdge, core_start, core_weight_valid,
         core_done, Core!Edge, Core!StartCore, Core!WaitStart, Core!Accept,
         Core!Gap, Core!Finish, Core!Retire, Core!busy, Core!done,
         Core!rows_left, Core!CoreTypeOK

\* While BUSY every write that could disturb the context is refused, so N, C
\* and the weights stay what START found.
LEMMA BusyFreezesContext ==
  ASSUME busy, NEW r \in Requests, Datapath(r)
  PROVE  /\ UNCHANGED <<n_q, c_q, weight_mem>>
         /\ ~invalidates(r)
  <1>1. ~(do_write(r) /\ r.adr \in {"N", "C", "WEIGHT"})
    BY DEF do_write, err_now, e_state
  <1>2. ~writes(r, "N") /\ ~writes(r, "C") /\ ~writes(r, "WEIGHT")
    BY <1>1 DEF writes
  <1> QED
    BY <1>1, <1>2 DEF Datapath, RegisterWrites, ContextEdge, WeightWindow,
                      invalidates

\* The sequencer's own inputs to the context.
LEMMA ContextStep ==
  ASSUME IInv, NEW r \in Requests, ContextEdge(r)
  PROVE  /\ loading_q' = (seq = "KICK" \/ (seq = "STREAM" /\ ~core_done))
         /\ seq = "KICK" => ClearOffsets
         /\ seq = "STREAM" /\ core_offset_valid /\ wr_ptr \in Lanes =>
              StoreOffset(core_offset_out)
         /\ seq = "IDLE" \/ (seq = "STREAM" /\ ~(core_offset_valid /\ wr_ptr \in Lanes))
              => UNCHANGED <<offset_mem, wr_ptr>>
  BY DEF IInv, TypeOK, ContractsKept, ContextEdge, Ownership, OffsetWindow

-----------------------------------------------------------------------------
(* Types.                                                                  *)

(* The answers on the bus are of their types.                              *)
LEMMA BusType ==
  ASSUME TypeOK, NEW r \in Requests, BusResponse(r)
  PROVE  /\ wb_ack_o' \in BOOLEAN /\ wb_err_o' \in BOOLEAN
         /\ wb_dat_o' \in SUBSET Nat
  <1> USE WbAssumption, MaxCAssumption, ValRangeAssumption
  <1>1. column_word(r.idx) \in SUBSET Nat
    BY DEF column_word
  <1>2. \A i \in Idx : ReadLane(weight_mem, i) \in Nat /\ ReadLane(offset_mem, i) \in Nat
    BY DEF TypeOK, ContextTypeOK, ReadLane, Lanes, Val
  <1>3. \A i \in Nat : ReadLane(weight_mem, i) \in Nat /\ ReadLane(offset_mem, i) \in Nat
    BY DEF TypeOK, ContextTypeOK, ReadLane, Lanes, Val
  <1>4. r.idx \in Nat
    BY DEF Request
  <1>5. /\ {n_q} \in SUBSET Nat /\ {c_q} \in SUBSET Nat
        /\ {cell_row_q} \in SUBSET Nat /\ {cell_col_q} \in SUBSET Nat
        /\ {MaxC} \in SUBSET Nat
    BY DEF TypeOK, Val, Idx
  <1>6. /\ {ReadLane(weight_mem, r.idx)} \in SUBSET Nat
        /\ {ReadLane(offset_mem, r.idx)} \in SUBSET Nat
    BY <1>3, <1>4
  <1>7. /\ {b \in {1} : irq_en_q} \in SUBSET Nat
        /\ {b \in {0} : cell_row_q \in column_bits} \in SUBSET Nat
        /\ {b \in 0 .. 2 : \/ b = 0 /\ busy
                           \/ b = 1 /\ valid_q
                           \/ b = 2 /\ irq_q} \in SUBSET Nat
    OBVIOUS
  <1>8. rdata(r) \in SUBSET Nat
    BY <1>1, <1>5, <1>6, <1>7 DEF rdata
  <1>9. wb_dat_o \in SUBSET Nat
    BY DEF TypeOK
  <1>10. wb_dat_o' \in SUBSET Nat
    BY <1>8, <1>9 DEF BusResponse
  <1> QED BY <1>10 DEF BusResponse

(* A write keeps every register in its width.                              *)
LEMMA RegisterType ==
  ASSUME TypeOK, NEW r \in Requests, RegisterWrites(r)
  PROVE  /\ n_q' \in Val /\ cell_col_q' \in Val
         /\ c_q' \in Idx /\ cell_row_q' \in Idx /\ irq_en_q' \in BOOLEAN
  <1>1. r.dat \in Nat
    BY WbAssumption DEF Request
  <1>2. ValRange \in Nat \ {0} /\ IdxRange \in Nat \ {0}
    BY WbAssumption, ValRangeAssumption, MaxCAssumption
  <1>3. r.dat % ValRange \in Val /\ r.dat % IdxRange \in Idx
    BY <1>1, <1>2, TruncationType DEF Val, Idx
  <1>4. n_q' \in Val /\ cell_col_q' \in Val /\ c_q' \in Idx /\ cell_row_q' \in Idx
    BY <1>3 DEF RegisterWrites, TypeOK
  <1>5. irq_en_q' \in BOOLEAN
    <2>1. irq_en_q' = ("IRQ_EN" \in r.bits) \/ irq_en_q' = irq_en_q
      BY DEF RegisterWrites
    <2>2. ("IRQ_EN" \in r.bits) \in BOOLEAN /\ irq_en_q \in BOOLEAN
      BY DEF TypeOK
    <2> QED BY <2>1, <2>2
  <1> QED BY <1>4, <1>5

(* The pointers and memories of the context stay in their ranges.          *)
LEMMA ContextType ==
  ASSUME IInv, NEW r \in Requests, ContextEdge(r)
  PROVE  ContextTypeOK'
  <1> USE DEF IInv, TypeOK
  <1>1. r.dat % ValRange \in Val
    BY TruncationType, WbAssumption, ValRangeAssumption DEF Request, Val
  <1>2. weight_mem' \in [Lanes -> Val]
    BY <1>1 DEF ContextEdge, WeightWindow, ContextTypeOK
  <1>3. core_offset_out \in Val /\ 0 \in Val
    BY ValRangeAssumption DEF Core!CoreTypeOK, Core!Val, Val
  <1>4. offset_mem' \in [Lanes -> Val] /\ wr_ptr' \in 0 .. MaxC
    BY <1>3, MaxCAssumption DEF ContextEdge, OffsetWindow, ClearOffsets,
       StoreOffset, ContextTypeOK, Lanes
  <1>5. loading_q' \in BOOLEAN
    BY DEF ContextEdge, Ownership
  <1> QED BY <1>2, <1>4, <1>5 DEF ContextTypeOK

(* So do the registers of the Core.                                        *)
LEMMA CoreType ==
  ASSUME IInv, CoreEdge
  PROVE  Core!CoreTypeOK'
  <1>1. TypeOK /\ ContractsKept /\ Core!CoreTypeOK
    BY DEF IInv, TypeOK
  <1>2. ReadLane(weight_mem, stream_ptr) \in Val
    BY <1>1, ReadLaneType DEF TypeOK
  <1>3. Core!Val = Val /\ Core!Idx = Idx
    BY DEF Core!Val, Val, Core!Idx, Idx
  <1>4. seq \in {"IDLE", "KICK", "STREAM"}
    BY <1>1 DEF TypeOK
  <1>5. CASE seq = "IDLE"
    <2>1. Core!WaitStart
      BY <1>5, CoreStep
    <2> QED BY <1>1, <2>1 DEF Core!WaitStart, Core!CoreTypeOK
  <1>6. CASE seq = "KICK"
    <2>1. Core!StartCore(n_q, c_q)
      BY <1>6, CoreStep
    <2>2. 0 \in Val /\ 0 \in Idx
      BY ValRangeAssumption, WbAssumption, MaxCAssumption DEF Val, Idx
    <2> QED BY <1>1, <1>3, <2>1, <2>2 DEF TypeOK, Core!StartCore, Core!CoreTypeOK
  <1>7. CASE seq = "STREAM" /\ core_done
    <2>1. Core!Retire
      BY <1>7, CoreStep
    <2> QED BY <1>1, <2>1 DEF Core!Retire, Core!CoreTypeOK
  <1>8. CASE seq = "STREAM" /\ ~core_done /\ stream_ptr = c_q
    <2>1. Core!Finish
      BY <1>8, CoreStep
    <2> QED BY <1>1, <2>1 DEF Core!Finish, Core!CoreTypeOK
  <1>9. CASE seq = "STREAM" /\ ~core_done /\ stream_ptr # c_q
    <2>1. Core!Accept(ReadLane(weight_mem, stream_ptr))
      BY <1>9, CoreStep
    <2>2. core_offset_q \in Val /\ core_n_q \in Val
      BY <1>1, <1>3 DEF Core!CoreTypeOK
    <2>3. NextOffset(core_offset_q, ReadLane(weight_mem, stream_ptr), core_n_q) \in Val
      BY <1>2, <2>2, NextOffsetType
    <2>4. core_offset_q' \in Core!Val
      BY <1>3, <2>1, <2>3, CoreArith DEF Core!Accept
    <2>5. core_row_q + 1 \in Idx
      BY <1>1, <1>9, WbAssumption DEF TypeOK, ContractsKept, Idx
    <2> QED BY <1>1, <1>3, <2>1, <2>4, <2>5 DEF Core!Accept, Core!CoreTypeOK
  <1> QED BY <1>4, <1>5, <1>6, <1>7, <1>8, <1>9

(* An edge keeps the types.                                                *)
LEMMA TypeStep ==
  ASSUME IInv, NEW r \in Requests, Clock(r)
  PROVE  TypeOK'
  <1>1. Datapath(r)
    BY DEF Clock, IdleEdge, StartEdge, KickEdge, StreamEdge, CompleteEdge
  <1>2. BusResponse(r) /\ RegisterWrites(r) /\ CoreEdge /\ ContextEdge(r)
    BY <1>1 DEF Datapath
  <1>3. TypeOK
    BY DEF IInv
  <1>4. seq' \in {"IDLE", "KICK", "STREAM"} /\ valid_q' \in BOOLEAN /\ irq_q' \in BOOLEAN
    BY <1>3 DEF TypeOK, Clock, IdleEdge, StartEdge, KickEdge, StreamEdge,
                CompleteEdge, seqVars
  <1>5. stream_ptr' \in Idx
    <2>1. core_weight_valid => stream_ptr + 1 \in Idx
      BY <1>3, WbAssumption, MaxCAssumption
         DEF IInv, TypeOK, ContractsKept, core_weight_valid, Idx
    <2>2. 0 \in Idx
      BY WbAssumption, MaxCAssumption DEF Idx
    <2> QED BY <1>3, <2>1, <2>2 DEF TypeOK, Clock, IdleEdge, StartEdge,
                  KickEdge, StreamEdge, CompleteEdge, seqVars
  <1> QED BY <1>2, <1>3, <1>4, <1>5, BusType, RegisterType, ContextType, CoreType
          DEF TypeOK

-----------------------------------------------------------------------------
(* The contracts between the modules.                                      *)

(* An edge keeps what Core and context demand of their caller.             *)
LEMMA ContractsStep ==
  ASSUME IInv, NEW r \in Requests, Clock(r)
  PROVE  ContractsKept'
  <1>1. TypeOK /\ ContractsKept /\ StreamInv
    BY DEF IInv
  <1>2. CoreEdge /\ ContextEdge(r) /\ Datapath(r)
    BY DEF Clock, IdleEdge, StartEdge, KickEdge, StreamEdge, CompleteEdge, Datapath
  <1>3. loading_q' = (seq = "KICK" \/ (seq = "STREAM" /\ ~core_done))
    BY <1>2, ContextStep
  <1>4. CASE seq = "IDLE"
    <2>1. Core!WaitStart
      BY <1>2, <1>4, CoreStep
    <2>2. seq' \in {"IDLE", "KICK"}
      BY <1>4 DEF Clock, IdleEdge, StartEdge, KickEdge, StreamEdge, CompleteEdge, seqVars
    <2> QED BY <1>1, <1>3, <1>4, <2>1, <2>2
            DEF ContractsKept, Core!WaitStart, core_done, Core!done
  <1>5. CASE seq = "KICK"
    <2>1. Core!StartCore(n_q, c_q)
      BY <1>2, <1>5, CoreStep
    <2>2. seq' = "STREAM" /\ stream_ptr' = 0
      BY <1>1, <1>5 DEF Clock, IdleEdge, StartEdge, KickEdge, StreamEdge,
                        CompleteEdge, StreamInv
    <2>3. n_q' = n_q /\ c_q' = c_q
      BY <1>2, <1>5, BusyFreezesContext DEF busy
    <2> QED BY <1>1, <1>3, <1>5, <2>1, <2>2, <2>3
            DEF TypeOK, Idx, ContractsKept, Core!StartCore, core_done, Core!done
  <1>6. CASE seq = "STREAM" /\ core_done
    <2>1. Core!Retire
      BY <1>2, <1>6, CoreStep
    <2>2. seq' = "IDLE"
      BY <1>6 DEF Clock, IdleEdge, StartEdge, KickEdge, StreamEdge, CompleteEdge
    <2> QED BY <1>1, <1>3, <1>6, <2>1, <2>2
            DEF ContractsKept, Core!Retire, core_done, Core!done
  <1>7. CASE seq = "STREAM" /\ ~core_done
    <2>1. n_q' = n_q /\ c_q' = c_q
      BY <1>2, <1>7, BusyFreezesContext DEF busy
    <2>2. seq' = "STREAM"
      BY <1>7 DEF Clock, IdleEdge, StartEdge, KickEdge, StreamEdge, CompleteEdge
    <2>3. stream_ptr' = IF core_weight_valid THEN stream_ptr + 1 ELSE stream_ptr
      BY <1>7 DEF Clock, IdleEdge, StartEdge, KickEdge, StreamEdge, CompleteEdge
    <2>4. CASE stream_ptr = c_q
      <3>1. ~core_weight_valid /\ Core!Finish
        BY <1>2, <1>7, <2>4, CoreStep
      <3> QED BY <1>1, <1>3, <1>7, <2>1, <2>2, <2>3, <2>4, <3>1
              DEF ContractsKept, Core!Finish, core_done, Core!done
    <2>5. CASE stream_ptr # c_q
      <3>1. core_weight_valid /\ Core!Accept(ReadLane(weight_mem, stream_ptr))
        BY <1>2, <1>7, <2>5, CoreStep
      <3>2. stream_ptr' = stream_ptr + 1 /\ stream_ptr + 1 <= c_q
        BY <1>1, <1>7, <2>3, <2>5, <3>1 DEF TypeOK, Idx, ContractsKept
      <3> QED BY <1>1, <1>3, <1>7, <2>1, <2>2, <3>1, <3>2
              DEF ContractsKept, Core!Accept, core_done, Core!done
    <2> QED BY <2>4, <2>5
  <1> QED BY <1>1, <1>4, <1>5, <1>6, <1>7 DEF TypeOK

-----------------------------------------------------------------------------
(* The offset window follows the chain.                                    *)

\* chain over the window as the edge leaves it.
next_chain(k) ==
  IF k = 0 THEN 0
  ELSE NextOffset(offset_mem'[k - 1], weight_mem'[k - 1], n_q')

\* One edge of streaming: the offset that was on the bus is in the window, the
\* window still follows the chain, and the Core's running offset is the next
\* link of it.
LEMMA WindowStep ==
  ASSUME IInv, NEW r \in Requests, Clock(r), seq = "STREAM", ~core_done
  PROVE  /\ wr_ptr' = IF stream_ptr < MaxC THEN stream_ptr ELSE MaxC
         /\ \A k \in Lanes :
              offset_mem'[k] = IF k < wr_ptr' THEN next_chain(k) ELSE 0
         /\ core_state = "RUN" /\ stream_ptr <= MaxC =>
              core_offset_q = next_chain(stream_ptr)
  <1> DEFINE stored == IF core_offset_valid THEN stream_ptr - 1 ELSE stream_ptr
  <1>1. TypeOK /\ StreamInv /\ ContextTypeOK
    BY DEF IInv, TypeOK
  <1>2. ContextEdge(r) /\ Datapath(r)
    BY DEF Clock, IdleEdge, StartEdge, KickEdge, StreamEdge, CompleteEdge, Datapath
  <1>3. n_q' = n_q /\ weight_mem' = weight_mem
    BY <1>2, BusyFreezesContext DEF busy
  <1>4. stream_ptr \in Nat /\ MaxC \in Nat \ {0} /\ stored \in Nat
    BY <1>1, MaxCAssumption, WbAssumption DEF TypeOK, Idx, StreamInv
  <1>5. /\ wr_ptr = IF stored < MaxC THEN stored ELSE MaxC
        /\ \A k \in Lanes : offset_mem[k] = IF k < wr_ptr THEN chain(k) ELSE 0
        /\ core_offset_valid /\ stored < MaxC => core_offset_out = chain(stored)
        /\ core_state = "RUN" /\ stream_ptr <= MaxC =>
             core_offset_q = IF core_offset_valid
                             THEN NextOffset(core_offset_out, weight_mem[stored], n_q)
                             ELSE chain(stream_ptr)
    BY <1>1 DEF StreamInv
  <1>6. CASE core_offset_valid /\ wr_ptr \in Lanes
    <2>1. stored < MaxC /\ wr_ptr = stored /\ stream_ptr = stored + 1
      BY <1>4, <1>5, <1>6 DEF Lanes
    <2>2. /\ offset_mem' = [offset_mem EXCEPT ![stored] = core_offset_out]
          /\ wr_ptr' = stream_ptr
      BY <1>2, <1>6, <2>1, ContextStep DEF StoreOffset
    <2>3. DOMAIN offset_mem = Lanes /\ stored \in Lanes
      BY <1>1, <1>4, <2>1 DEF ContextTypeOK, Lanes
    <2>4. \A k \in Lanes : k <= stored => next_chain(k) = chain(k)
      BY <1>3, <1>4, <2>2, <2>3 DEF chain, next_chain, Lanes
    <2>5. \A k \in Lanes : offset_mem'[k] = IF k < wr_ptr' THEN next_chain(k) ELSE 0
      BY <1>4, <1>5, <1>6, <2>1, <2>2, <2>3, <2>4 DEF Lanes
    <2>6. core_state = "RUN" => core_offset_q = next_chain(stream_ptr)
      <3>1. stream_ptr # 0 /\ stream_ptr - 1 = stored /\ stream_ptr <= MaxC
        BY <1>4, <2>1
      <3>2. offset_mem'[stored] = core_offset_out
        BY <2>2, <2>3
      <3>3. next_chain(stream_ptr) = NextOffset(core_offset_out, weight_mem[stored], n_q)
        BY <1>3, <3>1, <3>2 DEF chain, next_chain
      <3> QED BY <1>5, <1>6, <3>1, <3>3
    <2> QED BY <1>4, <2>1, <2>2, <2>5, <2>6
  <1>7. CASE ~(core_offset_valid /\ wr_ptr \in Lanes)
    <2>1. offset_mem' = offset_mem /\ wr_ptr' = wr_ptr
      BY <1>2, <1>7, ContextStep
    <2>2. \A k : next_chain(k) = chain(k)
      BY <1>3, <2>1 DEF chain, next_chain
    <2>3. CASE core_offset_valid
      <3>1. ~(stored < MaxC) /\ stream_ptr = stored + 1
        BY <1>4, <1>5, <1>7, <2>3 DEF Lanes
      <3>2. ~(stream_ptr < MaxC) /\ ~(stream_ptr <= MaxC)
        BY <1>4, <3>1
      <3>3. wr_ptr' = MaxC
        BY <1>5, <2>1, <3>1
      <3> QED BY <1>4, <1>5, <2>1, <2>2, <3>2, <3>3
    <2>4. CASE ~core_offset_valid
      BY <1>4, <1>5, <2>1, <2>2, <2>4
    <2> QED BY <2>3, <2>4
  <1> QED BY <1>6, <1>7

(* An edge keeps the chain of offsets: in the window, on its way there,    *)
(* and in the Core.                                                        *)
LEMMA StreamStep ==
  ASSUME IInv, NEW r \in Requests, Clock(r)
  PROVE  StreamInv'
  <1>1. TypeOK /\ ContractsKept /\ StreamInv
    BY DEF IInv
  <1>2. CoreEdge /\ ContextEdge(r) /\ Datapath(r)
    BY DEF Clock, IdleEdge, StartEdge, KickEdge, StreamEdge, CompleteEdge, Datapath
  <1>3. CASE seq = "IDLE"
    BY <1>3 DEF Clock, IdleEdge, StartEdge, KickEdge, StreamEdge, CompleteEdge,
                StreamInv, seqVars
  <1>4. CASE seq = "KICK"
    <2>1. Core!StartCore(n_q, c_q) /\ ClearOffsets
      BY <1>2, <1>4, CoreStep, ContextStep
    <2>2. seq' = "STREAM" /\ stream_ptr' = 0 /\ ~valid_q'
      BY <1>1, <1>4 DEF Clock, IdleEdge, StartEdge, KickEdge, StreamEdge,
                        CompleteEdge, StreamInv
    <2> QED BY <2>1, <2>2, MaxCAssumption
            DEF StreamInv, Core!StartCore, ClearOffsets, chain, Lanes
  <1>5. CASE seq = "STREAM" /\ core_done
    <2>1. seq' = "IDLE"
      BY <1>5 DEF Clock, IdleEdge, StartEdge, KickEdge, StreamEdge, CompleteEdge
    <2> QED BY <2>1 DEF StreamInv
  <1>6. CASE seq = "STREAM" /\ ~core_done
    <2>1. seq' = "STREAM" /\ ~valid_q'
      BY <1>1, <1>6 DEF Clock, IdleEdge, StartEdge, KickEdge, StreamEdge,
                        CompleteEdge, StreamInv
    <2>2. stream_ptr' = IF core_weight_valid THEN stream_ptr + 1 ELSE stream_ptr
      BY <1>6 DEF Clock, IdleEdge, StartEdge, KickEdge, StreamEdge, CompleteEdge
    <2>3. /\ wr_ptr' = IF stream_ptr < MaxC THEN stream_ptr ELSE MaxC
          /\ \A k \in Lanes : offset_mem'[k] = IF k < wr_ptr' THEN next_chain(k) ELSE 0
          /\ core_state = "RUN" /\ stream_ptr <= MaxC =>
               core_offset_q = next_chain(stream_ptr)
      BY <1>6, WindowStep
    <2>4. stream_ptr \in Nat /\ MaxC \in Nat
      BY <1>1, MaxCAssumption, WbAssumption DEF TypeOK, Idx
    <2>5. CASE stream_ptr = c_q
      <3>1. ~core_weight_valid /\ Core!Finish
        BY <1>2, <1>6, <2>5, CoreStep
      <3> QED BY <2>1, <2>2, <2>3, <2>4, <3>1 DEF StreamInv, chain, next_chain, Core!Finish
    <2>6. CASE stream_ptr # c_q
      <3>1. core_weight_valid /\ Core!Accept(ReadLane(weight_mem, stream_ptr))
        BY <1>2, <1>6, <2>6, CoreStep
      <3>2. /\ core_offset_valid' = TRUE /\ core_offset_out' = core_offset_q
            /\ stream_ptr' = stream_ptr + 1 /\ core_state = "RUN"
        BY <2>2, <3>1 DEF Core!Accept
      <3>3. core_n_q = n_q /\ n_q' = n_q /\ weight_mem' = weight_mem
        BY <1>1, <1>2, <1>6, BusyFreezesContext DEF ContractsKept, busy
      <3>4. stream_ptr < MaxC =>
              core_offset_q' = NextOffset(core_offset_out', weight_mem'[stream_ptr], n_q')
        BY <2>4, <3>1, <3>2, <3>3, CoreArith DEF Core!Accept, ReadLane, Lanes
      <3>5. stream_ptr' - 1 = stream_ptr
        BY <2>4, <3>2
      <3>6. stream_ptr < MaxC => core_offset_out' = next_chain(stream_ptr)
        BY <2>3, <2>4, <3>2
      <3>7. stream_ptr' <= MaxC => stream_ptr < MaxC
        BY <2>4, <3>2
      <3> QED BY <2>1, <2>3, <2>4, <3>2, <3>4, <3>5, <3>6, <3>7
              DEF StreamInv, chain, next_chain
    <2> QED BY <2>5, <2>6
  <1> QED BY <1>1, <1>3, <1>4, <1>5, <1>6 DEF TypeOK

\* VALID rises only over a complete window, and falls in the same edge as any
\* write that makes the window stale.
LEMMA ValidStep ==
  ASSUME IInv, NEW r \in Requests, Clock(r)
  PROVE  ValidIsCurrent'
  <1>1. TypeOK /\ ContractsKept /\ StreamInv /\ ValidIsCurrent
    BY DEF IInv
  <1>2. ContextEdge(r) /\ Datapath(r) /\ RegisterWrites(r)
    BY DEF Clock, IdleEdge, StartEdge, KickEdge, StreamEdge, CompleteEdge, Datapath
  <1>3. CASE seq = "IDLE" /\ valid_q' = TRUE
    <2>1. seq' = "IDLE" /\ valid_q /\ ~invalidates(r)
      BY <1>3 DEF Clock, IdleEdge, StartEdge, KickEdge, StreamEdge, CompleteEdge, seqVars
    <2>2. ~writes(r, "N") /\ ~writes(r, "C") /\ ~writes(r, "WEIGHT")
      BY <2>1 DEF invalidates, writes
    <2>3. n_q' = n_q /\ c_q' = c_q /\ weight_mem' = weight_mem
      BY <1>2, <2>2 DEF RegisterWrites, ContextEdge, WeightWindow
    <2>4. offset_mem' = offset_mem
      BY <1>2, <1>3, ContextStep
    <2> QED BY <1>1, <2>1, <2>3, <2>4 DEF ValidIsCurrent, busy, IsTransform
  <1>4. CASE seq = "STREAM" /\ core_done
    <2>1. seq' = "IDLE"
      BY <1>4 DEF Clock, IdleEdge, StartEdge, KickEdge, StreamEdge, CompleteEdge
    <2>2. ~core_offset_valid /\ stream_ptr = c_q
      BY <1>1, <1>4 DEF ContractsKept, core_done, Core!done
    <2>3. n_q' = n_q /\ c_q' = c_q /\ weight_mem' = weight_mem
      BY <1>2, <1>4, BusyFreezesContext DEF busy
    <2>4. offset_mem' = offset_mem
      BY <1>2, <1>4, <2>2, ContextStep
    <2>5. c_q \in Nat /\ MaxC \in Nat
      BY <1>1, MaxCAssumption, WbAssumption DEF TypeOK, Idx
    <2>6. \A k \in Lanes : offset_mem[k] = IF k < c_q THEN chain(k) ELSE 0
      BY <1>1, <1>4, <2>2, <2>5 DEF StreamInv, Lanes
    <2>7. \A k \in Lanes : offset_mem[k] = IF k = 0 \/ k >= c_q THEN 0
                              ELSE NextOffset(offset_mem[k - 1], weight_mem[k - 1], n_q)
      BY <2>5, <2>6 DEF chain, next_chain, Lanes
    <2> QED BY <2>1, <2>3, <2>4, <2>7 DEF ValidIsCurrent, busy, IsTransform
  <1>5. CASE valid_q' # TRUE
    BY <1>5, TypeStep DEF ValidIsCurrent, TypeOK
  <1>6. CASE seq = "KICK" \/ (seq = "STREAM" /\ ~core_done)
    <2>1. ~valid_q'
      BY <1>1, <1>6 DEF Clock, IdleEdge, StartEdge, KickEdge, StreamEdge,
                        CompleteEdge, StreamInv
    <2> QED BY <2>1 DEF ValidIsCurrent
  <1> QED BY <1>1, <1>3, <1>4, <1>5, <1>6 DEF TypeOK

-----------------------------------------------------------------------------
(* The offsets of a legal context stay below N.                            *)

(* With a legal context an edge keeps every offset below N.                *)
LEMMA BoundStep ==
  ASSUME IInv, NEW r \in Requests, Clock(r)
  PROVE  BoundInv' /\ OffsetsBelowN'
  <1> SUFFICES ASSUME LegalContext' PROVE BoundInv' /\ OffsetsBelowN'
    BY DEF BoundInv, OffsetsBelowN
  <1>1. TypeOK /\ ContractsKept /\ StreamInv /\ ValidIsCurrent
    BY DEF IInv
  <1>2. CoreEdge /\ ContextEdge(r) /\ Datapath(r) /\ RegisterWrites(r)
    BY DEF Clock, IdleEdge, StartEdge, KickEdge, StreamEdge, CompleteEdge, Datapath
  <1>3. ContractsKept' /\ StreamInv' /\ TypeOK'
    BY ContractsStep, StreamStep, TypeStep
  <1>4. CASE seq = "IDLE"
    <2>1. seq' # "STREAM"
      BY <1>4 DEF Clock, IdleEdge, StartEdge, KickEdge, StreamEdge, CompleteEdge, seqVars
    <2>2. core_state' # "RUN"
      BY <1>3, <2>1 DEF ContractsKept
    <2>3. ASSUME valid_q' PROVE \A k \in Lanes : offset_mem'[k] < n_q'
      <3>1. valid_q /\ ~invalidates(r)
        BY <1>4, <2>3 DEF Clock, IdleEdge, StartEdge, KickEdge, StreamEdge, CompleteEdge
      <3>2. ~writes(r, "N") /\ ~writes(r, "C") /\ ~writes(r, "WEIGHT")
        BY <3>1 DEF invalidates, writes
      <3>3. n_q' = n_q /\ c_q' = c_q /\ weight_mem' = weight_mem
        BY <1>2, <3>2 DEF RegisterWrites, ContextEdge, WeightWindow
      <3>4. offset_mem' = offset_mem
        BY <1>2, <1>4, ContextStep
      <3>5. LegalContext
        BY <3>3 DEF LegalContext, Legal
      <3> QED BY <3>1, <3>3, <3>4, <3>5 DEF IInv, OffsetsBelowN
    <2> QED BY <2>1, <2>2, <2>3 DEF BoundInv, OffsetsBelowN
  <1>5. CASE seq \in {"KICK", "STREAM"}
    <2>1. n_q' = n_q /\ c_q' = c_q /\ weight_mem' = weight_mem
      BY <1>2, <1>5, BusyFreezesContext DEF busy
    <2>2. /\ c_q <= MaxC /\ n_q >= 1
          /\ \A i \in 0 .. c_q - 1 : weight_mem[i] <= n_q
      BY <2>1 DEF LegalContext, Legal
    <2>3. LegalContext
      BY <2>2 DEF LegalContext, Legal
    <2>4. n_q \in Val /\ n_q \in Nat /\ c_q \in Nat /\ stream_ptr \in Nat /\ MaxC \in Nat
      BY <1>1, ValRangeAssumption, MaxCAssumption, WbAssumption DEF TypeOK, Val, Idx
    <2>5. CASE seq = "KICK"
      <3>1. Core!StartCore(n_q, c_q) /\ ClearOffsets
        BY <1>2, <2>5, CoreStep, ContextStep
      <3>2. ~valid_q'
        BY <1>1, <2>5 DEF Clock, IdleEdge, StartEdge, KickEdge, StreamEdge,
                          CompleteEdge, StreamInv
      <3> QED BY <2>1, <2>2, <2>4, <3>1, <3>2
              DEF BoundInv, OffsetsBelowN, Core!StartCore, ClearOffsets
    <2>6. CASE seq = "STREAM"
      <3>1. /\ \A k \in Lanes : offset_mem[k] < n_q
            /\ core_offset_valid => core_offset_out < n_q
            /\ core_state = "RUN" => core_offset_q < n_q
        BY <2>3, <2>6 DEF IInv, BoundInv, OffsetsBelowN
      <3>2. \A k \in Lanes : offset_mem'[k] < n_q'
        <4>1. CASE core_offset_valid /\ wr_ptr \in Lanes
          <5>1. offset_mem' = [offset_mem EXCEPT ![wr_ptr] = core_offset_out]
            BY <1>2, <2>6, <4>1, ContextStep DEF StoreOffset
          <5>2. DOMAIN offset_mem = Lanes
            BY <1>1 DEF TypeOK, ContextTypeOK
          <5> QED BY <2>1, <3>1, <4>1, <5>1, <5>2
        <4>2. CASE ~(core_offset_valid /\ wr_ptr \in Lanes)
          BY <1>2, <2>1, <2>6, <3>1, <4>2, ContextStep
        <4> QED BY <4>1, <4>2
      <3>3. CASE core_done
        <4>1. Core!Retire
          BY <1>2, <2>6, <3>3, CoreStep
        <4> QED BY <3>2, <4>1 DEF BoundInv, OffsetsBelowN, Core!Retire
      <3>4. CASE ~core_done /\ stream_ptr = c_q
        <4>1. Core!Finish
          BY <1>2, <2>6, <3>4, CoreStep
        <4> QED BY <3>2, <4>1 DEF BoundInv, OffsetsBelowN, Core!Finish
      <3>5. CASE ~core_done /\ stream_ptr # c_q
        <4>1. Core!Accept(ReadLane(weight_mem, stream_ptr))
          BY <1>2, <2>6, <3>5, CoreStep
        <4>2. /\ core_offset_out' = core_offset_q /\ core_state = "RUN"
              /\ core_offset_q' = NextOffset(core_offset_q, ReadLane(weight_mem, stream_ptr), core_n_q)
          BY <4>1, CoreArith DEF Core!Accept
        <4>3. stream_ptr < c_q /\ core_n_q = n_q
          BY <1>1, <2>4, <2>6, <3>5 DEF ContractsKept
        <4>4. /\ ReadLane(weight_mem, stream_ptr) = weight_mem[stream_ptr]
              /\ weight_mem[stream_ptr] <= n_q /\ weight_mem[stream_ptr] \in Val
          BY <1>1, <2>2, <2>4, <4>3 DEF ReadLane, Lanes, TypeOK, ContextTypeOK
        <4>5. core_offset_q \in Val /\ core_offset_q < n_q
          BY <1>1, <3>1, <4>2 DEF TypeOK, Core!CoreTypeOK, Core!Val, Val
        <4>6. core_offset_q' < n_q
          BY <2>4, <4>2, <4>3, <4>4, <4>5, NextOffsetBound
        <4> QED BY <2>1, <3>2, <4>2, <4>5, <4>6 DEF BoundInv, OffsetsBelowN
      <3> QED BY <3>3, <3>4, <3>5
    <2> QED BY <1>5, <2>5, <2>6
  <1> QED BY <1>1, <1>4, <1>5 DEF TypeOK

-----------------------------------------------------------------------------
(* The inductive invariant, and the theorems.                              *)

(* An edge keeps IInv.                                                     *)
LEMMA ClockInv == ASSUME IInv, NEW r \in Requests, Clock(r) PROVE IInv'
  BY TypeStep, ContractsStep, StreamStep, ValidStep, BoundStep DEF IInv

(* So does a step in which nothing moves.                                  *)
LEMMA StutterInv == ASSUME IInv, UNCHANGED vars PROVE IInv'
  <1> USE DEF vars, regVars, seqVars, busVars, coreVars, contextVars
  <1>1. TypeOK'
    BY DEF IInv, TypeOK, Core!CoreTypeOK, ContextTypeOK
  <1>2. ContractsKept'
    BY DEF IInv, ContractsKept, core_done, Core!done
  <1>3. StreamInv'
    BY DEF IInv, StreamInv, chain
  <1>4. ValidIsCurrent'
    BY DEF IInv, ValidIsCurrent, busy, IsTransform
  <1>5. BoundInv' /\ OffsetsBelowN'
    BY DEF IInv, BoundInv, OffsetsBelowN, LegalContext, Legal
  <1> QED BY <1>1, <1>2, <1>3, <1>4, <1>5 DEF IInv

(* So does reset.                                                          *)
LEMMA ResetInv == Reset => IInv'
  <1>1. (Init => IInv)'
    BY InitInv, PTL
  <1> QED BY <1>1, ResetIsInit

(* And so does every step.                                                 *)
LEMMA NextInv == IInv /\ [Next]_vars => IInv'
  BY ClockInv, StutterInv, ResetInv DEF Next

\* The inductive invariant of the peripheral holds in every reachable state.
THEOREM Invariance == Spec => []IInv
  <1>1. Init => IInv
    BY InitInv
  <1>2. IInv /\ [Next]_vars => IInv'
    BY NextInv
  <1> QED BY <1>1, <1>2, PTL DEF Spec

\* Type correctness: no counter of the peripheral ever wraps or leaves the
\* memory it indexes.
THEOREM TypeCorrect == Spec => []TypeOK
  <1>1. IInv => TypeOK
    BY DEF IInv
  <1> QED BY Invariance, <1>1, PTL

\* The contracts that the Core and the context assert in simulation are kept
\* by the wrapper whatever the bus master does.
THEOREM ContractsAlwaysKept == Spec => []ContractsKept
  <1>1. IInv => ContractsKept
    BY DEF IInv
  <1> QED BY Invariance, <1>1, PTL

\* VALID is never stale: it implies that the offset window is the transform of
\* the N, C and weights in the registers at that moment.
THEOREM ValidNeverStale == Spec => []ValidIsCurrent
  <1>1. IInv => ValidIsCurrent
    BY DEF IInv
  <1> QED BY Invariance, <1>1, PTL

\* With a legal context the running offset of the Core, and every offset
\* answered, is below N, which is what makes one subtraction a reduction.
THEOREM OffsetsStayBelowN == Spec => []OffsetsBelowN
  <1>1. IInv => OffsetsBelowN
    BY DEF IInv
  <1> QED BY Invariance, <1>1, PTL

-----------------------------------------------------------------------------
(* The answers of the matrix.                                              *)

\* Over a valid and legal context, the bit the evaluator gives lane i is the
\* bit of the reference, and the lanes that hold no row are silent.
LEMMA ColumnIsReference ==
  ASSUME IInv, valid_q, LegalContext
  PROVE  /\ \A k \in Lanes : offset_mem[k] =
              IF k < c_q THEN RefOffset(k, n_q, c_q, weight_mem) ELSE 0
         /\ cell_col_q < n_q =>
              \A i \in Nat : i \in column_bits <=> Row(i, cell_col_q)
  <1>1. /\ n_q \in Val /\ c_q \in Nat /\ cell_col_q \in Val
        /\ weight_mem \in [Lanes -> Val] /\ MaxC \in Nat \ {0}
    BY MaxCAssumption, WbAssumption DEF IInv, TypeOK, ContextTypeOK, Idx
  <1>2. IsTransform(offset_mem, Lanes, n_q, c_q, weight_mem)
    BY DEF IInv, ValidIsCurrent
  <1>3. 0 .. c_q - 1 \subseteq Lanes /\ Legal(n_q, c_q, weight_mem)
    BY <1>1 DEF LegalContext, Lanes
  <1>4. \A i \in 0 .. c_q - 1 : weight_mem[i] \in Nat
    BY <1>1, <1>3, ValRangeAssumption DEF Val
  <1>5. /\ \A k \in 0 .. c_q - 1 : offset_mem[k] = RefOffset(k, n_q, c_q, weight_mem)
        /\ \A i \in 0 .. c_q - 1, j \in 0 .. n_q - 1 :
             ColumnBit(i, j, n_q, c_q, weight_mem, offset_mem) <=>
               RefBit(i, j, n_q, c_q, weight_mem)
    BY <1>1, <1>2, <1>3, <1>4, ColumnsAreReference
  <1>6. ASSUME NEW k \in Lanes
        PROVE  offset_mem[k] =
                 IF k < c_q THEN RefOffset(k, n_q, c_q, weight_mem) ELSE 0
    <2>1. CASE k < c_q
      <3>1. k \in 0 .. c_q - 1
        BY <1>1, <2>1 DEF Lanes
      <3> QED BY <1>5, <2>1, <3>1
    <2>2. CASE ~ (k < c_q)
      <3>1. k >= c_q
        BY <1>1, <2>2 DEF Lanes
      <3> QED BY <1>2, <2>2, <3>1 DEF IsTransform
    <2> QED BY <2>1, <2>2
  <1>7. ASSUME cell_col_q < n_q, NEW i \in Nat
        PROVE  i \in column_bits <=> Row(i, cell_col_q)
    <2>1. CASE i < c_q
      <3>1. i \in 0 .. c_q - 1 /\ i \in Lanes /\ cell_col_q \in 0 .. n_q - 1
        BY <1>1, <1>3, <1>7, <2>1 DEF Val
      <3> QED BY <1>5, <2>1, <3>1 DEF column_bits, Row
    <2>2. CASE ~ (i < c_q)
      <3>1. ~ ColumnBit(i, cell_col_q, n_q, c_q, weight_mem, offset_mem)
        BY <1>1, <2>2 DEF ColumnBit, CellBit, Delta, Val
      <3> QED BY <2>2, <3>1 DEF column_bits, Row
    <2> QED BY <2>1, <2>2
  <1> QED BY <1>6, <1>7

\* A read of the matrix that is acknowledged finds the context valid.
LEMMA MatrixReadIsValid ==
  ASSUME NEW r, r.adr \in Matrix, do_read(r)
  PROVE  valid_q /\ mapped(r)
  BY DEF do_read, err_now, e_state

(* Over VALID a read carries the reference's offset, word or bit.          *)
LEMMA AnswerIsReference ==
  ASSUME IInv, NEW r \in Requests, r.adr \in Matrix, do_read(r), LegalContext,
         Clock(r)
  PROVE  /\ r.adr = "OFFSET" =>
              wb_dat_o' = {IF r.idx < c_q
                           THEN RefOffset(r.idx, n_q, c_q, weight_mem) ELSE 0}
         /\ (r.adr = "COLUMN" /\ cell_col_q < n_q) =>
              wb_dat_o' = {b \in 0 .. WordBits - 1 :
                             Row(r.idx * WordBits + b, cell_col_q)}
         /\ (r.adr = "CELL" /\ cell_col_q < n_q) =>
              wb_dat_o' = {b \in {0} : Row(cell_row_q, cell_col_q)}
  <1>1. wb_dat_o' = rdata(r)
    BY DEF Clock, IdleEdge, StartEdge, KickEdge, StreamEdge, CompleteEdge,
           Datapath, BusResponse
  <1>2. valid_q /\ mapped(r)
    BY MatrixReadIsValid
  <1>3. CASE r.adr = "OFFSET"
    <2>1. r.idx \in Lanes
      BY <1>2, <1>3 DEF mapped
    <2>2. rdata(r) = {offset_mem[r.idx]}
      BY <1>3, <2>1 DEF rdata, ReadLane
    <2> QED BY <1>1, <1>2, <1>3, <2>1, <2>2, ColumnIsReference
  <1>4. CASE r.adr = "COLUMN"
    <2>1. rdata(r) = column_word(r.idx)
      BY <1>4 DEF rdata
    <2>2. \A b \in 0 .. WordBits - 1 : r.idx * WordBits + b \in Nat
      BY WbAssumption DEF Request
    <2> QED BY <1>1, <1>2, <1>4, <2>1, <2>2, ColumnIsReference DEF column_word
  <1>5. CASE r.adr = "CELL"
    <2>1. rdata(r) = {b \in {0} : cell_row_q \in column_bits}
      BY <1>5 DEF rdata
    <2>2. cell_row_q \in Nat
      BY WbAssumption, MaxCAssumption DEF IInv, TypeOK, Idx
    <2> QED BY <1>1, <1>2, <1>5, <2>1, <2>2, ColumnIsReference
  <1> QED BY <1>3, <1>4, <1>5 DEF Matrix

\* Every read of CELL, COLUMN or OFFSET that is acknowledged over a legal
\* context carries the matrix of reference.py for the N, C and weights in the
\* registers, whatever transforms and accesses came before it.
THEOREM ReadsAnswerTheMatrix == Spec => AnswersAreTheMatrix
  <1>1. IInv => \A r \in Requests :
       (r.adr \in Matrix /\ do_read(r) /\ LegalContext /\ Clock(r)) =>
         /\ r.adr = "OFFSET" =>
              wb_dat_o' = {IF r.idx < c_q
                           THEN RefOffset(r.idx, n_q, c_q, weight_mem) ELSE 0}
         /\ (r.adr = "COLUMN" /\ cell_col_q < n_q) =>
              wb_dat_o' = {b \in 0 .. WordBits - 1 :
                             Row(r.idx * WordBits + b, cell_col_q)}
         /\ (r.adr = "CELL" /\ cell_col_q < n_q) =>
              wb_dat_o' = {b \in {0} : Row(cell_row_q, cell_col_q)}
    BY AnswerIsReference
  <1> QED BY Invariance, <1>1, PTL DEF AnswersAreTheMatrix

-----------------------------------------------------------------------------
(* The bus.                                                                *)

\* The last edge of a transform raises VALID and IRQ together, whatever the
\* master writes in that edge.
THEOREM CompletionsAreNeverLost == Spec => CompletionNotLost
  <1>1. [Next]_vars => [busy /\ ~busy' => Reset \/ (valid_q' /\ irq_q')]_vars
    BY DEF Next, Clock, IdleEdge, StartEdge, KickEdge, StreamEdge, CompleteEdge,
           busy, seqVars
  <1> QED BY <1>1, PTL DEF Spec, CompletionNotLost

\* An edge that services no write leaves the registers to the transform.
LEMMA NoWriteNoChange ==
  ASSUME TypeOK, NEW r \in Requests, Clock(r), ~do_write(r)
  PROVE  /\ UNCHANGED <<n_q, c_q, cell_row_q, cell_col_q, irq_en_q, weight_mem>>
         /\ ~busy => UNCHANGED <<valid_q, irq_q, seq>>
         /\ busy /\ busy' => UNCHANGED <<valid_q, irq_q>>
  <1>1. ~start_write(r) /\ ~invalidates(r) /\ ~clears_irq(r)
        /\ \A adr : ~writes(r, adr)
    BY DEF start_write, invalidates, clears_irq, writes
  <1>2. RegisterWrites(r) /\ ContextEdge(r)
    BY DEF Clock, IdleEdge, StartEdge, KickEdge, StreamEdge, CompleteEdge, Datapath
  <1>3. UNCHANGED <<n_q, c_q, cell_row_q, cell_col_q, irq_en_q, weight_mem>>
    BY <1>1, <1>2 DEF RegisterWrites, ContextEdge, WeightWindow
  <1>4. valid_q \in BOOLEAN /\ irq_q \in BOOLEAN
    BY DEF TypeOK
  <1>5. CASE IdleEdge(r)
    BY <1>1, <1>3, <1>4, <1>5 DEF IdleEdge, busy, seqVars
  <1>6. CASE KickEdge(r) \/ StreamEdge(r)
    BY <1>1, <1>3, <1>4, <1>6 DEF KickEdge, StreamEdge, busy
  <1>7. CASE StartEdge(r) \/ CompleteEdge(r)
    BY <1>1, <1>3, <1>7 DEF StartEdge, CompleteEdge, busy
  <1> QED BY <1>5, <1>6, <1>7 DEF Clock

\* The response is registered from what the clock serviced.
LEMMA ResponseOf ==
  ASSUME NEW r \in Requests, Clock(r)
  PROVE  BusResponse(r)
  BY DEF Clock, IdleEdge, StartEdge, KickEdge, StreamEdge, CompleteEdge, Datapath

\* A refused access changes no register, no weight and no read data, and it
\* neither starts, stops nor invalidates a transform.
THEOREM RefusalsAreSilent == Spec => RefusalIsSilent
  <1> DEFINE Silent ==
        wb_err_o' =>
          /\ UNCHANGED <<n_q, c_q, cell_row_q, cell_col_q, irq_en_q>>
          /\ UNCHANGED <<weight_mem, wb_dat_o>>
          /\ ~wb_ack_o'
          /\ ~busy => UNCHANGED <<valid_q, irq_q, seq>>
          /\ busy /\ busy' => UNCHANGED <<valid_q, irq_q>>
  <1>1. ASSUME TypeOK, NEW r \in Requests, Clock(r) PROVE Silent
    <2> SUFFICES ASSUME wb_err_o' PROVE Silent
      OBVIOUS
    <2>1. BusResponse(r)
      BY <1>1, ResponseOf
    <2>2. access(r) /\ err_now(r)
      BY <2>1 DEF BusResponse
    <2>3. ~do_write(r) /\ ~do_read(r)
      BY <2>2 DEF do_write, do_read
    <2>4. wb_dat_o' = wb_dat_o /\ ~wb_ack_o'
      BY <2>1, <2>2, <2>3 DEF BusResponse
    <2> QED BY <1>1, <2>3, <2>4, NoWriteNoChange
  <1>2. Reset => Silent
    BY DEF Reset
  <1>3. TypeOK /\ [Next]_vars => [Silent]_vars
    BY <1>1, <1>2 DEF Next
  <1> QED BY TypeCorrect, <1>3, PTL DEF Spec, RefusalIsSilent

\* While a response is on the bus nothing is serviced, so a request that is
\* held through its response lands once.
THEOREM RequestsLandOnce == Spec => OneServicePerResponse
  <1> DEFINE Once ==
        wb_ack_o \/ wb_err_o =>
          \/ Reset
          \/ /\ ~wb_ack_o' /\ ~wb_err_o'
             /\ UNCHANGED <<n_q, c_q, irq_en_q, weight_mem, wb_dat_o>>
             /\ ~busy => UNCHANGED <<seq, valid_q>>
  <1>1. ASSUME TypeOK, NEW r \in Requests, Clock(r) PROVE Once
    <2> SUFFICES ASSUME wb_ack_o \/ wb_err_o PROVE Once
      OBVIOUS
    <2>1. ~access(r) /\ ~do_write(r) /\ ~do_read(r)
      BY DEF access, do_write, do_read
    <2>2. ~wb_ack_o' /\ ~wb_err_o' /\ wb_dat_o' = wb_dat_o
      BY <1>1, <2>1, ResponseOf DEF BusResponse
    <2> QED BY <1>1, <2>1, <2>2, NoWriteNoChange
  <1>2. TypeOK /\ [Next]_vars => [Once]_vars
    BY <1>1 DEF Next
  <1> QED BY TypeCorrect, <1>2, PTL DEF Spec, OneServicePerResponse

-----------------------------------------------------------------------------
(* Timing.                                                                 *)

\* A transform takes C + 3 clocks after the one that accepts START, whatever
\* the traffic on the bus.
THEOREM LatencyIsFixed == Spec => FixedLatency
  <1>1. ASSUME IInv, NEW r \in Requests, Clock(r)
        PROVE  IF busy THEN remaining' = remaining - 1
                       ELSE remaining' \in {0, c_q + 3}
    <2>1. TypeOK /\ ContractsKept /\ StreamInv /\ ContractsKept'
      BY <1>1, ContractsStep DEF IInv
    <2>2. CoreEdge /\ Datapath(r) /\ RegisterWrites(r)
      BY <1>1 DEF Clock, IdleEdge, StartEdge, KickEdge, StreamEdge, CompleteEdge, Datapath
    <2>3. c_q \in Nat /\ stream_ptr \in Nat
      BY <2>1, WbAssumption DEF TypeOK, Idx
    <2>4. CASE seq = "IDLE"
      <3>1. seq' = "IDLE" \/ (start_write(r) /\ seq' = "KICK")
        BY <1>1, <2>4 DEF Clock, IdleEdge, StartEdge, KickEdge, StreamEdge,
                          CompleteEdge, seqVars
      <3>2. start_write(r) => c_q' = c_q
        BY <2>2 DEF start_write, starts, RegisterWrites, writes
      <3> QED BY <2>4, <3>1, <3>2 DEF remaining, busy
    <2>5. CASE busy
      <3>1. c_q' = c_q
        BY <1>1, <2>2, <2>5, BusyFreezesContext
      <3>2. CASE seq = "KICK"
        <4>1. seq' = "STREAM" /\ stream_ptr' = 0
          BY <1>1, <2>1, <3>2 DEF Clock, IdleEdge, StartEdge, KickEdge, StreamEdge,
                                  CompleteEdge, StreamInv
        <4>2. core_state' = "RUN"
          BY <1>1, <2>2, <3>2, CoreStep DEF Core!StartCore
        <4> QED BY <2>3, <3>1, <3>2, <4>1, <4>2 DEF remaining, busy
      <3>3. CASE seq = "STREAM" /\ core_done
        <4>1. seq' = "IDLE"
          BY <1>1, <3>3 DEF Clock, IdleEdge, StartEdge, KickEdge, StreamEdge, CompleteEdge
        <4> QED BY <3>3, <4>1 DEF remaining, busy, core_done, Core!done
      <3>4. CASE seq = "STREAM" /\ ~core_done /\ stream_ptr = c_q
        <4>1. ~core_weight_valid /\ Core!Finish
          BY <1>1, <2>2, <3>4, CoreStep
        <4>2. seq' = "STREAM"
          BY <1>1, <3>4 DEF Clock, IdleEdge, StartEdge, KickEdge, StreamEdge, CompleteEdge
        <4> QED BY <2>3, <3>4, <4>1, <4>2 DEF remaining, busy, Core!Finish
      <3>5. CASE seq = "STREAM" /\ ~core_done /\ stream_ptr # c_q
        <4>1. core_weight_valid /\ Core!Accept(ReadLane(weight_mem, stream_ptr))
          BY <1>1, <2>2, <3>5, CoreStep
        <4>2. seq' = "STREAM" /\ stream_ptr' = stream_ptr + 1
          BY <1>1, <3>5, <4>1 DEF Clock, IdleEdge, StartEdge, KickEdge, StreamEdge, CompleteEdge
        <4>3. core_state = "RUN" /\ core_state' = "RUN"
          BY <4>1 DEF Core!Accept
        <4> QED BY <2>3, <3>1, <3>5, <4>2, <4>3 DEF remaining, busy
      <3> QED BY <2>1, <2>5, <3>2, <3>3, <3>4, <3>5 DEF busy, TypeOK
    <2> QED BY <2>4, <2>5 DEF busy
  <1>2. IInv /\ [Next]_vars =>
          [Reset \/ IF busy THEN remaining' = remaining - 1
                            ELSE remaining' \in {0, c_q + 3}]_vars
    BY <1>1 DEF Next
  <1> QED BY Invariance, <1>2, PTL DEF Spec, FixedLatency

-----------------------------------------------------------------------------
(* Refinement.                                                             *)

(* The peripheral after reset is the abstract one before any context.      *)
LEMMA PromiseInit == Init => Promise!AbsInit
  BY DEF Init, Promise!AbsInit, Promise!NoAnswers, ContextInit, busy

\* A software write in SEQ_IDLE that disturbs the context is Program.
LEMMA ProgramEdge ==
  ASSUME IInv, NEW r \in Requests, IdleEdge(r), invalidates(r)
  PROVE  Promise!Program
  <1>1. TypeOK /\ ContextTypeOK /\ ContractsKept
    BY DEF IInv, TypeOK
  <1>2. RegisterWrites(r) /\ ContextEdge(r)
    BY DEF IdleEdge, Datapath
  <1>3. seq = "IDLE" /\ seq' = "IDLE" /\ ~valid_q' /\ irq_q' = irq_q
    <2>1. seq = "IDLE" /\ seq' = "IDLE" /\ valid_q' = FALSE
      BY DEF IdleEdge, seqVars
    <2>2. clears_irq(r) = FALSE
      BY DEF invalidates, clears_irq, writes
    <2>3. irq_q \in BOOLEAN /\ irq_q' = (irq_q /\ ~clears_irq(r))
      BY <1>1 DEF TypeOK, IdleEdge
    <2> QED BY <2>1, <2>2, <2>3
  <1>4. r.dat % ValRange \in Val /\ r.dat % IdxRange \in Idx
    <2>1. r.dat \in Nat
      BY WbAssumption DEF Request
    <2>2. ValRange \in Nat \ {0} /\ IdxRange \in Nat \ {0}
      BY WbAssumption, ValRangeAssumption, MaxCAssumption
    <2> QED BY <2>1, <2>2, TruncationType DEF Val, Idx
  <1>5. \/ n_q' \in Val /\ UNCHANGED <<c_q, weight_mem>>
        \/ c_q' \in Idx /\ UNCHANGED <<n_q, weight_mem>>
        \/ /\ \E i \in Lanes, w \in Val : weight_mem' = [weight_mem EXCEPT ![i] = w]
           /\ UNCHANGED <<n_q, c_q>>
    <2>1. CASE r.adr = "N"
      BY <1>2, <1>4, <2>1 DEF RegisterWrites, ContextEdge, WeightWindow, writes, invalidates
    <2>2. CASE r.adr = "C"
      BY <1>2, <1>4, <2>2 DEF RegisterWrites, ContextEdge, WeightWindow, writes, invalidates
    <2>3. CASE r.adr = "WEIGHT"
      <3>1. r.idx \in Lanes
        BY <2>3 DEF invalidates, do_write, err_now, mapped
      <3>2. ~loading_q
        BY <1>1, <1>3 DEF ContractsKept
      <3>3. weight_mem' = [weight_mem EXCEPT ![r.idx] = r.dat % ValRange]
        BY <1>2, <2>3, <3>1, <3>2 DEF ContextEdge, WeightWindow, writes, invalidates
      <3> QED BY <1>2, <1>4, <2>3, <3>1, <3>3 DEF RegisterWrites, writes
    <2> QED BY <2>1, <2>2, <2>3 DEF invalidates
  <1>6. Promise!Val = Val
    BY DEF Promise!Val, Val
  <1> QED BY <1>3, <1>5, <1>6 DEF Promise!Program, Promise!NoAnswers, busy

\* Every edge is an event of the abstract peripheral or a stutter.
LEMMA PromiseStep ==
  ASSUME IInv, NEW r \in Requests, Clock(r)
  PROVE  [Promise!AbsNext]_(Promise!absVars)
  <1> USE DEF Promise!AbsNext, Promise!absVars
  <1>1. TypeOK /\ StreamInv /\ ContractsKept
    BY DEF IInv
  <1>2. RegisterWrites(r) /\ ContextEdge(r) /\ Datapath(r)
    BY DEF Clock, IdleEdge, StartEdge, KickEdge, StreamEdge, CompleteEdge, Datapath
  <1>3. CASE IdleEdge(r)
    <2>1. CASE invalidates(r)
      BY <1>3, <2>1, ProgramEdge
    <2>2. CASE ~invalidates(r)
      <3>1. ~writes(r, "N") /\ ~writes(r, "C") /\ ~writes(r, "WEIGHT")
        BY <2>2 DEF invalidates, writes
      <3>2. n_q' = n_q /\ c_q' = c_q /\ weight_mem' = weight_mem
        BY <1>2, <3>1 DEF RegisterWrites, ContextEdge, WeightWindow
      <3>3. offset_mem' = offset_mem /\ seq = "IDLE" /\ seq' = "IDLE"
        BY <1>2, <1>3, ContextStep DEF IdleEdge, seqVars
      <3>4. valid_q' = valid_q /\ (irq_q' = irq_q \/ irq_q' = FALSE)
        BY <1>1, <1>3, <2>2 DEF IdleEdge, TypeOK
      <3> QED BY <3>2, <3>3, <3>4 DEF Promise!AcknowledgeIrq, busy
    <2> QED BY <2>1, <2>2
  <1>4. CASE StartEdge(r)
    <2>1. ~writes(r, "N") /\ ~writes(r, "C") /\ ~writes(r, "WEIGHT")
      BY <1>4 DEF StartEdge, start_write, starts, writes
    <2>2. n_q' = n_q /\ c_q' = c_q /\ weight_mem' = weight_mem
      BY <1>2, <2>1 DEF RegisterWrites, ContextEdge, WeightWindow
    <2> QED BY <1>4, <2>2 DEF StartEdge, Promise!Begin, Promise!NoAnswers, busy
  <1>5. CASE KickEdge(r) \/ StreamEdge(r)
    <2>1. seq \in {"KICK", "STREAM"} /\ seq' = "STREAM" /\ (irq_q' = irq_q \/ irq_q' = FALSE)
      BY <1>1, <1>5 DEF KickEdge, StreamEdge, TypeOK
    <2>2. n_q' = n_q /\ c_q' = c_q /\ weight_mem' = weight_mem
      BY <1>2, <2>1, BusyFreezesContext DEF busy
    <2> QED BY <2>1, <2>2 DEF Promise!AcknowledgeIrq, busy
  <1>6. CASE CompleteEdge(r)
    <2>1. seq = "STREAM" /\ core_done /\ seq' = "IDLE" /\ valid_q' = TRUE /\ irq_q' = TRUE
      BY <1>6 DEF CompleteEdge
    <2>2. n_q' = n_q /\ c_q' = c_q /\ weight_mem' = weight_mem
      BY <1>2, <2>1, BusyFreezesContext DEF busy
    <2>3. IsTransform(offset_mem', Lanes, n_q', c_q', weight_mem')
      BY <2>1, ValidStep DEF ValidIsCurrent
    <2>4. offset_mem' \in [Lanes -> Promise!Val]
      BY TypeStep DEF TypeOK, ContextTypeOK, Promise!Val, Val
    <2>5. Promise!IsTransform(offset_mem', Lanes, n_q, c_q, weight_mem)
      BY <2>2, <2>3 DEF Promise!IsTransform, IsTransform, Promise!NextOffset, NextOffset
    <2> QED BY <2>1, <2>2, <2>4, <2>5 DEF Promise!Complete, busy
  <1> QED BY <1>3, <1>4, <1>5, <1>6 DEF Clock

\* The clocked peripheral implements the register map's promise.
THEOREM Refinement == Spec => KeepsThePromise
  <1>1. Init => Promise!AbsInit
    BY PromiseInit
  <1>2. IInv /\ [Next]_vars => [Promise!AbsNext]_(Promise!absVars)
    <2>1. ASSUME IInv, Reset PROVE Promise!AbsNext
      BY <2>1 DEF Reset, ResetContext, Promise!AbsNext, Promise!AbsReset,
                  Promise!NoAnswers, busy
    <2>2. ASSUME UNCHANGED vars PROVE UNCHANGED Promise!absVars
      BY <2>2 DEF vars, regVars, seqVars, contextVars, Promise!absVars, busy
    <2> QED BY <2>1, <2>2, PromiseStep DEF Next
  <1> QED BY Invariance, <1>1, <1>2, PTL DEF Spec, KeepsThePromise, Promise!AbsSpec
=============================================================================
