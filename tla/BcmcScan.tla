------------------------------ MODULE BcmcScan ------------------------------
(***************************************************************************)
(* A scan: the peripheral, seen through its observation sideband (N, C,    *)
(* the weights, the offsets and VALID), the traversal engine, a traversal  *)
(* source that keeps its contract, and the output engine, on one clock.    *)
(* The peripheral is the abstract BcmcTransform, which BcmcWb implements:  *)
(* in a clock it takes one step or none.  The source answers from `order`, *)
(* any permutation of 0 .. N - 1, which it replaces when N changes and when *)
(* the engine comes back to asking about step 0.  (A reload in IDLE is no  *)
(* further case: nothing is latched from the order between the two.)       *)
(***************************************************************************)
EXTENDS BcmcTransform, BcmcObserver, BcmcOutEngine, Sequences, FiniteSets

CONSTANT Contexts                \* bound: the contexts software programs

ASSUME ContextsAssumption ==
  /\ Lanes \subseteq Nat /\ Idx \subseteq Nat
  /\ Contexts \subseteq Val \X Idx \X [Lanes -> Val]
  /\ <<0, 0, NoAnswers>> \in Contexts

VARIABLES
  order,          \* pi, as the source would answer it
  oneshot,        \* the mode bit of the observer's window
  visited,        \* history: the column and the lanes of each visit of the pass
  shown           \* history: the last column visited since VALID rose, or -1

scanVars == <<order, oneshot, visited, shown>>
vars == <<absVars, observerVars, outVars, scanVars>>

Permutations(n) ==
  {p \in [0 .. n - 1 -> 0 .. n - 1] :
     \A i, j \in 0 .. n - 1 : i # j => p[i] # p[j]}

valid == status = "valid"
ts_pi == IF ts_t(N) \in DOMAIN order THEN order[ts_t(N)] ELSE 0

\* The observer's own bcmc_column.
column_bits(column) ==
  {i \in Lanes : ColumnBit(i, column, N, C, W, offsets)}

Init ==
  /\ AbsInit /\ ObserverInit /\ OutInit
  /\ order = <<>> /\ oneshot = FALSE
  /\ visited = <<>> /\ shown = -1

-----------------------------------------------------------------------------
\* The peripheral's share of a clock.
Peripheral ==
  /\ Program \/ Begin \/ Complete \/ AcknowledgeIrq \/ UNCHANGED absVars
  /\ <<N', C', W'>> \in Contexts

NewOrder == N' # N \/ (ts_t(N) # 0 /\ ts_t(N)' = 0)

SourceEdge == order' \in IF NewOrder THEN Permutations(N') ELSE {order}

\* The history of the visits; N + 1 of them (the bound) already repeat a column.
Record ==
  /\ visited' = IF ~running' \/ (pass_done(N, valid) /\ running) THEN <<>>
                ELSE IF visit_valid(valid) /\ Len(visited) <= N
                     THEN Append(visited, <<col_q, column_bits(col_q)>>)
                     ELSE visited
  /\ shown' = IF ~valid THEN -1
              ELSE IF visit_valid(valid) THEN col_q ELSE shown

\* One clock in which the engine is not reset.  Any write of OBS_CTRL sets the
\* mode bit, in the middle of a pass too.
Clock(start, trigger) ==
  /\ Peripheral
  /\ ObserverEdge(start, trigger, oneshot, N, valid, ts_pi)
  /\ OutEdge(column_bits(col_q), visit_valid(valid), valid)
  /\ SourceEdge
  /\ oneshot' \in BOOLEAN
  /\ Record

\* OBS_CTRL.RESET: the engine only, in mid-pass or not.
StopScan ==
  /\ Peripheral
  /\ ResetObserver
  /\ OutEdge(column_bits(col_q), visit_valid(valid), valid)
  /\ SourceEdge
  /\ oneshot' \in BOOLEAN
  /\ Record

ResetScan ==
  /\ AbsReset /\ ResetObserver /\ ResetOutEngine(valid)
  /\ order' = <<>> /\ oneshot' = FALSE
  /\ visited' = <<>> /\ shown' = -1

StartClock == Clock(TRUE, FALSE)
TriggerClock == Clock(FALSE, TRUE)
QuietClock == Clock(FALSE, FALSE)

Next == StartClock \/ TriggerClock \/ QuietClock \/ StopScan \/ ResetScan

Spec == Init /\ [][Next]_vars

\* The trigger source keeps firing while a pass runs.
FairSpec == Spec /\ WF_vars(running /\ TriggerClock)

-----------------------------------------------------------------------------
ScanTypeOK ==
  /\ ObserverTypeOK
  /\ status \in {"invalid", "busy", "valid"} /\ <<N, C, W>> \in Contexts
  /\ offsets \in [Lanes -> Val]
  /\ pattern_q \in SUBSET Lanes /\ valid_q \in BOOLEAN
  /\ order \in Permutations(N) /\ shown \in Val \cup {-1}

\* The visits of this pass so far, the one in this clock included.
ThisPass ==
  IF visit_valid(valid)
  THEN Append(visited, <<col_q, column_bits(col_q)>>) ELSE visited

\* Column j of the matrix of the present context, by its definition.
MatrixColumn(j) == {i \in 0 .. C - 1 : N # 0 /\ RefBit(i, j, N, C, W)}

\* O1 on the wires: when done is raised the pass has presented N columns, each
\* of 0 .. N - 1 exactly once, whatever triggers, stops and rewrites of the
\* context came before; and it never presents more than that or one twice.
PassIsAPermutation ==
  /\ \A j, k \in DOMAIN ThisPass : j # k => ThisPass[j][1] # ThisPass[k][1]
  /\ pass_done(N, valid) =>
       {ThisPass[k][1] : k \in DOMAIN ThisPass} = 0 .. N - 1

\* A pass is a pass of one matrix: every pattern it has presented, however long
\* ago, is the column of the matrix of the context that is valid now.
PassOfOneMatrix ==
  visit_valid(valid) =>
    \A k \in DOMAIN ThisPass :
      ThisPass[k][2] = MatrixColumn(ThisPass[k][1])

\* The pins never show a pattern of a matrix that is gone: they show the last
\* column visited since VALID rose, evaluated over the present context, and
\* nothing before the first visit or while there is no matrix.
PinsShowTheScan ==
  pins(valid) = IF valid /\ shown # -1 THEN MatrixColumn(shown) ELSE {}

\* The assertions of bcmc_observer.v and bcmc_out_engine.v that depend on what
\* the other modules do: a visited column is a column of the row, and while a
\* matrix exists no lane at or above C is active in the sideband.
SidebandAssertions ==
  /\ visit_valid(valid) => running /\ col_q < N
  /\ valid => \A i \in column_bits(col_q) : i < C

\* What the pads and the sideband show in any clock: registers in their widths,
\* columns of the row and lanes below C, and the pattern of the scan.
PinsContract ==
  /\ ScanTypeOK
  /\ SidebandAssertions
  /\ PinsShowTheScan

\* A pass that stops without its last visit and without a reset leaves its
\* mark, and the mark stays until the next pass begins.
IncompletePassIsMarked ==
  [][ /\ running /\ ~running' /\ ~pass_done(N, valid) =>
           aborted_q' \/ ResetObserver
      /\ aborted_q /\ ~aborted_q' => visit_q' \/ ResetObserver ]_vars

\* Every pass comes to an end, in its last visit or earlier.
PassEnds == running ~> (pass_done(N, valid) \/ ~running)

\* The strengthening of PassIsAPermutation that is inductive.  A pass follows
\* one permutation of the row, which the source may already have replaced when
\* the last step is latched; the history holds what of it has been presented.
Follows(p) ==
  /\ \A k \in DOMAIN visited : visited[k][1] = p[k - 1]
  /\ Len(visited) = IF visit_q THEN t_q ELSE IF t_q = N - 1 THEN 0 ELSE t_q + 1
  /\ visit_q => col_q = p[t_q]
  /\ t_q # N - 1 => p = order

PassInv ==
  /\ running \in BOOLEAN /\ visit_q \in BOOLEAN
  /\ N \in Val /\ t_q \in Val /\ order \in Permutations(N)
  /\ visited \in Seq(Val \X SUBSET Lanes) /\ col_q \in Val
  /\ visit_q => running
  /\ ~running => visited = <<>>
  /\ \A j, k \in DOMAIN visited : j # k => visited[j][1] # visited[k][1]
  /\ running /\ valid => t_q < N /\ \E p \in Permutations(N) : Follows(p)

\* What makes the visits and the pins speak of one matrix, for any context: the
\* history of a pass and the held pattern are columns of the matrix that is
\* valid now, because VALID falls before anything they depend on can change.
\* shown and pattern_q are emptied by the first clock without VALID.
MatrixInv ==
  /\ ScanTypeOK
  /\ valid => IsTransform(offsets, Lanes, N, C, W)
  /\ running /\ valid =>
       \A k \in DOMAIN visited : visited[k][2] = column_bits(visited[k][1])
  /\ ~valid_q => pattern_q = {} /\ shown = -1
  /\ shown = -1 => pattern_q = {}
  /\ valid /\ shown # -1 =>
       shown \in 0 .. N - 1 /\ pattern_q = column_bits(shown)

\* The contexts the reference defines a matrix for: the rows have lanes, and
\* the weights are those the Balance Theorem admits.
LegalContext == 0 .. C - 1 \subseteq Lanes /\ Legal(N, C, W)
=============================================================================
