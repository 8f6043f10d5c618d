------------------------ MODULE BcmcShuffled_proofs ------------------------
(***************************************************************************)
(* The shuffled source under the engine, for every bank size, LEAD, row    *)
(* and sequence of draws: the bank that is played is whole, is never       *)
(* written, and is the one the pass began with.  ShuffledInv is inductive. *)
(* Its heart is small: a bank that is being filled is EMPTY in `st`, a     *)
(* bank that can be read is not, and what is EMPTY stays so until its fill *)
(* ends; and each swap permutes a permutation.                             *)
(***************************************************************************)
EXTENDS BcmcShuffledPass, BcmcArith_proofs

\* The seam inside a row: the question is about the next step, or about step 0
\* while the last one is presented.
LEMMA NextSteps ==
  ASSUME NEW n \in Val, t_q \in Val, t_q < n
  PROVE  /\ last_now(n) <=> t_q = n - 1
         /\ t_next(n) = IF t_q + 1 < n THEN t_q + 1 ELSE 0
         /\ t_next(n) \in Val /\ t_next(n) < n
<1>1. last_now(n) <=> t_q = n - 1
  BY NoWrap DEF last_now, last
<1>2. t_next(n) = IF t_q + 1 < n THEN t_q + 1 ELSE 0
  BY <1>1, NoWrap DEF t_next, Val
<1> QED BY <1>1, <1>2, NoWrap, ValRangeAssumption DEF Val

\* The engine's registers keep their types, and a visit is due in a pass only.
LEMMA EngineKeeps ==
  ASSUME running \in BOOLEAN, visit_q \in BOOLEAN, t_q \in Val, col_q \in Val,
         visit_q => running,
         NEW start, NEW trigger, NEW single, NEW n, NEW holds, NEW pi \in Val,
         ObserverEdge(start, trigger, single, n, holds, pi)
  PROVE  /\ running' \in BOOLEAN /\ visit_q' \in BOOLEAN
         /\ t_q' \in Val /\ col_q' \in Val
         /\ visit_q' => running'
<1>1. 0 \in Val BY ValRangeAssumption DEF Val
<1>2. (t_q + 1) % ValRange \in Val BY ValRangeAssumption DEF Val
<1>3. t_next(n) \in Val BY <1>1, <1>2 DEF t_next
<1>4. CASE AbortPass(holds) BY <1>4 DEF AbortPass
<1>5. CASE StartPass(start, n, holds, pi) BY <1>1, <1>5 DEF StartPass
<1>6. CASE NoPass(start, n, holds) BY <1>6 DEF NoPass
<1>7. CASE EndPass(single, n, holds) BY <1>7 DEF EndPass
<1>8. CASE Advance(trigger, single, n, holds, pi) BY <1>3, <1>8 DEF Advance
<1>9. CASE HoldPass(trigger, single, n, holds) BY <1>9 DEF HoldPass
<1> QED BY <1>4, <1>5, <1>6, <1>7, <1>8, <1>9 DEF ObserverEdge

-----------------------------------------------------------------------------
\* The state, without the invariant.

\* Exchanging the questions i and d of a permutation e of S permutes it.
LEMMA SwapKeepsPermutation ==
  ASSUME NEW S, NEW e, NEW i \in S, NEW d \in S,
         {e[x] : x \in S} = S
  PROVE  {e[IF x = i THEN d ELSE IF x = d THEN i ELSE x] : x \in S} = S
<1> DEFINE swapped(x) == IF x = i THEN d ELSE IF x = d THEN i ELSE x
<1>1. \A x \in S : swapped(x) \in S /\ swapped(swapped(x)) = x OBVIOUS
<1>2. \A y \in S : \E x \in S : e[x] = y OBVIOUS
<1>3. \A x \in S : e[x] \in S OBVIOUS
<1>4. \A y \in S : \E x \in S : e[swapped(x)] = y BY <1>1, <1>2
<1>5. \A x \in S : e[swapped(x)] \in S BY <1>1, <1>3
<1> HIDE DEF swapped
<1>6. {e[swapped(x)] : x \in S} = S BY <1>4, <1>5
<1> QED BY <1>6 DEF swapped

(* An entry of a bank, written or not, is a column number.                 *)
LEMMA EntryType ==
  ASSUME ShuffledTypeOK, NEW b \in 0 .. 1, NEW x \in Val
  PROVE  Entry(b, x) \in Val
BY DEF ShuffledTypeOK, Entry

-----------------------------------------------------------------------------
\* Section 5.5: the bank that can be read is not the one that is filled.

(* Section 5.5: the bank that can be read is whole, and neither in work    *)
(* nor the next to be filled.                                              *)
LEMMA ReadIsApart ==
  ASSUME ShuffledInv, NEW t, readable(t)
  PROVE  /\ read_bank(t) \in 0 .. 1 /\ st[read_bank(t)] # "EMPTY"
         /\ fill_busy_q => fill_bank_q # read_bank(t)
         /\ can_start(N) => empty_bank # read_bank(t)
<1>1. read_bank(t) \in 0 .. 1 BY DEF read_bank, ShuffledInv, ShuffledTypeOK
<1>2. st[read_bank(t)] # "EMPTY" BY DEF readable
<1>3. fill_busy_q => st[fill_bank_q] = "EMPTY" BY DEF ShuffledInv, FillInv
<1>4. can_start(N) => st[empty_bank] = "EMPTY"
  BY DEF can_start, empty_bank
<1> QED BY <1>1, <1>2, <1>3, <1>4

(* Hence no fill touches the bank that is read.                            *)
LEMMA InvIsolates == ShuffledInv => BankIsolation
BY ReadIsApart DEF BankIsolation

\* When the source is ready the bank in play is whole, on either side of the
\* exchange.
LEMMA ReadyReads ==
  ASSUME ShuffledInv, ready_q, NEW t
  PROVE  readable(t) /\ Fits
<1>1. st[playing_q] # "EMPTY" BY DEF ShuffledInv, StartUpInv
<1>2. playing_q \in 0 .. 1 /\ \A b \in 0 .. 1 : st[b] \in {"EMPTY", "COMPLETE", "PLAYING"}
  BY DEF ShuffledInv, ShuffledTypeOK
<1>3. Fits BY <1>1, <1>2 DEF ShuffledInv, BanksInv
<1>4. readable(t)
  BY <1>1, <1>2 DEF readable, read_bank, do_switch, st_other
<1> QED BY <1>3, <1>4

(* Hence a bank that may be played is a whole order.                       *)
LEMMA InvKeepsContract == ShuffledInv => SourceContract
<1> SUFFICES ASSUME ShuffledInv PROVE SourceContract OBVIOUS
<1>1. ShuffledTypeOK BY DEF ShuffledInv
<1>2. BanksAreWhole
  <2>1. SUFFICES ASSUME ~n_changed, NEW b \in 0 .. 1, st[b] # "EMPTY"
                 PROVE  /\ [x \in Row |-> Entry(b, x)] = whole[b]
                        /\ {whole[b][x] : x \in Row} = Row
    BY DEF BanksAreWhole
  <2>2. Row = RowOf BY <2>1 DEF Row, RowOf, n_changed
  <2>3. /\ whole[b] = [x \in RowOf |-> Entry(b, x)]
        /\ {Entry(b, x) : x \in RowOf} = RowOf
    BY <2>1 DEF ShuffledInv, BanksInv
  <2>4. \A x \in RowOf : whole[b][x] = Entry(b, x) BY <2>3
  <2>5. {whole[b][x] : x \in RowOf} = {Entry(b, x) : x \in RowOf} BY <2>4
  <2> QED BY <2>2, <2>3, <2>5
<1>3. ReadyIsReadable BY ReadyReads DEF ReadyIsReadable, start_ready
<1>4. NeverReadyBeyondBank
  BY ReadyReads DEF NeverReadyBeyondBank, n_changed, Fits
<1> QED BY <1>1, <1>2, <1>3, <1>4 DEF SourceContract

(* Hence a pass presents one bank.                                         *)
LEMMA InvPlaysOneBank == ShuffledInv => PassPlaysOneBank
<1> SUFFICES ASSUME ShuffledInv, visit_valid(valid)
             PROVE  /\ pass_bank # <<>> /\ col_q = pass_bank[t_q]
                    /\ {pass_bank[x] : x \in Row} = Row
  BY DEF PassPlaysOneBank
<1>1. visit_q /\ valid /\ running
  BY DEF visit_valid, ShuffledInv, PlayInv
<1>2. Row = RowOf BY <1>1 DEF ShuffledInv, PlayInv, Row, RowOf
<1>3. /\ col_q = pass_bank[t_q] /\ DOMAIN pass_bank = RowOf
      /\ {pass_bank[x] : x \in RowOf} = RowOf /\ N # 0
  BY <1>1 DEF ShuffledInv, PlayInv
<1>4. 0 \in RowOf
  BY <1>2, <1>3, NsAssumption DEF ShuffledInv, ShuffledTypeOK, Row, Val
<1>5. pass_bank # <<>> BY <1>3, <1>4
<1> QED BY <1>2, <1>3, <1>5

-----------------------------------------------------------------------------
\* One edge of the source, for the row it was loaded for.

\* The permutation under construction, entry by entry.
LEMMA SwapStep ==
  ASSUME ShuffledInv, NEW draw \in Draws, Swap(draw)
  PROVE  /\ draw \in RowOf /\ i_q \in RowOf /\ RowOf \subseteq 0 .. BankSize - 1
         /\ {Entry(fill_bank_q, x)' : x \in RowOf} = RowOf
<1> DEFINE fb == fill_bank_q
           swapped(x) == IF x = i_q THEN draw ELSE IF x = draw THEN i_q ELSE x
           e == [x \in RowOf |-> Entry(fb, x)]
<1>1. /\ Fits /\ i_q \in RowOf /\ fb \in 0 .. 1 /\ DOMAIN bank = 0 .. 1
      /\ {Entry(fb, x) : x \in RowOf} = RowOf
  BY DEF Swap, ShuffledInv, FillInv, ShuffledTypeOK
<1>2. draw \in Int /\ draw >= 0 /\ draw <= i_q BY DEF Swap, Draws
<1>3. draw \in RowOf /\ RowOf \subseteq 0 .. BankSize - 1
  BY <1>1, <1>2, BankSizeAssumption DEF RowOf, Fits
<1>4. bank'[fb] = [x \in DOMAIN bank[fb] \cup {i_q, draw} |-> Entry(fb, swapped(x))]
      /\ fill_bank_q' = fb
  BY <1>1 DEF Swap
<1>5. ASSUME NEW x \in RowOf PROVE Entry(fb, x)' = e[swapped(x)]
  <2>1. swapped(x) \in RowOf BY <1>1, <1>3
  <2>2. CASE x \in DOMAIN bank[fb] \cup {i_q, draw}
    BY <1>4, <2>1, <2>2 DEF Entry
  <2>3. CASE x \notin DOMAIN bank[fb] \cup {i_q, draw}
    <3>1. swapped(x) = x /\ Entry(fb, x) = x BY <2>3 DEF Entry
    <3>2. Entry(fb, x)' = x BY <1>4, <2>3 DEF Entry
    <3> QED BY <3>1, <3>2
  <2> QED BY <2>2, <2>3
<1>6. {e[x] : x \in RowOf} = RowOf BY <1>1
<1>7. {e[swapped(x)] : x \in RowOf} = RowOf
  <2>1. i_q \in RowOf /\ draw \in RowOf BY <1>1, <1>3
  <2> HIDE DEF e
  <2> QED BY <1>6, <2>1, SwapKeepsPermutation
<1> QED BY <1>1, <1>3, <1>5, <1>7

\* What the fill does to the banks: those that hold something are not touched,
\* and the one in work is a permutation, in mid-fill and when it is complete.
LEMMA FillStep ==
  ASSUME ShuffledInv, N = n_q, NEW t, NEW draw \in Draws,
         ShuffledEdge(N, t, draw)
  PROVE  /\ \A b \in 0 .. 1 : st[b] # "EMPTY" => bank'[b] = bank[b]
         /\ fill_bank_q' \in 0 .. 1
         /\ fill_busy_q' \/ fill_completes(draw) =>
              /\ Fits /\ i_q' \in RowOf /\ st[fill_bank_q'] = "EMPTY"
              /\ {Entry(fill_bank_q, x)' : x \in RowOf} = RowOf
         /\ fill_completes(draw) => ~fill_busy_q' /\ fill_bank_q' = fill_bank_q
         /\ st = [b \in 0 .. 1 |-> "EMPTY"] /\ (fill_busy_q => fill_bank_q = 0) =>
              (fill_busy_q' => fill_bank_q' = 0)
<1>1. /\ DOMAIN bank = 0 .. 1 /\ fill_bank_q \in 0 .. 1 /\ fill_busy_q \in BOOLEAN
      /\ fill_busy_q =>
           /\ Fits /\ i_q \in RowOf /\ st[fill_bank_q] = "EMPTY"
           /\ {Entry(fill_bank_q, x) : x \in RowOf} = RowOf
  BY DEF ShuffledInv, ShuffledTypeOK, FillInv
<1>2. CASE StartFill(N)
  <2>1. /\ Fits /\ empty_bank \in 0 .. 1 /\ st[empty_bank] = "EMPTY"
        /\ ~fill_busy_q /\ fill_busy_q' /\ fill_bank_q' = empty_bank
        /\ i_q' = n_q - 1 /\ bank' = [bank EXCEPT ![empty_bank] = <<>>]
    BY <1>2 DEF StartFill, can_start, Fits, empty_bank
  <2>2. i_q' \in RowOf BY <2>1 DEF RowOf, Fits
  <2>3. bank'[fill_bank_q'] = <<>> BY <1>1, <2>1
  <2>4. ASSUME NEW x \in RowOf PROVE Entry(fill_bank_q, x)' = x
    BY <2>3 DEF Entry
  <2>5. ~fill_completes(draw) BY <2>1 DEF fill_completes
  <2>6. st = [b \in 0 .. 1 |-> "EMPTY"] => empty_bank = 0 BY DEF empty_bank
  <2> QED BY <1>1, <2>1, <2>2, <2>4, <2>5, <2>6
<1>3. CASE NoFill(N)
  BY <1>1, <1>3 DEF NoFill, fillVars, fill_completes
<1>4. CASE EndEmptyFill
  <2>1. /\ fill_busy_q /\ ~fill_busy_q' /\ bank' = bank
        /\ fill_bank_q' = fill_bank_q /\ i_q' = i_q
    BY <1>4 DEF EndEmptyFill
  <2>2. \A x : Entry(fill_bank_q, x)' = Entry(fill_bank_q, x) BY <2>1 DEF Entry
  <2> QED BY <1>1, <2>1, <2>2
<1>5. CASE Swap(draw)
  <2>1. /\ fill_busy_q /\ i_q # 0 /\ fill_bank_q' = fill_bank_q
        /\ fill_busy_q' = (i_q # 1) /\ i_q' = IF i_q = 1 THEN i_q ELSE i_q - 1
        /\ \A b \in 0 .. 1 : b # fill_bank_q => bank'[b] = bank[b]
    BY <1>1, <1>5 DEF Swap
  <2>2. i_q' \in RowOf BY <1>1, <2>1 DEF RowOf, Fits
  <2>3. fill_completes(draw) => i_q = 1 BY <2>1 DEF fill_completes
  <2>4. {Entry(fill_bank_q, x)' : x \in RowOf} = RowOf BY <1>5, SwapStep
  <2> QED BY <1>1, <2>1, <2>2, <2>3, <2>4
<1>6. CASE Reject(draw)
  <2>1. /\ fill_busy_q /\ fill_busy_q' = fill_busy_q /\ bank' = bank
        /\ fill_bank_q' = fill_bank_q /\ i_q' = i_q /\ i_q # 0 /\ draw > i_q
    BY <1>6 DEF Reject, fillVars
  <2>2. \A x : Entry(fill_bank_q, x)' = Entry(fill_bank_q, x) BY <2>1 DEF Entry
  <2>3. ~fill_completes(draw)
    <3>1. i_q \in Int /\ draw \in Int BY <1>1, <2>1 DEF RowOf, Draws
    <3> QED BY <2>1, <3>1 DEF fill_completes
  <2> QED BY <1>1, <2>1, <2>2, <2>3
<1> QED BY <1>2, <1>3, <1>4, <1>5, <1>6 DEF ShuffledEdge

\* What the exchange does: a bank comes to hold something by the end of its fill
\* only, and the bank that was read is the one in play.
LEMMA ExchangeStep ==
  ASSUME ShuffledInv, NEW t, NEW draw, ShuffledEdge(N, t, draw)
  PROVE  /\ st' \in [0 .. 1 -> {"EMPTY", "COMPLETE", "PLAYING"}]
         /\ playing_q' \in 0 .. 1 /\ playing_q' = read_bank(t)
         /\ \A b \in 0 .. 1 :
              st'[b] # "EMPTY" =>
                st[b] # "EMPTY" \/ (fill_completes(draw) /\ b = fill_bank_q)
         /\ st[playing_q] # "EMPTY" => st'[playing_q'] # "EMPTY"
         /\ ~(at_boundary(t) /\ do_switch) =>
              /\ playing_q' = playing_q
              /\ fill_completes(draw) => st'[fill_bank_q] = "COMPLETE"
              /\ \A b \in 0 .. 1 :
                   st'[b] = st[b] \/ (fill_completes(draw) /\ b = fill_bank_q)
         /\ at_boundary(t) /\ do_switch =>
              playing_q' = 1 - playing_q /\ st'[playing_q] = "EMPTY"
<1> DEFINE States == {"EMPTY", "COMPLETE", "PLAYING"}
           filled == IF fill_completes(draw)
                     THEN [st EXCEPT ![fill_bank_q] = "COMPLETE"] ELSE st
<1>1. /\ st \in [0 .. 1 -> States] /\ playing_q \in 0 .. 1
      /\ 1 - playing_q \in 0 .. 1 /\ fill_bank_q \in 0 .. 1
  BY DEF ShuffledInv, ShuffledTypeOK
<1>2. /\ filled \in [0 .. 1 -> States]
      /\ \A b \in 0 .. 1 :
           filled[b] = IF fill_completes(draw) /\ b = fill_bank_q
                       THEN "COMPLETE" ELSE st[b]
  BY <1>1
<1>3. /\ st' = IF at_boundary(t) /\ do_switch
                THEN [filled EXCEPT ![playing_q] = "EMPTY",
                                    ![1 - playing_q] = "PLAYING"]
                ELSE filled
      /\ playing_q' = IF at_boundary(t) /\ do_switch
                      THEN 1 - playing_q ELSE playing_q
  BY DEF ShuffledEdge, BankStates, Boundary
<1>4. playing_q' = read_bank(t) /\ playing_q' \in 0 .. 1
  BY <1>1, <1>3 DEF read_bank
<1> HIDE DEF filled
<1>5. CASE at_boundary(t) /\ do_switch
  <2>1. /\ st' \in [0 .. 1 -> States] /\ playing_q' = 1 - playing_q
        /\ st'[playing_q] = "EMPTY" /\ st'[1 - playing_q] = "PLAYING"
    BY <1>1, <1>2, <1>3, <1>5
  <2>2. st[1 - playing_q] = "COMPLETE" BY <1>5 DEF do_switch, st_other
  <2>3. \A b \in 0 .. 1 : b = playing_q \/ b = 1 - playing_q BY <1>1
  <2> QED BY <1>4, <1>5, <2>1, <2>2, <2>3
<1>6. CASE ~(at_boundary(t) /\ do_switch)
  BY <1>1, <1>2, <1>3, <1>4, <1>6
<1> QED BY <1>5, <1>6

(* A clock of the source keeps the fill a permutation, the banks whole,    *)
(* and the start-up on its way.                                            *)
LEMMA SourceStep ==
  ASSUME ShuffledInv, N = n_q, n_q' = n_q, NEW draw \in Draws,
         ShuffledEdge(N, ts_t(N), draw), Record(draw)
  PROVE  /\ FillInv' /\ BanksInv' /\ StartUpInv'
         /\ DOMAIN whole' = 0 .. 1
         /\ \A b \in 0 .. 1 : st[b] # "EMPTY" => whole'[b] = whole[b]
         /\ ready_q => ready_q'
<1> DEFINE t == ts_t(N)
<1>1. /\ st \in [0 .. 1 -> {"EMPTY", "COMPLETE", "PLAYING"}]
      /\ fill_bank_q \in 0 .. 1 /\ RowOf' = RowOf /\ (Fits' <=> Fits) /\ Row = RowOf
  BY DEF ShuffledInv, ShuffledTypeOK, RowOf, Fits, Row
<1>2. /\ st' \in [0 .. 1 -> {"EMPTY", "COMPLETE", "PLAYING"}]
      /\ \A b \in 0 .. 1 :
           st'[b] # "EMPTY" =>
             st[b] # "EMPTY" \/ (fill_completes(draw) /\ b = fill_bank_q)
  BY ExchangeStep
<1>3. FillInv'
  <2>1. SUFFICES ASSUME fill_busy_q'
                 PROVE  /\ Fits' /\ i_q' \in RowOf' /\ st'[fill_bank_q'] = "EMPTY"
                        /\ {Entry(fill_bank_q, x)' : x \in RowOf'} = RowOf'
    BY DEF FillInv
  <2>2. /\ Fits /\ i_q' \in RowOf /\ st[fill_bank_q'] = "EMPTY"
        /\ fill_bank_q' \in 0 .. 1 /\ ~fill_completes(draw)
        /\ {Entry(fill_bank_q, x)' : x \in RowOf} = RowOf
    BY <2>1, FillStep
  <2>3. st'[fill_bank_q'] = "EMPTY" BY <1>2, <2>2
  <2> QED BY <1>1, <2>2, <2>3
<1>4. /\ DOMAIN whole' = 0 .. 1
      /\ \A b \in 0 .. 1 :
           whole'[b] = IF fill_completes(draw) /\ b = fill_bank_q
                       THEN [x \in RowOf |-> IF x \in DOMAIN bank'[b]
                                            THEN bank'[b][x] ELSE x]
                       ELSE whole[b]
  BY <1>1 DEF Record
<1>5. ASSUME NEW b \in 0 .. 1, st[b] # "EMPTY" PROVE whole'[b] = whole[b]
  <2>1. ~(fill_completes(draw) /\ b = fill_bank_q) BY <1>5, FillStep
  <2> QED BY <1>4, <2>1
<1>6. BanksInv'
  <2>1. SUFFICES ASSUME NEW b \in 0 .. 1, st'[b] # "EMPTY"
                 PROVE  /\ Fits'
                        /\ whole'[b] = [x \in RowOf' |-> Entry(b, x)']
                        /\ {Entry(b, x)' : x \in RowOf'} = RowOf'
    BY DEF BanksInv
  <2>2. CASE st[b] # "EMPTY"
    <3>1. bank'[b] = bank[b] /\ whole'[b] = whole[b] BY <1>5, <2>2, FillStep
    <3>2. \A x : Entry(b, x)' = Entry(b, x) BY <3>1 DEF Entry
    <3>3. /\ Fits /\ whole[b] = [x \in RowOf |-> Entry(b, x)]
          /\ {Entry(b, x) : x \in RowOf} = RowOf
      BY <2>2 DEF ShuffledInv, BanksInv
    <3> QED BY <1>1, <3>1, <3>2, <3>3
  <2>3. CASE st[b] = "EMPTY"
    <3>1. fill_completes(draw) /\ b = fill_bank_q BY <1>2, <2>1, <2>3
    <3>2. /\ Fits /\ b = fill_bank_q'
          /\ {Entry(fill_bank_q, x)' : x \in RowOf} = RowOf
      BY <3>1, FillStep
    <3>3. \A x : Entry(b, x)' = IF x \in DOMAIN bank'[b] THEN bank'[b][x] ELSE x
      BY DEF Entry
    <3>4. whole'[b] = [x \in RowOf |-> Entry(b, x)'] BY <1>4, <3>1, <3>3
    <3>5. \A x : Entry(fill_bank_q, x)' = Entry(b, x)' BY <3>2, <3>3 DEF Entry
    <3> QED BY <1>1, <3>2, <3>4, <3>5
  <2> QED BY <2>2, <2>3
<1>7. StartUpInv' /\ (ready_q => ready_q')
  <2>1. /\ ready_q' = (ready_q \/ (fill_completes(draw) /\ built_q + 1 >= Lead))
        /\ built_q' = IF ~fill_completes(draw) THEN built_q
                      ELSE IF built_q >= Lead THEN 2 ELSE built_q + 1
    BY DEF ShuffledEdge, CountBank
  <2>2. CASE built_q = 0
    <3>1. /\ st = [b \in 0 .. 1 |-> "EMPTY"] /\ playing_q = 0
          /\ fill_busy_q => fill_bank_q = 0
          /\ ~ready_q
      BY <2>2 DEF ShuffledInv, StartUpInv
    <3>2. ~do_switch BY <3>1 DEF do_switch, st_other
    <3>3. playing_q' = 0 /\ (fill_completes(draw) => st'[fill_bank_q] = "COMPLETE")
      BY <3>1, <3>2, ExchangeStep
    <3>4. CASE fill_completes(draw)
      <4>1. fill_bank_q = 0 BY <3>1, <3>4 DEF fill_completes
      <4>2. built_q' # 0 BY <2>1, <2>2, <3>4
      <4> QED BY <3>1, <3>3, <3>4, <4>1, <4>2 DEF StartUpInv
    <3>5. CASE ~fill_completes(draw)
      <4>1. built_q' = 0 /\ ~ready_q' BY <2>1, <2>2, <3>1, <3>5
      <4>2. st' = [b \in 0 .. 1 |-> "EMPTY"] BY <1>2, <3>1, <3>5
      <4>3. fill_busy_q' => fill_bank_q' = 0 BY <3>1, FillStep
      <4> QED BY <3>1, <3>3, <4>1, <4>2, <4>3 DEF StartUpInv
    <3> QED BY <3>4, <3>5
  <2>3. CASE built_q # 0
    <3>1. st[playing_q] # "EMPTY" BY <2>3 DEF ShuffledInv, StartUpInv
    <3>2. st'[playing_q'] # "EMPTY" BY <3>1, ExchangeStep
    <3>3. built_q' # 0 BY <2>1, <2>3 DEF ShuffledInv, ShuffledTypeOK
    <3>4. ready_q => ready_q' BY <2>1
    <3> QED BY <3>2, <3>3, <3>4 DEF StartUpInv
  <2> QED BY <2>2, <2>3
<1> QED BY <1>3, <1>4, <1>5, <1>6, <1>7

-----------------------------------------------------------------------------
\* The engine on the seam.

\* The answer is that of the whole bank that is read.
LEMMA AnswerIsOfBank ==
  ASSUME ShuffledInv, N = n_q, ready_q, ts_t(N) \in RowOf
  PROVE  LET r == read_bank(ts_t(N))
         IN  /\ r \in 0 .. 1 /\ st[r] # "EMPTY"
             /\ ts_pi = whole[r][ts_t(N)]
             /\ DOMAIN whole[r] = RowOf
             /\ {whole[r][x] : x \in RowOf} = RowOf
<1> DEFINE t == ts_t(N)
           r == read_bank(t)
<1>1. readable(t) /\ Fits BY ReadyReads
<1>2. r \in 0 .. 1 /\ st[r] # "EMPTY" BY <1>1, ReadIsApart
<1>3. /\ whole[r] = [x \in RowOf |-> Entry(r, x)]
      /\ {Entry(r, x) : x \in RowOf} = RowOf
  BY <1>2 DEF ShuffledInv, BanksInv
<1>4. t % BankSize = t
  BY <1>1, BankSizeAssumption DEF RowOf, Fits
<1>5. ts_pi = Entry(r, t) BY <1>1, <1>4 DEF ts_pi, shuffled_pi
<1>6. \A x \in RowOf : whole[r][x] = Entry(r, x) BY <1>3
<1>7. {whole[r][x] : x \in RowOf} = {Entry(r, x) : x \in RowOf} BY <1>6
<1> QED BY <1>2, <1>3, <1>5, <1>6, <1>7

\* A pass begins with the bank it reads.
LEMMA PassBegins ==
  ASSUME ShuffledInv, N = n_q, n_q' = n_q, N' = N, N \in Val, N # 0, ready_q,
         NEW draw \in Draws, ShuffledEdge(N, ts_t(N), draw), Record(draw),
         ts_t(N) = 0, running', visit_q', t_q' = 0, col_q' = ts_pi
  PROVE  /\ t_q' < N'
         /\ DOMAIN pass_bank' = RowOf' /\ {pass_bank'[x] : x \in RowOf'} = RowOf'
         /\ t_q' # N' - 1 => pass_bank' = whole'[playing_q']
         /\ visit_q' => col_q' = pass_bank'[t_q']
<1> DEFINE r == read_bank(ts_t(N))
<1>1. ts_t(N) \in RowOf /\ 0 < N BY DEF RowOf, Val
<1>2. /\ r \in 0 .. 1 /\ st[r] # "EMPTY" /\ ts_pi = whole[r][0]
      /\ DOMAIN whole[r] = RowOf /\ {whole[r][x] : x \in RowOf} = RowOf
  BY <1>1, AnswerIsOfBank
<1>3. pass_bank' = whole[r] BY DEF Record, pass_begins
<1>4. whole'[r] = whole[r] BY <1>2, SourceStep
<1>5. playing_q' = r BY ExchangeStep
<1> QED BY <1>1, <1>2, <1>3, <1>4, <1>5 DEF RowOf

\* In mid-pass there is no boundary, and no fill ends in the bank in play.
LEMMA PassContinues ==
  ASSUME ShuffledInv, N = n_q, n_q' = n_q, N \in Val, t_q \in Val,
         running, valid, t_q # N - 1,
         NEW draw \in Draws, ShuffledEdge(N, ts_t(N), draw), Record(draw)
  PROVE  /\ ts_t(N) = t_q + 1 /\ ts_t(N) \in RowOf
         /\ read_bank(ts_t(N)) = playing_q /\ playing_q' = playing_q
         /\ pass_bank = whole[playing_q] /\ whole'[playing_q'] = whole[playing_q]
<1>1. t_q < N /\ ready_q /\ pass_bank = whole[playing_q]
  BY DEF ShuffledInv, PlayInv
<1>2. ts_t(N) = t_q + 1 /\ ts_t(N) \in RowOf /\ ts_t(N) # 0
  BY <1>1, NextSteps DEF ts_t, RowOf, Val
<1>3. ~at_boundary(ts_t(N)) BY <1>2 DEF at_boundary
<1>4. read_bank(ts_t(N)) = playing_q BY <1>3 DEF read_bank
<1>5. playing_q \in 0 .. 1 /\ st[playing_q] # "EMPTY"
  BY <1>1, <1>2, <1>4, AnswerIsOfBank
<1>6. playing_q' = playing_q BY <1>4, ExchangeStep
<1>7. whole'[playing_q] = whole[playing_q] BY <1>5, SourceStep
<1> QED BY <1>1, <1>2, <1>4, <1>6, <1>7

(* A clock of engine and source keeps a live pass on the bank it began     *)
(* with.                                                                   *)
LEMMA PlayStep ==
  ASSUME ShuffledInv, NEW start, NEW trigger, NEW draw \in Draws,
         Run(start, trigger, draw)
  PROVE  PlayInv'
<1>1. /\ N = n_q /\ n_q' = n_q /\ N # 0 /\ N \in Val /\ t_q \in Val
      /\ ShuffledEdge(N, ts_t(N), draw) /\ Record(draw)
      /\ start => ready_q
      /\ valid' => N' = N
  BY NsAssumption DEF Run, Sideband, no_source, n_changed, start_ready,
     ShuffledInv, ShuffledTypeOK, ObserverTypeOK
<1>2. ObserverEdge(start, trigger, oneshot, N, valid, ts_pi) BY DEF Run
<1>3. visit_q' => running'
  BY <1>2 DEF ObserverEdge, AbortPass, StartPass, NoPass, EndPass, Advance,
     HoldPass, ShuffledInv, PlayInv
<1>4. ASSUME running', valid'
      PROVE  /\ N' # 0 /\ ready_q' /\ t_q' < N'
             /\ DOMAIN pass_bank' = RowOf' /\ {pass_bank'[x] : x \in RowOf'} = RowOf'
             /\ t_q' # N' - 1 => pass_bank' = whole'[playing_q']
             /\ visit_q' => col_q' = pass_bank'[t_q']
  <2>1. N' = N /\ RowOf' = RowOf BY <1>1, <1>4 DEF RowOf
  <2>2. CASE StartPass(start, N, valid, ts_pi)
    <3>1. /\ ready_q /\ ts_t(N) = 0 /\ visit_q' /\ t_q' = 0 /\ col_q' = ts_pi
      BY <1>1, <2>2 DEF StartPass, ts_t
    <3> QED BY <1>1, <1>4, <2>1, <3>1, PassBegins, SourceStep
  <2>3. ASSUME running, valid, Advance(trigger, oneshot, N, valid, ts_pi)
        PROVE  /\ N' # 0 /\ ready_q' /\ t_q' < N'
               /\ DOMAIN pass_bank' = RowOf'
               /\ {pass_bank'[x] : x \in RowOf'} = RowOf'
               /\ t_q' # N' - 1 => pass_bank' = whole'[playing_q']
               /\ visit_q' => col_q' = pass_bank'[t_q']
    <3>1. /\ ready_q /\ t_q < N
          /\ DOMAIN pass_bank = RowOf /\ {pass_bank[x] : x \in RowOf} = RowOf
      BY <2>3 DEF ShuffledInv, PlayInv
    <3>2. /\ t_q' = t_next(N) /\ ts_t(N) = t_next(N) /\ visit_q' = TRUE
          /\ col_q' = ts_pi
          /\ t_next(N) = IF t_q + 1 < N THEN t_q + 1 ELSE 0
          /\ t_next(N) < N
      BY <1>1, <2>3, <3>1, NextSteps DEF Advance, ts_t
    <3>3. CASE t_q = N - 1
      <4>1. ts_t(N) = 0 /\ t_q' = 0 BY <1>1, <3>2, <3>3 DEF Val
      <4> QED BY <1>1, <1>4, <2>1, <3>1, <3>2, <4>1, PassBegins, SourceStep
    <3>4. CASE t_q # N - 1
      <4>1. /\ ts_t(N) = t_q + 1 /\ ts_t(N) \in RowOf
            /\ read_bank(ts_t(N)) = playing_q
            /\ pass_bank = whole[playing_q]
            /\ whole'[playing_q'] = whole[playing_q]
        BY <1>1, <2>3, <3>4, PassContinues
      <4>2. t_q' # 0 BY <1>1, <3>2, <4>1 DEF Val
      <4>3. pass_bank' = pass_bank
        BY <1>1, <1>4, <4>2 DEF Record, pass_begins
      <4>4. col_q' = pass_bank[t_q']
        BY <1>1, <3>1, <3>2, <4>1, AnswerIsOfBank
      <4> QED BY <1>1, <2>1, <3>1, <3>2, <4>1, <4>3, <4>4, SourceStep
    <3> QED BY <3>3, <3>4
  <2>4. ASSUME running, valid, HoldPass(trigger, oneshot, N, valid)
        PROVE  /\ N' # 0 /\ ready_q' /\ t_q' < N'
               /\ DOMAIN pass_bank' = RowOf'
               /\ {pass_bank'[x] : x \in RowOf'} = RowOf'
               /\ t_q' # N' - 1 => pass_bank' = whole'[playing_q']
               /\ visit_q' => col_q' = pass_bank'[t_q']
    <3>1. /\ ready_q /\ t_q < N
          /\ DOMAIN pass_bank = RowOf /\ {pass_bank[x] : x \in RowOf} = RowOf
      BY <2>4 DEF ShuffledInv, PlayInv
    <3>2. t_q' = t_q /\ visit_q' = FALSE BY <2>4 DEF HoldPass
    <3>3. pass_bank' = pass_bank BY <1>1, <1>4, <3>2 DEF Record, pass_begins
    <3>4. t_q # N - 1 => pass_bank = whole'[playing_q']
      BY <1>1, <2>4, PassContinues
    <3> QED BY <1>1, <2>1, <3>1, <3>2, <3>3, <3>4, SourceStep
  <2>5. \/ StartPass(start, N, valid, ts_pi)
        \/ running /\ valid /\ Advance(trigger, oneshot, N, valid, ts_pi)
        \/ running /\ valid /\ HoldPass(trigger, oneshot, N, valid)
    BY <1>2, <1>4 DEF ObserverEdge, AbortPass, NoPass, EndPass, Advance, HoldPass
  <2> QED BY <2>2, <2>3, <2>4, <2>5
<1> QED BY <1>1, <1>3, <1>4 DEF PlayInv

-----------------------------------------------------------------------------
\* The registers.

(* The question and the answer at the seam are column numbers.             *)
LEMMA SeamTypes ==
  ASSUME ShuffledTypeOK
  PROVE  ts_t(N) \in Val /\ ts_pi \in Val
<1>1. 0 \in Val /\ (t_q + 1) % ValRange \in Val
  BY ValRangeAssumption DEF ShuffledTypeOK, ObserverTypeOK, Val
<1>2. ts_t(N) \in Val BY <1>1 DEF ts_t, t_next
<1> DEFINE t == ts_t(N)
           i == t % BankSize
<1> HIDE DEF t
<1>3. t \in Val BY <1>2 DEF t
<1>4. i \in Val
  <2>1. CASE t < BankSize
    BY <1>3, <2>1, BankSizeAssumption, ValRangeAssumption DEF Val
  <2>2. CASE ~(t < BankSize)
    BY <1>3, <2>2, BankSizeAssumption, ValRangeAssumption DEF Val
  <2> QED BY <2>1, <2>2
<1>5. read_bank(t) \in 0 .. 1 BY DEF ShuffledTypeOK, read_bank
<1> HIDE DEF i
<1>6. Entry(read_bank(t), i) \in Val BY <1>4, <1>5, EntryType
<1>7. ts_pi \in Val BY <1>3, <1>6 DEF ts_pi, shuffled_pi, i, t
<1> QED BY <1>2, <1>7

\* The banks and the registers of the source after an edge.
LEMMA SourceKeepsTypes ==
  ASSUME ShuffledInv, N = n_q, NEW draw \in Draws,
         ShuffledEdge(N, ts_t(N), draw)
  PROVE  /\ DOMAIN bank' = 0 .. 1
         /\ \A b \in 0 .. 1 : /\ DOMAIN bank'[b] \subseteq 0 .. BankSize - 1
                               /\ \A i \in DOMAIN bank'[b] : bank'[b][i] \in Val
         /\ st' \in [0 .. 1 -> {"EMPTY", "COMPLETE", "PLAYING"}]
         /\ playing_q' \in 0 .. 1 /\ fill_bank_q' \in 0 .. 1
         /\ i_q' \in Val /\ ts_t_q' \in Val /\ built_q' \in 0 .. 2
         /\ fill_busy_q' \in BOOLEAN /\ ready_q' \in BOOLEAN
<1>1. /\ DOMAIN bank = 0 .. 1 /\ fill_bank_q \in 0 .. 1 /\ i_q \in Val
      /\ n_q \in Val /\ fill_busy_q \in BOOLEAN /\ ready_q \in BOOLEAN
      /\ built_q \in 0 .. 2
      /\ \A b \in 0 .. 1 : /\ DOMAIN bank[b] \subseteq 0 .. BankSize - 1
                            /\ \A i \in DOMAIN bank[b] : bank[b][i] \in Val
  BY NsAssumption DEF ShuffledInv, ShuffledTypeOK
<1>2. /\ st' \in [0 .. 1 -> {"EMPTY", "COMPLETE", "PLAYING"}]
      /\ playing_q' \in 0 .. 1 /\ fill_bank_q' \in 0 .. 1
  BY FillStep, ExchangeStep
<1>3. ts_t_q' \in Val BY SeamTypes DEF ShuffledEdge, ShuffledInv
<1>4. built_q' \in 0 .. 2 /\ ready_q' \in BOOLEAN
  <2>1. /\ ready_q' = (ready_q \/ (fill_completes(draw) /\ built_q + 1 >= Lead))
        /\ built_q' = IF ~fill_completes(draw) THEN built_q
                      ELSE IF built_q >= Lead THEN 2 ELSE built_q + 1
    BY DEF ShuffledEdge, CountBank
  <2>2. built_q' \in 0 .. 2 BY <1>1, <2>1, LeadAssumption
  <2>3. ready_q' \in BOOLEAN BY <2>1
  <2> QED BY <2>2, <2>3
<1> DEFINE Kept == \A b \in 0 .. 1 :
                     /\ DOMAIN bank'[b] \subseteq 0 .. BankSize - 1
                     /\ \A i \in DOMAIN bank'[b] : bank'[b][i] \in Val
<1>5. DOMAIN bank' = 0 .. 1 /\ Kept /\ i_q' \in Val /\ fill_busy_q' \in BOOLEAN
  <2>1. CASE StartFill(N)
    <3>1. /\ empty_bank \in 0 .. 1 /\ N \in 1 .. BankSize
          /\ fill_busy_q' = TRUE /\ i_q' = N - 1
          /\ bank' = [bank EXCEPT ![empty_bank] = <<>>]
      BY <2>1 DEF StartFill, can_start, empty_bank
    <3>2. i_q' \in Val BY <1>1, <3>1, ValRangeAssumption DEF Val
    <3>3. DOMAIN <<>> = {} OBVIOUS
    <3>4. Kept BY <1>1, <3>1, <3>3
    <3> QED BY <1>1, <3>1, <3>2, <3>4
  <2>2. CASE NoFill(N)
    BY <1>1, <2>2 DEF NoFill, fillVars
  <2>3. CASE EndEmptyFill
    BY <1>1, <2>3 DEF EndEmptyFill
  <2>4. CASE Reject(draw)
    BY <1>1, <2>4 DEF Reject, fillVars
  <2>5. CASE Swap(draw)
    <3> DEFINE fb == fill_bank_q
               S == DOMAIN bank[fb] \cup {i_q, draw}
               swapped(x) == IF x = i_q THEN draw ELSE IF x = draw THEN i_q ELSE x
    <3>1. /\ fill_busy_q' = (i_q # 1) /\ i_q' = IF i_q = 1 THEN i_q ELSE i_q - 1
          /\ i_q # 0
          /\ bank' = [bank EXCEPT ![fb] = [x \in S |-> Entry(fb, swapped(x))]]
      BY <2>5 DEF Swap
    <3>2. draw \in RowOf /\ i_q \in RowOf /\ RowOf \subseteq 0 .. BankSize - 1
      BY <2>5, SwapStep
    <3>3. RowOf \subseteq Val BY <1>1, ValRangeAssumption DEF RowOf, Val
    <3>4. i_q' \in Val BY <1>1, <3>1, ValRangeAssumption DEF Val
    <3>5. S \subseteq 0 .. BankSize - 1 BY <1>1, <3>2
    <3>6. ASSUME NEW x \in S PROVE Entry(fb, swapped(x)) \in Val
      <4>1. x \in Val \/ x \in DOMAIN bank[fb] BY <3>2, <3>3
      <4>2. swapped(x) \in Val \/ swapped(x) \in DOMAIN bank[fb]
        BY <3>2, <3>3, <4>1
      <4> HIDE DEF swapped
      <4> QED BY <1>1, <4>2 DEF Entry
    <3>7. Kept
      <4> HIDE DEF S, swapped
      <4> QED BY <1>1, <3>1, <3>5, <3>6
    <3>8. DOMAIN bank' = 0 .. 1 BY <1>1, <3>1
    <3>9. fill_busy_q' \in BOOLEAN BY <3>1
    <3> QED BY <3>4, <3>7, <3>8, <3>9
  <2> QED BY <2>1, <2>2, <2>3, <2>4, <2>5 DEF ShuffledEdge
<1> QED BY <1>2, <1>3, <1>4, <1>5

(* The sideband changes N only with a fall of valid.                       *)
LEMMA SidebandKeeps ==
  ASSUME ShuffledTypeOK, Sideband
  PROVE  N' \in Ns /\ valid' \in BOOLEAN /\ (N' # N => ~valid')
BY DEF Sideband, ShuffledTypeOK

\* Any edge of the engine, whatever drives it.
LEMMA EngineKeepsTypes ==
  ASSUME ShuffledInv, NEW start, NEW trigger,
         ObserverEdge(start, trigger, oneshot, N, valid, ts_pi)
         \/ ResetObserver
  PROVE  ObserverTypeOK' /\ (visit_q' => running')
<1>1. /\ running \in BOOLEAN /\ visit_q \in BOOLEAN /\ t_q \in Val /\ col_q \in Val
      /\ aborted_q \in BOOLEAN
      /\ visit_q => running
  BY DEF ShuffledInv, ShuffledTypeOK, ObserverTypeOK, PlayInv
<1>2. CASE ObserverEdge(start, trigger, oneshot, N, valid, ts_pi)
  <2>1. ts_pi \in Val BY SeamTypes DEF ShuffledInv
  <2>2. /\ running' \in BOOLEAN /\ visit_q' \in BOOLEAN
        /\ t_q' \in Val /\ col_q' \in Val /\ (visit_q' => running')
    BY <1>1, <1>2, <2>1, EngineKeeps
  <2>3. aborted_q' \in BOOLEAN
    BY <1>1, <1>2 DEF ObserverEdge, AbortPass, StartPass, NoPass, EndPass,
       Advance, HoldPass
  <2> QED BY <2>2, <2>3 DEF ObserverTypeOK
<1>3. CASE ResetObserver
  <2>1. 0 \in Val BY ValRangeAssumption DEF Val
  <2> QED BY <1>3, <2>1 DEF ResetObserver, ObserverTypeOK
<1> QED BY <1>2, <1>3

-----------------------------------------------------------------------------
\* The steps.

(* After reset the source keeps ShuffledInv.                               *)
LEMMA InitHolds == Init => ShuffledInv
<1> SUFFICES ASSUME Init PROVE ShuffledInv OBVIOUS
<1>1. 0 \in Val /\ 0 \in Ns BY ValRangeAssumption, NsAssumption DEF Val
<1>2. DOMAIN <<>> = {} OBVIOUS
<1>3. ShuffledTypeOK
  BY <1>1, <1>2 DEF Init, ObserverInit, ShuffledInit, ShuffledTypeOK,
     ObserverTypeOK
<1>4. FillInv /\ BanksInv /\ StartUpInv /\ PlayInv
  BY DEF Init, ObserverInit, ShuffledInit, FillInv, BanksInv, StartUpInv, PlayInv
<1> QED BY <1>3, <1>4 DEF ShuffledInv

\* A clock of the source, with the engine running or being reset.
LEMMA ClockKeeps ==
  ASSUME ShuffledInv, ~no_source, ~n_changed,
         NEW start, NEW trigger, NEW draw \in Draws,
         ObserverEdge(start, trigger, oneshot, N, valid, ts_pi)
         \/ ResetObserver,
         ShuffledEdge(N, ts_t(N), draw), Record(draw), n_q' = N, Sideband
  PROVE  /\ ShuffledTypeOK' /\ FillInv' /\ BanksInv' /\ StartUpInv'
         /\ N' # n_q' => ~valid'
<1>1. N = n_q /\ n_q' = n_q /\ ShuffledTypeOK
  BY DEF n_changed, ShuffledInv
<1>2. /\ FillInv' /\ BanksInv' /\ StartUpInv' /\ DOMAIN whole' = 0 .. 1
  BY <1>1, SourceStep
<1>3. ObserverTypeOK' BY EngineKeepsTypes
<1>4. N' \in Ns /\ valid' \in BOOLEAN /\ (N' # N => ~valid')
  BY <1>1, SidebandKeeps
<1>5. n_q' \in Ns BY <1>1 DEF ShuffledTypeOK
<1>6. /\ DOMAIN bank' = 0 .. 1
      /\ \A b \in 0 .. 1 : /\ DOMAIN bank'[b] \subseteq 0 .. BankSize - 1
                            /\ \A i \in DOMAIN bank'[b] : bank'[b][i] \in Val
      /\ st' \in [0 .. 1 -> {"EMPTY", "COMPLETE", "PLAYING"}]
      /\ playing_q' \in 0 .. 1 /\ fill_bank_q' \in 0 .. 1
      /\ i_q' \in Val /\ ts_t_q' \in Val /\ built_q' \in 0 .. 2
      /\ fill_busy_q' \in BOOLEAN /\ ready_q' \in BOOLEAN
  BY <1>1, SourceKeepsTypes
<1>7. ShuffledTypeOK' BY <1>2, <1>3, <1>4, <1>5, <1>6 DEF ShuffledTypeOK
<1> QED BY <1>1, <1>2, <1>4, <1>7

(* A clock without a change of the row keeps ShuffledInv.                  *)
LEMMA RunKeeps ==
  ASSUME ShuffledInv, NEW start, NEW trigger, NEW draw \in Draws,
         Run(start, trigger, draw)
  PROVE  ShuffledInv'
<1>1. PlayInv' BY PlayStep
<1>2. ShuffledTypeOK' /\ FillInv' /\ BanksInv' /\ StartUpInv'
  <2>1. /\ ~no_source /\ ~n_changed
        /\ ObserverEdge(start, trigger, oneshot, N, valid, ts_pi)
        /\ ShuffledEdge(N, ts_t(N), draw) /\ Record(draw) /\ n_q' = N /\ Sideband
    BY DEF Run
  <2> QED BY <2>1, ClockKeeps
<1> QED BY <1>1, <1>2 DEF ShuffledInv

\* The load empties both banks and stops the fill.
LEMMA LoadKeeps ==
  ASSUME LoadShuffled, whole' = [b \in 0 .. 1 |-> <<>>],
         ObserverTypeOK', N' \in Ns, n_q' \in Ns, valid' \in BOOLEAN
  PROVE  ShuffledTypeOK' /\ FillInv' /\ BanksInv' /\ StartUpInv'
<1>1. 0 \in Val BY ValRangeAssumption DEF Val
<1>2. DOMAIN <<>> = {} OBVIOUS
<1>3. ShuffledTypeOK' BY <1>1, <1>2 DEF LoadShuffled, ShuffledTypeOK
<1>4. FillInv' /\ BanksInv' /\ StartUpInv'
  BY DEF LoadShuffled, FillInv, BanksInv, StartUpInv
<1> QED BY <1>3, <1>4

\* No pass is live after a load: N has changed, there is no row, or the engine
\* was idle.
LEMMA ReloadKeeps ==
  ASSUME ShuffledInv, NewRow \/ SeedWrite
  PROVE  ShuffledInv'
<1>1. PICK trigger \in BOOLEAN :
        ObserverEdge(FALSE, trigger, oneshot, N, valid, ts_pi) \/ ResetObserver
  BY DEF NewRow, SeedWrite
<1>2. ObserverTypeOK' /\ (visit_q' => running') BY <1>1, EngineKeepsTypes
<1>3. /\ LoadShuffled /\ whole' = [b \in 0 .. 1 |-> <<>>] /\ n_q' = N /\ Sideband
  BY DEF NewRow, SeedWrite, Reload
<1>4. N' \in Ns /\ n_q' \in Ns /\ valid' \in BOOLEAN /\ (N' # n_q' => ~valid')
  BY <1>3, SidebandKeeps DEF ShuffledInv, ShuffledTypeOK
<1>5. ~(running' /\ valid')
  <2>1. ~(running /\ valid)
    BY DEF NewRow, SeedWrite, no_source, n_changed, ShuffledInv, PlayInv
  <2> QED BY <1>1, <2>1 DEF ObserverEdge, ResetObserver, AbortPass, StartPass,
             NoPass, EndPass, Advance, HoldPass
<1>6. ShuffledTypeOK' /\ FillInv' /\ BanksInv' /\ StartUpInv'
  BY <1>2, <1>3, <1>4, LoadKeeps
<1>7. PlayInv' BY <1>2, <1>4, <1>5 DEF PlayInv
<1> QED BY <1>6, <1>7 DEF ShuffledInv

(* Every step keeps ShuffledInv.                                           *)
LEMMA StepKeeps == ShuffledInv /\ [Next]_vars => ShuffledInv'
<1> SUFFICES ASSUME ShuffledInv, [Next]_vars PROVE ShuffledInv' OBVIOUS
<1>1. CASE StartClock BY <1>1, RunKeeps DEF StartClock
<1>2. CASE TriggerClock BY <1>2, RunKeeps DEF TriggerClock
<1>3. CASE QuietClock BY <1>3, RunKeeps DEF QuietClock
<1>4. CASE StopClock
  <2>1. PICK draw \in Draws : ShuffledEdge(N, ts_t(N), draw) /\ Record(draw)
    BY <1>4 DEF StopClock
  <2>2. /\ ~no_source /\ ~n_changed /\ ResetObserver /\ n_q' = N /\ Sideband
    BY <1>4 DEF StopClock
  <2>3. /\ ShuffledTypeOK' /\ FillInv' /\ BanksInv' /\ StartUpInv'
        /\ N' # n_q' => ~valid'
    BY <2>1, <2>2, ClockKeeps
  <2>4. PlayInv' BY <2>2, <2>3 DEF PlayInv, ResetObserver
  <2> QED BY <2>3, <2>4 DEF ShuffledInv
<1>5. CASE NewRow \/ SeedWrite BY <1>5, ReloadKeeps
<1>6. CASE ResetPass
  <2>1. /\ LoadShuffled /\ whole' = [b \in 0 .. 1 |-> <<>>] /\ ResetObserver
        /\ N' = 0 /\ n_q' = 0 /\ valid' = FALSE
    BY <1>6 DEF ResetPass
  <2>2. ObserverTypeOK' BY <2>1, EngineKeepsTypes
  <2>3. ShuffledTypeOK' /\ FillInv' /\ BanksInv' /\ StartUpInv'
    BY <2>1, <2>2, LoadKeeps, NsAssumption
  <2>4. PlayInv' BY <2>1 DEF PlayInv, ResetObserver
  <2> QED BY <2>3, <2>4 DEF ShuffledInv
<1>7. CASE UNCHANGED vars
  <2>1. UNCHANGED <<observerVars, shuffledVars, historyVars, N, valid, n_q>>
    BY <1>7 DEF vars
  <2> QED BY <2>1 DEF observerVars, shuffledVars, fillVars, historyVars,
             ShuffledInv, ShuffledTypeOK, ObserverTypeOK, FillInv, BanksInv,
             StartUpInv, PlayInv, RowOf, Fits, Entry
<1> QED BY <1>1, <1>2, <1>3, <1>4, <1>5, <1>6, <1>7 DEF Next

\* The inductive invariant, whatever is drawn, triggered, reprogrammed or reset.
THEOREM SourceInvariance == Spec => []ShuffledInv
<1> QED BY InitHolds, StepKeeps, PTL DEF Spec

\* Section 5.5: a fill never works on the bank that is read.
THEOREM BanksAreIsolated == Spec => []BankIsolation
<1> QED BY SourceInvariance, InvIsolates, PTL

\* What the source promises at its seam: a bank that may be played is a whole
\* permutation of the row, and a ready source has one that fits.
THEOREM SourceKeepsItsContract == Spec => []SourceContract
<1> QED BY SourceInvariance, InvKeepsContract, PTL

\* O1: a pass presents the bank it began with, step by step, while the other
\* bank is filled and the two change places.
THEOREM PassesPlayOneBank == Spec => []PassPlaysOneBank
<1> QED BY SourceInvariance, InvPlaysOneBank, PTL

-----------------------------------------------------------------------------
\* What the source reports about its repeats.

(* In a clock of a constant row, a pass that begins over a bank already    *)
(* played has underrun_q set, and no other has.                            *)
LEMMA ReportClock ==
  ASSUME ShuffledInv, ReportInv, N = n_q, n_q' = n_q, N # 0,
         NEW start, start => ready_q, NEW trigger, NEW draw \in Draws,
         ObserverEdge(start, trigger, oneshot, N, valid, ts_pi)
         \/ ResetObserver,
         ShuffledEdge(N, ts_t(N), draw), Record(draw)
  PROVE  /\ ReportInv'
         /\ pass_begins /\ N > 1 =>
              (read_bank(ts_t(N)) \in played <=> underrun_q')
<1> DEFINE t == ts_t(N)
           switch == at_boundary(t) /\ do_switch
<1>1. /\ N \in Val /\ t_q \in Val /\ playing_q \in 0 .. 1 /\ 0 < N
      /\ running /\ valid => t_q < N
  BY NsAssumption DEF ShuffledInv, ShuffledTypeOK, ObserverTypeOK, PlayInv, Val
<1>2. last_now(N) <=> t_q = N - 1
  <2>1. 0 \in Val BY ValRangeAssumption DEF Val
  <2> QED BY <1>1, <2>1, NoWrap DEF last_now, last
<1>3. t # 0 => running /\ t_q # N - 1 BY <1>2 DEF ts_t, t_next
<1>4. pass_begins => t = 0 /\ ready_q
  BY DEF pass_begins, ObserverEdge, ResetObserver, AbortPass, StartPass, NoPass,
     EndPass, Advance, HoldPass, ts_t, ReportInv
<1>5. running' => ready_q
  BY DEF ObserverEdge, ResetObserver, AbortPass, StartPass, NoPass, EndPass,
     Advance, HoldPass, ReportInv
<1>6. ready_q => ready_q' BY SourceStep
<1>7. played' = (played \ (IF fill_completes(draw) THEN {fill_bank_q} ELSE {}))
                \cup (IF pass_begins THEN {playing_q'} ELSE {})
  BY ExchangeStep DEF Record
<1>8. ready_q => ~(fill_completes(draw) /\ fill_bank_q = playing_q)
  BY DEF ShuffledInv, StartUpInv, FillInv, fill_completes
<1>9. /\ ts_t_q' = t
      /\ underrun_q' = IF at_boundary(t) THEN ~do_switch ELSE underrun_q
      /\ playing_q' = IF switch THEN 1 - playing_q ELSE playing_q
  BY DEF ShuffledEdge, Boundary
<1>10. played # {} => ready_q BY DEF ReportInv
<1>11. do_switch => 1 - playing_q \notin played BY DEF ReportInv
<1>12. (running /\ t_q # N - 1) \/ ts_t_q # 0 => playing_q \in played
  BY DEF ReportInv
<1>13. at_boundary(t) => t = 0 /\ playing_q \in played BY <1>12 DEF at_boundary
<1>14. t = 0 /\ ~at_boundary(t) /\ N > 1 => (playing_q \in played <=> underrun_q)
  BY DEF at_boundary, ReportInv
<1> HIDE DEF t, switch
<1>15. t = 0 /\ N > 1 => (playing_q' \in played <=> underrun_q')
  BY <1>9, <1>11, <1>13, <1>14 DEF switch
<1>16. running' \/ played' # {} => ready_q' BY <1>4, <1>5, <1>6, <1>7, <1>10
<1>17. do_switch' => 1 - playing_q' \notin played'
  <2>1. SUFFICES ASSUME st'[1 - playing_q'] = "COMPLETE"
                 PROVE  1 - playing_q' \notin played'
    BY DEF do_switch, st_other
  <2>2. ~switch
    <3>1. switch => playing_q' = 1 - playing_q /\ st'[playing_q] = "EMPTY"
      BY ExchangeStep DEF switch, t
    <3>2. playing_q = 1 - (1 - playing_q) BY <1>1
    <3> QED BY <2>1, <3>1, <3>2
  <2>3. playing_q' = playing_q BY <1>9, <2>2
  <2>4. \/ st[1 - playing_q] = "COMPLETE"
        \/ fill_completes(draw) /\ 1 - playing_q = fill_bank_q
    <3>1. 1 - playing_q \in 0 .. 1 BY <1>1
    <3>2. ~(at_boundary(ts_t(N)) /\ do_switch) BY <2>2 DEF switch, t
    <3> QED BY <2>1, <2>3, <3>1, <3>2, ExchangeStep
  <2>5. 1 - playing_q # playing_q BY <1>1
  <2> QED BY <1>7, <1>11, <2>3, <2>4, <2>5 DEF do_switch, st_other
<1>18. t # 0 => playing_q' \in played'
  <2>1. SUFFICES ASSUME t # 0 PROVE playing_q' \in played' OBVIOUS
  <2>2. playing_q' = playing_q BY <1>9, <1>13, <2>1 DEF switch
  <2>3. playing_q \in played BY <1>3, <1>12, <2>1
  <2> QED BY <1>7, <1>8, <1>10, <2>2, <2>3
<1>19. (running' /\ t_q' # N - 1) \/ ts_t_q' # 0 => playing_q' \in played'
  <2>1. CASE ts_t_q' # 0 BY <1>9, <1>18, <2>1
  <2>2. ASSUME running', t_q' # N - 1, ~pass_begins PROVE t # 0
    <3>1. \/ running /\ Advance(trigger, oneshot, N, valid, ts_pi)
          \/ running /\ HoldPass(trigger, oneshot, N, valid)
      BY <2>2 DEF pass_begins, ObserverEdge, ResetObserver, AbortPass, StartPass,
         NoPass, EndPass, Advance, HoldPass
    <3>2. CASE running /\ Advance(trigger, oneshot, N, valid, ts_pi)
      BY <2>2, <3>2 DEF Advance, pass_begins, ts_t, t
    <3>3. CASE running /\ HoldPass(trigger, oneshot, N, valid)
      <4>1. t_q' = t_q /\ t_q < N BY <1>1, <3>3 DEF HoldPass
      <4>2. t = t_q + 1 BY <1>1, <2>2, <3>3, <4>1, NextSteps DEF t, ts_t, Val
      <4> QED BY <1>1, <4>2 DEF Val
    <3> QED BY <3>1, <3>2, <3>3
  <2> QED BY <1>7, <1>18, <2>1, <2>2
<1>20. ts_t_q' = 0 /\ ts_t(n_q)' = 0 /\ N > 1 =>
         (playing_q' \in played' <=> underrun_q')
  <2>1. SUFFICES ASSUME t = 0, ts_t(n_q)' = 0, N > 1
                 PROVE  playing_q' \in played' <=> underrun_q'
    BY <1>9
  <2>2. ~pass_begins
    <3>1. SUFFICES ASSUME running', t_q' = 0 PROVE FALSE BY DEF pass_begins
    <3>2. n_q' = N OBVIOUS
    <3>3. (N - 1) % ValRange = N - 1 /\ (0 + 1) % ValRange = 1
      BY <1>1, ValRangeAssumption DEF Val
    <3>4. ts_t(n_q)' = 1
      BY <1>1, <2>1, <3>1, <3>2, <3>3 DEF ts_t, t_next, last_now, last, Val
    <3> QED BY <2>1, <3>4
  <2>3. playing_q' \in played <=> underrun_q' BY <1>15, <2>1
  <2>4. playing_q' \in played => ~(fill_completes(draw) /\ fill_bank_q = playing_q')
    <3>1. CASE switch BY <1>9, <1>11, <3>1 DEF switch
    <3>2. CASE ~switch BY <1>8, <1>9, <1>10, <3>2
    <3> QED BY <3>1, <3>2
  <2> QED BY <1>7, <2>2, <2>3, <2>4
<1>21. ReportInv' BY <1>16, <1>17, <1>19, <1>20 DEF ReportInv
<1>22. read_bank(t) = playing_q' BY <1>9 DEF read_bank, switch
<1> QED BY <1>4, <1>15, <1>21, <1>22 DEF t

\* A load leaves nothing to report, and no pass.
LEMMA ReportLoad ==
  ASSUME LoadShuffled, ~running', played' = {}
  PROVE  ReportInv' /\ ~pass_begins
BY DEF LoadShuffled, ReportInv, do_switch, st_other, pass_begins

(* In every step a pass begins over a played bank exactly if underrun_q    *)
(* says so.                                                                *)
LEMMA ReportStep ==
  ShuffledInv /\ ReportInv /\ [Next]_vars =>
    /\ ReportInv'
    /\ [pass_begins /\ N > 1 =>
          (read_bank(ts_t(N)) \in played <=> underrun_q')]_vars
<1> SUFFICES ASSUME ShuffledInv, ReportInv, [Next]_vars
             PROVE  /\ ReportInv'
                    /\ \/ UNCHANGED vars
                       \/ pass_begins /\ N > 1 =>
                            (read_bank(ts_t(N)) \in played <=> underrun_q')
  OBVIOUS
<1>1. ASSUME NEW start, NEW trigger, NEW draw \in Draws,
             Run(start, trigger, draw)
      PROVE  /\ ReportInv'
             /\ pass_begins /\ N > 1 =>
                  (read_bank(ts_t(N)) \in played <=> underrun_q')
  <2>1. N = n_q /\ n_q' = n_q /\ N # 0 /\ (start => ready_q)
    BY <1>1 DEF Run, no_source, n_changed, start_ready
  <2>2. /\ ObserverEdge(start, trigger, oneshot, N, valid, ts_pi)
        /\ ShuffledEdge(N, ts_t(N), draw) /\ Record(draw)
    BY <1>1 DEF Run
  <2> QED BY <2>1, <2>2, ReportClock
<1>2. CASE StartClock \/ TriggerClock \/ QuietClock
  BY <1>1, <1>2 DEF StartClock, TriggerClock, QuietClock
<1>3. CASE StopClock
  <2>1. PICK draw \in Draws : ShuffledEdge(N, ts_t(N), draw) /\ Record(draw)
    BY <1>3 DEF StopClock
  <2>2. N = n_q /\ n_q' = n_q /\ N # 0 /\ ResetObserver
    BY <1>3 DEF StopClock, no_source, n_changed
  <2> QED BY <2>1, <2>2, ReportClock
<1>4. CASE NewRow \/ SeedWrite
  <2>1. LoadShuffled /\ played' = {} BY <1>4 DEF NewRow, SeedWrite, Reload
  <2>2. ~(running /\ valid)
    BY <1>4 DEF NewRow, SeedWrite, no_source, n_changed, ShuffledInv, PlayInv
  <2>3. \/ ResetObserver
        \/ \E trigger \in BOOLEAN :
             ObserverEdge(FALSE, trigger, oneshot, N, valid, ts_pi)
    BY <1>4 DEF NewRow, SeedWrite
  <2>4. ~running'
    BY <2>2, <2>3 DEF ResetObserver, ObserverEdge, AbortPass, StartPass, NoPass,
       EndPass, Advance, HoldPass
  <2> QED BY <2>1, <2>4, ReportLoad
<1>5. CASE ResetPass
  <2>1. LoadShuffled /\ ~running' /\ played' = {}
    BY <1>5 DEF ResetPass, ResetObserver
  <2> QED BY <2>1, ReportLoad
<1>6. CASE UNCHANGED vars
  BY <1>6 DEF vars, observerVars, shuffledVars, fillVars, historyVars, ReportInv,
     do_switch, st_other, ts_t, t_next, last_now, last
<1> QED BY <1>2, <1>3, <1>4, <1>5, <1>6 DEF Next

\* A pass repeats an order that was played before exactly when the source says
\* so, however long the pass waited after its boundary.
THEOREM RepeatsAreReported == Spec => RepeatIsReported
<1>1. Init => ReportInv
  BY DEF Init, ObserverInit, ShuffledInit, ReportInv, do_switch, st_other
<1> QED BY <1>1, SourceInvariance, ReportStep, PTL DEF Spec, RepeatIsReported
=============================================================================
