----------------------------- MODULE BcmcClient -----------------------------
(***************************************************************************)
(* The clients of validation/bcmc_periph.py: program, read_offsets,        *)
(* read_column and read_matrix, as the lists of accesses they make.  One   *)
(* client works through job after job on a peripheral that keeps whatever  *)
(* the jobs before, and between them any other user's accesses, have left. *)
(***************************************************************************)
EXTENDS BcmcAccesses, Sequences, SequencesExt

CONSTANT Jobs                    \* bound: the pairs <<N, weights>> programmed

\* A context that the theorem admits: START over any other is an error.
ASSUME ClientAssumption ==
  /\ MAX_C < IdxRange
  /\ \A j \in Jobs : j = <<j[1], j[2]>> /\ j[1] \in Val \ {0} /\ j[2] \in Seq(0 .. j[1])

VARIABLES
  job,            \* the job in hand: its row, its weights, and the way it reads
  plan,           \* the accesses still to be made
  got,            \* what the reads of the matrix have returned
  polled          \* history: the polls of this job so far

clientVars == <<job, plan, got, polled>>
sessionVars == <<deviceVars, clientVars>>

R(addr) == [op |-> "read", addr |-> addr, data |-> 0]
W(addr, data) == [op |-> "write", addr |-> addr, data |-> data]
Poll == [op |-> "poll", addr |-> At("STATUS"), data |-> 0]

Joined(n, f(_)) == FlattenSeq(Each(n, f))

\* Mutant of program: it waits for nothing.
program_unpolled(weights, N) ==
  LET weight(i) == W(Lane("WEIGHT", i), weights[i + 1])
  IN  <<R(At("CONST")), R(At("CONST")), W(At("N"), N),
        W(At("C"), Len(weights))>>
      \o Each(Len(weights), weight)
      \o <<W(At("CTRL"), Command(TRUE, FALSE))>>

\* ID and CAPS, the context, START, and the poll for VALID.
program(weights, N) ==
  LET weight(i) == W(Lane("WEIGHT", i), weights[i + 1])
  IN  <<R(At("CONST")), R(At("CONST")), W(At("N"), N),
        W(At("C"), Len(weights))>>
      \o Each(Len(weights), weight)
      \o <<W(At("CTRL"), Command(TRUE, FALSE)), Poll>>

read_offsets(C) ==
  LET offset(i) == R(Lane("OFFSET", i)) IN Each(C, offset)

words_of(C) == (C + WordLanes - 1) \div WordLanes

read_column(j, C) ==
  LET word(k) == R(Lane("COLUMN", k))
  IN  <<W(At("CELL_COL"), j)>> \o Each(words_of(C), word)

read_matrix(N, C, by_cell) ==
  LET column(j) == read_column(j, C)
      cells(i) ==
        LET cell(j) == <<W(At("CELL_COL"), j), R(At("CELL"))>>
        IN  <<W(At("CELL_ROW"), i)>> \o Joined(N, cell)
  IN  IF by_cell THEN Joined(C, cells) ELSE Joined(N, column)

\* Every offset, or the matrix cell by cell, or column by column.
reading(j) ==
  LET C == Len(j.weights)
  IN  CASE j.how = "offsets" -> read_offsets(C)
        [] j.how = "cells" -> read_matrix(j.N, C, TRUE)
        [] j.how = "columns" -> read_matrix(j.N, C, FALSE)

accesses(j) == program(j.weights, j.N) \o reading(j)

Hows == {"offsets", "cells", "columns"}
AllJobs == {[N |-> j[1], weights |-> j[2], how |-> h] : j \in Jobs, h \in Hows}
Idle == [N |-> 0, weights |-> <<>>, how |-> "offsets"]

ClientInit ==
  /\ DeviceInit
  /\ job = Idle /\ plan = <<>> /\ got = <<>> /\ polled = 0

\* program() raises before its first write when C exceeds MAX_C.  A transform
\* that somebody else has started is waited for.
Begin ==
  /\ plan = <<>> /\ ~dev.busy
  /\ \E j \in AllJobs : Len(j.weights) <= MAX_C /\ job' = j /\ plan' = accesses(j)
  /\ got' = <<>> /\ polled' = 0
  /\ resp' = NoAccess /\ UNCHANGED <<dev, seen>>

\* One access.  A poll is repeated until it reads VALID; a refusal is an
\* exception and ends the job.
Step ==
  /\ plan # <<>>
  /\ LET a == Head(plan)
     IN  /\ IF a.op = "write" THEN Write(a.addr, a.data, TRUE)
                              ELSE Read(a.addr, TRUE)
         /\ plan' = IF resp'.kind # "ack" THEN <<>>
                    ELSE IF a.op = "poll" /\ ~resp'.data.valid THEN plan
                    ELSE Tail(plan)
         /\ got' = IF a.op = "read" /\ resp'.kind = "ack" /\ a.addr.reg \in Matrix
                   THEN Append(got, resp'.data) ELSE got
         /\ polled' = polled + (IF a.op = "poll" THEN 1 ELSE 0)
  /\ Observe
  /\ UNCHANGED job

\* Between two jobs anybody may use the peripheral.
Others ==
  /\ plan = <<>> /\ AnyAccess
  /\ job' = Idle /\ got' = <<>> /\ polled' = 0 /\ UNCHANGED plan

ClientNext == Begin \/ Step \/ Others

ClientSpec == ClientInit /\ [][ClientNext]_sessionVars

-----------------------------------------------------------------------------
\* The definition of the matrix, in the order in which a job reads it.
RowWeights(j) == [k \in 0 .. Len(j.weights) - 1 |-> j.weights[k + 1]]
Bit(j, row, col) == RefBit(row, col, j.N, Len(j.weights), RowWeights(j))

Expected(j) ==
  LET C == Len(j.weights)
      offset(i) == RefOffset(i, j.N, C, RowWeights(j))
      cells(i) == LET cell(col) == Bit(j, i, col) IN Each(j.N, cell)
      words(col) ==
        LET word(k) == {i \in 0 .. C - 1 : i \div WordLanes = k /\ Bit(j, i, col)}
        IN  Each(words_of(C), word)
  IN  CASE j.how = "offsets" -> Each(C, offset)
        [] j.how = "cells" -> Joined(C, cells)
        [] j.how = "columns" -> Joined(j.N, words)

\* The client's whole protocol is legal: no access of any job is refused or
\* raises, whatever was left in the peripheral.
NeverRefused == job # Idle => resp.kind = "ack"

\* What a client puts together is the matrix of its own job, in every way of
\* reading it, and not a bit of what was there before.
ClientReadsItsMatrix == job # Idle /\ plan = <<>> => got = Expected(job)

\* The poll for VALID ends, and not a poll later than the transform: one for
\* each access the transform takes, and the one that finds it done.
PollsAreBounded == polled <= dev.latency + 1

\* A job is never refused, does not poll for ever, and reads its own matrix.
ClientSucceeds ==
  /\ NeverRefused
  /\ PollsAreBounded
  /\ ClientReadsItsMatrix

-----------------------------------------------------------------------------
(* The strengthening that is inductive.                                    *)

\* The peripheral's own part, whoever uses it.
AccessInv ==
  DeviceInv(dev) /\ seen \in Nat /\ LatencyIsAccesses /\ AnswersAreTheMatrix

\* How many of the job's accesses have been made.
progress == Len(accesses(job)) - Len(plan)

\* The context is programmed, one access after another, in a peripheral where
\* nothing runs; then a transform runs, and every poll sees an access go by.
ProgramInv ==
  LET C == Len(job.weights)
  IN  /\ progress >= 3 => dev.n = job.N
      /\ progress >= 4 => dev.c = C
      /\ \A i \in 0 .. C - 1 : progress >= 5 + i => dev.weights[i] = job.weights[i + 1]
      /\ progress < C + 5 => ~dev.busy /\ polled = 0
      /\ progress = C + 5 => dev.busy /\ ~dev.valid /\ polled + dev.remaining = dev.latency
      /\ progress >= C + 6 => dev.valid
      /\ progress < C + 6 => got = <<>>

\* Where the reading stands after so many accesses and answers: in the offsets,
\* in a column with its query set, or in a row with its queries set.
Standing(j, place, answers, row, col) ==
  LET C == Len(j.weights)
      n == words_of(C)
  IN  /\ j.how = "offsets" => answers = place
      /\ j.how = "columns" =>
           \/ \E x \in 0 .. j.N : place = x * (1 + n) /\ answers = x * n
           \/ \E x \in 0 .. j.N - 1, k \in 0 .. n - 1 :
                place = x * (1 + n) + (k + 1) /\ answers = x * n + k /\ col = x
      /\ j.how = "cells" =>
           \/ \E i \in 0 .. C : place = i * (1 + j.N * 2) /\ answers = i * j.N
           \/ \E i \in 0 .. C - 1, x \in 0 .. j.N - 1 :
                /\ answers = i * j.N + x /\ row = i
                /\ \/ place = i * (1 + j.N * 2) + (2 * x + 1)
                   \/ place = i * (1 + j.N * 2) + (2 * x + 2) /\ col = x

ReadingInv ==
  LET programmed == Len(job.weights) + 6
  IN  progress >= programmed =>
        Standing(job, progress - programmed, Len(got), dev.cell_row, dev.cell_col)

\* A job in hand: what is left of it, and that every answer so far is right.
JobInv ==
  job # Idle =>
    /\ job \in AllJobs /\ Len(job.weights) <= MAX_C /\ resp.kind = "ack"
    /\ progress \in Nat
    /\ \A k \in 1 .. Len(plan) : plan[k] = accesses(job)[progress + k]
    /\ ProgramInv /\ ReadingInv
    /\ got \in Seq({Expected(job)[x] : x \in DOMAIN Expected(job)})
    /\ \A x \in 1 .. Len(got) : got[x] = Expected(job)[x]

SessionInv ==
  /\ AccessInv
  /\ polled \in 0 .. dev.latency + 1
  /\ job = Idle => plan = <<>>
  /\ JobInv
=============================================================================
