------------------------- MODULE SparseEngineProofs -------------------------
(***************************************************************************)
(* The windows of the sparse runtime hold the first and the last tokens of *)
(* the running request, what is selected avoids them and fits the buffers, *)
(* and what is attended is the request's own, for every size of the        *)
(* windows, of the blocks and of the chunks, for every prompt, and however *)
(* decoding and speculative passes alternate.                              *)
(*                                                                         *)
(* WindowsRight says what the buffers hold only in terms of validLen, and  *)
(* the rows that are stored are numbered by the scheduler's counters, so   *)
(* the inductive invariant first relates the counters (LengthsAgree), and  *)
(* for that the queues: a prompt that waits has nothing in the runtime.    *)
(* Stored adds what the history holds: how many blocks, and which rows.    *)
(***************************************************************************)
EXTENDS SparseEngine, TLAPS, SequenceTheorems, FiniteSetTheorems

TypeRight ==
  /\ waiting \in Seq(Requests)
  /\ running = <<>> \/ \E r \in Requests : running = <<r>>
  /\ prompt \in [Requests -> Nat] /\ cached \in [Requests -> Nat]
  /\ tokens \in [Requests -> Nat]
  /\ scheduled \in Nat /\ validLen \in Nat /\ prefillLen \in Nat
  /\ DOMAIN sink = 0 .. Sink - 1
  /\ pc \in {"idle", "run"}

\* A prompt that waits has nothing cached; nothing arrives within a step or
\* between a verification pass and its settlement.
QueuesRight ==
  /\ running # <<>> => prompt[Running] > 0
  /\ \A i \in 1 .. Len(waiting) : prompt[waiting[i]] > 0 /\ cached[waiting[i]] = 0
  /\ pc = "run" => running # <<>> /\ waiting = <<>> /\ pending = NoRows
  /\ pending # NoRows => running # <<>> /\ waiting = <<>> /\ ~Prefilling(Running)

\* The last token of a request is not cached once its prompt is.
CountsRight ==
  \A r \in Requests :
    /\ prompt[r] = 0 => cached[r] = 0 /\ tokens[r] = 0
    /\ prompt[r] > 0 => tokens[r] = IF Prefilling(r) THEN prompt[r] ELSE cached[r] + 1

\* What a step that prefills is about to store.
ScheduledRight ==
  pc = "run" /\ Prefilling(Running) =>
    scheduled = NextChunk(Running) /\ prefillLen = cached[Running]

\* Between the chunks of a prompt.
PrefillLenRight ==
  running # <<>> /\ Prefilling(Running) /\ cached[Running] > 0 =>
    prefillLen = cached[Running]

\* The rows that a verification pass left are those after the cached tokens.
PendingRight ==
  pending # NoRows =>
    \E n \in Nat : n > 0 /\ pending = Rows(Running, tokens[Running] - 1, n)

\* After the first chunk, the sink holds what of it fits.
SinkRight ==
  running # <<>> /\ cached[Running] > 0 =>
    \A n \in 0 .. Smaller(Sink, FirstChunk(Running)) - 1 : sink[n] = <<Running, n>>

\* w ends with the token before position len of request r.
Suffix(w, r, len) ==
  \A n \in 0 .. Smaller(Recent, len) - 1 : w[n] = <<r, (len - Smaller(Recent, len)) + n>>

RecentRight ==
  /\ running # <<>>
  /\ pc = "run" \/ cached[Running] > 0
  /\ validLen <= prompt[Running] \/ prompt[Running] >= Recent
  => Suffix(recent, Running, validLen)

Counters == TypeRight /\ QueuesRight /\ CountsRight /\ LengthsAgree
Contents == ScheduledRight /\ PrefillLenRight /\ PendingRight /\ SinkRight /\ RecentRight
IInv == Counters /\ Contents

-----------------------------------------------------------------------------
(* Rows of the recent window *)

LEMMA SizesNat ==
  /\ Recent \in Nat /\ Recent > 0 /\ Sink \in Nat /\ Sink > 0 /\ Chunk \in Nat
BY M12Assumption, SparseAssumption

\* Storing the next t tokens of a prompt keeps the window its suffix, also while
\* it is not yet full and when t is less than its size.
LEMMA StoredSuffix ==
  ASSUME NEW r, NEW t \in Nat, validLen \in Nat, Suffix(recent, r, validLen)
  PROVE  Suffix(RecentAfterStore(Rows(r, validLen, t), t), r, validLen + t)
<1> DEFINE k == Rows(r, validLen, t)
           kept == Smaller(Recent, validLen + t)
           carry == kept - t
           old == Smaller(Recent, validLen)
<1>1. kept \in Nat /\ old \in Nat /\ kept <= Recent /\ old <= validLen
      /\ kept <= old + t /\ kept <= validLen + t
  BY SizesNat DEF Smaller
<1>2. ASSUME NEW i \in 0 .. t - 1
      PROVE  k[i] = <<r, validLen + i>>
  BY DEF Rows
<1> HIDE DEF k, old
<1>3. ASSUME NEW n \in 0 .. kept - 1
      PROVE  RecentAfterStore(k, t)[n] = <<r, ((validLen + t) - kept) + n>>
  <2>1. n \in 0 .. Recent - 1
    BY <1>1, SizesNat
  <2>2. CASE t >= kept
    <3>1. RecentAfterStore(k, t)[n] = k[t - kept + n]
      BY <1>1, <2>1, <2>2 DEF RecentAfterStore
    <3>2. t - kept + n \in 0 .. t - 1 /\ validLen + (t - kept + n) = ((validLen + t) - kept) + n
      BY <1>1, <2>2
    <3> QED
      BY <1>2, <3>1, <3>2
  <2>3. CASE t < kept /\ n < carry
    <3>1. RecentAfterStore(k, t)[n] = recent[old - carry + n]
      BY <1>1, <2>1, <2>3 DEF RecentAfterStore, old
    <3>2. /\ old - carry + n \in 0 .. old - 1
          /\ (validLen - old) + (old - carry + n) = ((validLen + t) - kept) + n
      BY <1>1, <2>3
    <3>3. recent[old - carry + n] = <<r, (validLen - old) + (old - carry + n)>>
      BY <3>2 DEF Suffix, old
    <3> QED
      BY <3>1, <3>2, <3>3
  <2>4. CASE t < kept /\ n >= carry
    <3>1. RecentAfterStore(k, t)[n] = k[n - carry]
      BY <1>1, <2>1, <2>4 DEF RecentAfterStore
    <3>2. n - carry \in 0 .. t - 1 /\ validLen + (n - carry) = ((validLen + t) - kept) + n
      BY <1>1, <2>4
    <3> QED
      BY <1>2, <3>1, <3>2
  <2> QED
    BY <1>1, <2>1, <2>2, <2>3, <2>4
<1> QED
  BY <1>3 DEF Suffix, k

\* Committing n verified tokens keeps a full window the suffix.
LEMMA CommittedSuffix ==
  ASSUME NEW r, NEW m \in Nat, NEW n \in Nat, n > 0, n <= m,
         validLen \in Nat, validLen >= Recent,
         pending = Rows(r, validLen, m), Suffix(recent, r, validLen)
  PROVE  Suffix(RecentAfterCommit(n), r, validLen + n)
<1> USE SizesNat
<1>1. Smaller(Recent, validLen) = Recent /\ Smaller(Recent, validLen + n) = Recent
  BY DEF Smaller
<1> SUFFICES ASSUME NEW i \in 0 .. Recent - 1
             PROVE  RecentAfterCommit(n)[i] = <<r, ((validLen + n) - Recent) + i>>
  BY <1>1 DEF Suffix
<1>2. CASE n >= Recent
  <2>1. RecentAfterCommit(n)[i] = pending[n - Recent + i]
    BY <1>2 DEF RecentAfterCommit
  <2>2. n - Recent + i \in 0 .. m - 1
    BY <1>2
  <2> QED
    BY <2>1, <2>2 DEF Rows
<1>3. CASE n < Recent /\ i < Recent - n
  <2>1. RecentAfterCommit(n)[i] = recent[Recent - (Recent - n) + i]
    BY <1>1, <1>3 DEF RecentAfterCommit
  <2>2. recent[n + i] = <<r, (validLen - Recent) + (n + i)>>
    BY <1>1, <1>3 DEF Suffix
  <2> QED
    BY <2>1, <2>2
<1>4. CASE n < Recent /\ i >= Recent - n
  <2>1. RecentAfterCommit(n)[i] = pending[i - (Recent - n)]
    BY <1>1, <1>4 DEF RecentAfterCommit
  <2>2. i - (Recent - n) \in 0 .. m - 1
    BY <1>4
  <2> QED
    BY <2>1, <2>2 DEF Rows
<1> QED
  BY <1>2, <1>3, <1>4

-----------------------------------------------------------------------------
(* The inductive invariant *)

LEMMA InitInv == SparseInit => IInv
<1> SUFFICES ASSUME SparseInit PROVE IInv
  OBVIOUS
<1> USE SizesNat DEF SparseInit, RuntimeInit
<1>1. TypeRight
  BY DEF TypeRight
<1>2. QueuesRight
  BY DEF QueuesRight
<1>3. CountsRight
  BY DEF CountsRight
<1> QED
  BY <1>1, <1>2, <1>3 DEF IInv, Counters, Contents, LengthsAgree, ScheduledRight,
     PrefillLenRight, PendingRight, SinkRight, RecentRight

\* The sequence that runs, if one does.
LEMMA RunningType ==
  ASSUME TypeRight, running # <<>>
  PROVE  /\ Running \in Requests /\ running = <<Running>>
         /\ prompt[Running] \in Nat /\ cached[Running] \in Nat
         /\ tokens[Running] \in Nat
BY DEF TypeRight, Running

\* Steps that change nothing the invariant speaks of.
LEMMA StutterStep ==
  ASSUME IInv, UNCHANGED <<queueVars, windows, pending, pc>>
  PROVE  IInv'
BY DEF IInv, Counters, Contents, TypeRight, QueuesRight, CountsRight, LengthsAgree,
   ScheduledRight, PrefillLenRight, PendingRight, SinkRight, RecentRight, Suffix,
   queueVars, windows, Running, Prefilling, NextChunk, FirstChunk, Rows

\* A request that is added was unknown, and no other one changes.
LEMMA AddRequestStep ==
  ASSUME IInv, NEW r \in Requests, NEW length \in PromptLens, AddRequest(r, length)
  PROVE  IInv'
<1> USE DEF IInv, Counters, Contents, AddRequest, runtimeVars, windows
<1>1. length \in Nat /\ length > 0
  BY SparseAssumption
<1>2. TypeRight'
  BY <1>1 DEF TypeRight
<1>3. running # <<>> => Running \in Requests /\ Running # r
  BY RunningType DEF QueuesRight
<1>4. \A s \in Requests \ {r} : prompt'[s] = prompt[s] /\ tokens'[s] = tokens[s]
  BY DEF TypeRight
<1>5. prompt'[r] = length /\ tokens'[r] = length /\ cached'[r] = 0
  BY DEF TypeRight, CountsRight
<1>6. QueuesRight'
  <2>1. ASSUME NEW i \in 1 .. Len(waiting')
        PROVE  prompt'[waiting'[i]] > 0 /\ cached'[waiting'[i]] = 0
    <3>1. CASE i = Len(waiting) + 1
      BY <1>1, <1>5, <3>1 DEF TypeRight
    <3>2. CASE i \in 1 .. Len(waiting)
      <4>1. waiting'[i] = waiting[i] /\ waiting[i] \in Requests
        BY <3>2 DEF TypeRight
      <4> QED
        BY <1>1, <1>4, <1>5, <3>2, <4>1 DEF QueuesRight
    <3>3. Len(waiting) \in Nat /\ Len(waiting') = Len(waiting) + 1
      <4>1. waiting \in Seq(Requests)
        BY DEF TypeRight
      <4>2. waiting' = Append(waiting, r)
        OBVIOUS
      <4> QED
        BY ONLY <4>1, <4>2
    <3> QED
      BY <3>1, <3>2, <3>3
  <2> QED
    BY <1>3, <1>4, <2>1 DEF QueuesRight, Running
<1>7. CountsRight'
  BY <1>1, <1>4, <1>5 DEF CountsRight, Prefilling
<1>8. running # <<>> =>
        prompt'[Running] = prompt[Running] /\ tokens'[Running] = tokens[Running]
  BY <1>3, <1>4
<1> QED
  BY <1>2, <1>6, <1>7, <1>8 DEF LengthsAgree, ScheduledRight, PrefillLenRight,
     PendingRight, SinkRight, RecentRight, Suffix, Running, Prefilling, FirstChunk

\* A rejected step changes nothing.
LEMMA RejectedStep == ASSUME IInv, StepRejected PROVE IInv'
BY StutterStep DEF StepRejected, runtimeVars, queueVars, windows

\* A step that raises changes no counter.
LEMMA RaisesStep == ASSUME IInv, PrefillRaises PROVE IInv'
BY DEF IInv, Counters, Contents, TypeRight, QueuesRight, CountsRight, LengthsAgree,
   ScheduledRight, PrefillLenRight, PendingRight, SinkRight, RecentRight, Suffix,
   PrefillRaises, runtimeVars, queueVars, windows, Running, Prefilling, FirstChunk

\* A step is set up: the runtime is emptied for a new prompt, and only for one.
LEMMA ScheduleStep ==
  ASSUME IInv, Schedule
  PROVE  IInv'
<1> USE DEF IInv, Counters, Contents
<1> DEFINE r == running'[1]
<1>1. /\ r \in Requests /\ running' = <<r>> /\ waiting' = <<>>
      /\ prompt[r] > 0
      /\ running = <<>> => cached[r] = 0
      /\ running # <<>> => running = <<r>>
  <2>1. waiting \in Seq(Requests)
    BY DEF TypeRight
  <2>2. CASE waiting # <<>>
    <3>1. Len(waiting) = 1 /\ running = <<>>
      <4>1. Len(waiting) \in Nat \ {0}
        BY <2>1, <2>2, EmptySeq
      <4>2. running = <<>>
        BY <2>2, Zenon DEF Schedule, Conflict
      <4>3. ~(Len(waiting) > 1)
        BY <2>2, Zenon DEF Schedule, Conflict
      <4>4. Len(waiting) = 1
        BY ONLY <4>1, <4>3
      <4> QED
        BY <4>2, <4>4, Zenon
    <3>2. running' = Append(<<>>, Head(waiting)) /\ waiting' = Tail(waiting)
      BY <2>2, <3>1, Zenon DEF Schedule
    <3>3. waiting[1] \in Requests /\ running' = <<waiting[1]>>
      BY <2>1, <3>1, <3>2
    <3>4. waiting' \in Seq(Requests) /\ Len(waiting') = 0
      BY ONLY <2>1, <2>2, <3>1, <3>2
    <3>5. waiting' = <<>>
      BY <3>4, EmptySeq
    <3> QED
      BY <3>1, <3>3, <3>5 DEF QueuesRight
  <2>3. CASE waiting = <<>>
    <3>1. Len(running) = 1 /\ running' = running /\ waiting' = <<>>
      BY <2>3 DEF Schedule
    <3>2. running # <<>>
      BY <3>1
    <3> QED
      BY <3>1, <3>2, RunningType DEF QueuesRight, Running
  <2> QED
    BY <2>2, <2>3
<1> HIDE DEF r
<1>2. /\ prompt' = prompt /\ cached' = cached /\ tokens' = tokens /\ pc' = "run"
      /\ scheduled' = IF Prefilling(r) THEN NextChunk(r) ELSE 1
      /\ IF Resets(r) THEN Emptied ELSE UNCHANGED runtimeVars
      /\ pending = NoRows /\ pc = "idle"
  BY DEF Schedule, r
<1>3. /\ prompt[r] \in Nat /\ cached[r] \in Nat /\ tokens[r] \in Nat
      /\ r = Running'
      /\ Resets(r) <=> cached[r] = 0
  BY <1>1 DEF TypeRight, Running, Resets, Prefilling, r
<1>4. scheduled' \in Nat
  BY <1>2, <1>3, SizesNat DEF NextChunk, Prefilling, Smaller
<1>5. QueuesRight' /\ CountsRight'
  <2>1. pending' = NoRows
    BY <1>2, <1>3 DEF Emptied, runtimeVars
  <2>2. Len(waiting') = 0 /\ running' # <<>>
    BY <1>1
  <2> QED
    BY <1>1, <1>2, <1>3, <2>1, <2>2 DEF QueuesRight, CountsRight, Prefilling
<1>6. CASE cached[r] = 0
  <2>1. /\ validLen' = 0 /\ prefillLen' = 0 /\ pending' = NoRows
        /\ recent' = recent /\ sink' = sink
    BY <1>2, <1>3, <1>6 DEF Emptied
  <2>2. TypeRight'
    BY <1>1, <1>2, <1>4, <2>1 DEF TypeRight
  <2>3. LengthsAgree' /\ ScheduledRight' /\ PrefillLenRight' /\ PendingRight' /\ SinkRight'
    BY <1>1, <1>2, <1>3, <1>6, <2>1
    DEF LengthsAgree, ScheduledRight, PrefillLenRight, PendingRight, SinkRight,
        Prefilling, NextChunk
  <2>4. RecentRight'
    BY <2>1, SizesNat DEF RecentRight, Suffix, Smaller
  <2> QED
    BY <1>5, <2>2, <2>3, <2>4
<1>7. CASE cached[r] # 0
  <2>1. /\ validLen' = validLen /\ prefillLen' = prefillLen /\ pending' = NoRows
        /\ recent' = recent /\ sink' = sink
        /\ r = Running /\ running # <<>> /\ cached[r] > 0
    BY <1>1, <1>2, <1>3, <1>7 DEF runtimeVars, windows, Running
  <2>2. TypeRight'
    BY <1>1, <1>2, <1>4, <2>1 DEF TypeRight
  <2>3. LengthsAgree'
    BY <1>2, <1>3, <2>1 DEF LengthsAgree, Prefilling
  <2>4. ScheduledRight' /\ PrefillLenRight' /\ PendingRight'
    BY <1>2, <1>3, <2>1
    DEF ScheduledRight, PrefillLenRight, PendingRight, Prefilling, NextChunk
  <2>5. SinkRight'
    BY <1>2, <1>3, <2>1 DEF SinkRight, FirstChunk
  <2>6. RecentRight'
    BY <1>2, <1>3, <2>1 DEF RecentRight, Suffix
  <2> QED
    BY <1>5, <2>2, <2>3, <2>4, <2>5, <2>6
<1> QED
  BY <1>6, <1>7

\* What a step finds: the counters of the sequence it is about to run.
LEMMA StepFacts ==
  ASSUME IInv, pc = "run"
  PROVE  /\ Running \in Requests /\ running = <<Running>> /\ waiting = <<>>
         /\ prompt[Running] \in Nat /\ prompt[Running] > 0
         /\ cached[Running] \in Nat /\ tokens[Running] \in Nat
         /\ scheduled \in Nat /\ validLen \in Nat /\ pending = NoRows
         /\ Prefilling(Running) =>
              /\ validLen = cached[Running] /\ prefillLen = cached[Running]
              /\ scheduled = NextChunk(Running) /\ tokens[Running] = prompt[Running]
         /\ ~Prefilling(Running) =>
              validLen = cached[Running] /\ tokens[Running] = cached[Running] + 1
<1>1. TypeRight /\ QueuesRight /\ CountsRight /\ LengthsAgree /\ ScheduledRight
  BY DEF IInv, Counters, Contents
<1>2. running # <<>> /\ waiting = <<>> /\ pending = NoRows /\ prompt[Running] > 0
  BY <1>1 DEF QueuesRight
<1>3. Running \in Requests /\ running = <<Running>>
  BY <1>1, <1>2, RunningType
<1>4. /\ prompt[Running] \in Nat /\ cached[Running] \in Nat /\ tokens[Running] \in Nat
      /\ scheduled \in Nat /\ validLen \in Nat
  BY <1>1, <1>3 DEF TypeRight
<1>5. tokens[Running] = IF Prefilling(Running) THEN prompt[Running] ELSE cached[Running] + 1
  BY <1>1, <1>2, <1>3 DEF CountsRight
<1>6. validLen = IF Prefilling(Running) THEN cached[Running] ELSE tokens[Running] - 1
  BY <1>1, <1>2 DEF LengthsAgree
<1> QED
  BY <1>1, <1>2, <1>3, <1>4, <1>5, <1>6 DEF ScheduledRight

\* The counters of r have moved to `c' cached tokens, and r may have ended.
LEMMA CountersMove ==
  ASSUME TypeRight, QueuesRight, CountsRight, NEW r \in Requests, NEW c \in Nat,
         waiting = <<>>, prompt[r] > 0, pending' = NoRows,
         waiting' = waiting, prompt' = prompt, pc' = "idle",
         cached' = [cached EXCEPT ![r] = c],
         tokens' = [tokens EXCEPT ![r] = IF c < prompt[r] THEN prompt[r] ELSE c + 1],
         running' = <<>> \/ running' = <<r>>,
         scheduled' \in Nat, validLen' \in Nat, prefillLen' \in Nat,
         DOMAIN sink' = DOMAIN sink
  PROVE  TypeRight' /\ QueuesRight' /\ CountsRight'
<1>1. /\ cached'[r] = c /\ tokens'[r] = IF c < prompt[r] THEN prompt[r] ELSE c + 1
      /\ \A s \in Requests \ {r} : cached'[s] = cached[s] /\ tokens'[s] = tokens[s]
      /\ prompt[r] \in Nat
  BY DEF TypeRight
<1>2. TypeRight'
  BY <1>1 DEF TypeRight
<1>3. QueuesRight'
  <2>1. running' # <<>> => Running' = r
    BY DEF Running
  <2>2. Len(waiting') = 0
    OBVIOUS
  <2> QED
    BY <2>1, <2>2 DEF QueuesRight
<1>4. CountsRight'
  BY <1>1 DEF CountsRight, Prefilling
<1> QED
  BY <1>2, <1>3, <1>4

\* A chunk is stored: the window stays the suffix of what is stored.
LEMMA PrefillStepInv ==
  ASSUME IInv, PrefillStep
  PROVE  IInv'
<1>0. PICK r \in Requests, c \in Nat : r = Running /\ c = cached[r] + scheduled
  BY StepFacts DEF PrefillStep
<1>1. /\ running = <<r>> /\ waiting = <<>>
      /\ prompt[r] \in Nat /\ prompt[r] > 0 /\ cached[r] \in Nat /\ tokens[r] = prompt[r]
      /\ scheduled \in Nat /\ pending = NoRows /\ cached[r] < prompt[r]
      /\ validLen = cached[r] /\ prefillLen = cached[r] /\ scheduled = NextChunk(r)
      /\ pc = "run"
  BY <1>0, StepFacts DEF PrefillStep, Prefilling
<1>2. /\ validLen' = validLen + scheduled /\ prefillLen' = prefillLen + scheduled
      /\ recent' = RecentAfterStore(Rows(r, cached[r], scheduled), scheduled)
      /\ sink' = [i \in DOMAIN sink |->
                    IF prefillLen = 0 /\ i < scheduled
                    THEN Rows(r, cached[r], scheduled)[i] ELSE sink[i]]
      /\ pending' = pending
  BY <1>0 DEF PrefillStep, PrefillFirst, PrefillChunk, StoreKV
<1>3. /\ cached' = [cached EXCEPT ![r] = c] /\ prompt' = prompt /\ waiting' = waiting
      /\ scheduled' = 0 /\ pc' = "idle"
      /\ IF c < tokens[r]
         THEN UNCHANGED <<running, tokens, finished>>
         ELSE Sampled(r)
  BY <1>0 DEF PrefillStep
<1>4. c <= prompt[r] /\ (cached[r] = 0 => scheduled = FirstChunk(r))
  BY <1>0, <1>1, SizesNat DEF NextChunk, FirstChunk, Smaller
<1>5. /\ running' = <<>> \/ running' = <<r>>
      /\ tokens' = [tokens EXCEPT ![r] = IF c < prompt[r] THEN prompt[r] ELSE c + 1]
  <2>1. tokens \in [Requests -> Nat]
    BY DEF IInv, Counters, TypeRight
  <2>2. CASE c < tokens[r]
    BY <1>1, <1>3, <2>1, <2>2
  <2>3. CASE ~(c < tokens[r])
    <3>1. c = prompt[r]
      BY <1>1, <1>4, <2>3
    <3> QED
      BY <1>1, <1>3, <2>3, <3>1 DEF Sampled
  <2> QED
    BY <2>2, <2>3
<1>6. TypeRight /\ QueuesRight /\ CountsRight /\ SinkRight /\ RecentRight
  BY DEF IInv, Counters, Contents
<1>7. TypeRight' /\ QueuesRight' /\ CountsRight'
  <2>1. /\ pending' = NoRows /\ DOMAIN sink' = DOMAIN sink
        /\ scheduled' \in Nat /\ validLen' \in Nat /\ prefillLen' \in Nat
    BY <1>1, <1>2, <1>3
  <2> QED
    BY <1>1, <1>3, <1>5, <1>6, <2>1, CountersMove
<1>8. /\ running' # <<>> => Running' = r
      /\ cached'[r] = c /\ prompt'[r] = prompt[r] /\ validLen' = c /\ prefillLen' = c
      /\ c >= prompt[r] => tokens'[r] = c + 1
  BY <1>0, <1>1, <1>2, <1>3, <1>4, <1>5, <1>6 DEF TypeRight, Running
<1>9. LengthsAgree' /\ ScheduledRight' /\ PrefillLenRight' /\ PendingRight'
  BY <1>1, <1>2, <1>3, <1>4, <1>8
  DEF LengthsAgree, ScheduledRight, PrefillLenRight, PendingRight, Prefilling
<1>10. SinkRight'
  <2>1. DOMAIN sink = 0 .. Sink - 1
    BY <1>6 DEF TypeRight
  <2>2. CASE cached[r] = 0
    <3>1. ASSUME NEW n \in 0 .. Smaller(Sink, FirstChunk(r)) - 1
          PROVE  sink'[n] = <<r, n>>
      <4>1. n \in DOMAIN sink /\ n \in 0 .. scheduled - 1
        BY <1>1, <1>4, <2>1, <2>2, SizesNat DEF Smaller
      <4>2. sink'[n] = Rows(r, 0, scheduled)[n]
        BY <1>1, <1>2, <2>2, <4>1
      <4> QED
        BY <4>1, <4>2 DEF Rows
    <3> QED
      BY <1>8, <2>1, <3>1 DEF SinkRight, FirstChunk
  <2>3. CASE cached[r] > 0
    <3>1. ASSUME NEW n \in 0 .. Smaller(Sink, FirstChunk(r)) - 1
          PROVE  sink'[n] = <<r, n>>
      <4>1. sink[n] = <<r, n>> /\ n \in DOMAIN sink
        BY <1>0, <1>1, <1>4, <1>6, <2>1, <2>3, SizesNat DEF SinkRight, Smaller, FirstChunk
      <4> QED
        BY <1>1, <1>2, <2>3, <4>1
    <3> QED
      BY <1>8, <2>1, <3>1 DEF SinkRight, FirstChunk
  <2> QED
    BY <1>1, <2>2, <2>3
<1>11. RecentRight'
  <2>1. Suffix(recent, r, validLen)
    BY <1>0, <1>1, <1>6 DEF RecentRight
  <2>2. Suffix(RecentAfterStore(Rows(r, validLen, scheduled), scheduled), r,
               validLen + scheduled)
    BY <1>1, <2>1, StoredSuffix
  <2>3. Suffix(recent', r, validLen')
    BY <1>1, <1>2, <2>2
  <2> QED
    BY <1>8, <2>3 DEF RecentRight, Suffix
<1> QED
  BY <1>7, <1>9, <1>10, <1>11 DEF IInv, Counters, Contents

\* A token enters a full window on the right.
LEMMA DecodeStepInv ==
  ASSUME IInv, DecodeStep
  PROVE  IInv'
<1>0. PICK r \in Requests, c \in Nat : r = Running /\ c = cached[r] + 1
  BY StepFacts DEF DecodeStep
<1>1. /\ running = <<r>> /\ waiting = <<>> /\ prompt[r] \in Nat /\ prompt[r] > 0
      /\ cached[r] \in Nat /\ tokens[r] = c /\ cached[r] >= prompt[r]
      /\ validLen \in Nat /\ validLen = cached[r] /\ pending = NoRows /\ pc = "run"
  BY <1>0, StepFacts DEF DecodeStep, Prefilling
<1>2. /\ recent' = [i \in 0 .. Recent - 1 |->
                      IF i < Recent - 1 THEN recent[i + 1] ELSE <<r, c - 1>>]
      /\ validLen' = validLen + 1
      /\ UNCHANGED <<sink, prefillLen, pending>>
  BY <1>0, <1>1 DEF DecodeStep, Decode
<1>3. /\ cached' = [cached EXCEPT ![r] = c] /\ prompt' = prompt /\ waiting' = waiting
      /\ scheduled' = 0 /\ pc' = "idle" /\ Sampled(r)
  BY <1>0 DEF DecodeStep
<1>4. TypeRight /\ QueuesRight /\ CountsRight /\ SinkRight /\ RecentRight
  BY DEF IInv, Counters, Contents
<1>5. /\ running' = <<>> \/ running' = <<r>>
      /\ tokens' = [tokens EXCEPT ![r] = IF c < prompt[r] THEN prompt[r] ELSE c + 1]
  <2>1. ~(c < prompt[r]) /\ tokens[r] + 1 = c + 1
    BY <1>0, <1>1
  <2>2. tokens' = [tokens EXCEPT ![r] = tokens[r] + 1]
    BY <1>3 DEF Sampled
  <2>3. running' = <<>> \/ running' = running
    BY <1>3 DEF Sampled
  <2> QED
    BY <1>1, <2>1, <2>2, <2>3
<1>6. TypeRight' /\ QueuesRight' /\ CountsRight'
  <2>1. /\ pending' = NoRows /\ DOMAIN sink' = DOMAIN sink
        /\ scheduled' \in Nat /\ validLen' \in Nat /\ prefillLen' \in Nat
    BY <1>1, <1>2, <1>3, <1>4 DEF TypeRight
  <2> QED
    BY <1>1, <1>3, <1>4, <1>5, <2>1, CountersMove
<1>7. /\ running' # <<>> => Running' = r
      /\ cached'[r] = c /\ prompt'[r] = prompt[r] /\ validLen' = c
      /\ tokens'[r] = c + 1 /\ c > prompt[r]
  BY <1>0, <1>1, <1>2, <1>3, <1>4, <1>5 DEF TypeRight, Running
<1>8. LengthsAgree' /\ ScheduledRight' /\ PrefillLenRight' /\ PendingRight'
  BY <1>1, <1>2, <1>3, <1>7
  DEF LengthsAgree, ScheduledRight, PrefillLenRight, PendingRight, Prefilling
<1>9. SinkRight'
  BY <1>0, <1>1, <1>2, <1>3, <1>4, <1>7 DEF SinkRight, FirstChunk
<1>10. RecentRight'
  <2>1. CASE prompt[r] >= Recent
    <3>1. Suffix(recent, r, validLen)
      BY <1>0, <1>1, <1>4, <2>1 DEF RecentRight
    <3>2. validLen >= Recent
      BY <1>1, <2>1, SizesNat
    <3>3. Smaller(Recent, validLen) = Recent /\ Smaller(Recent, validLen + 1) = Recent
      BY <1>1, <3>2, SizesNat DEF Smaller
    <3>4. ASSUME NEW n \in 0 .. Recent - 1
          PROVE  recent'[n] = <<r, ((validLen + 1) - Recent) + n>>
      <4>1. CASE n < Recent - 1
        <5>1. recent'[n] = recent[n + 1] /\ n + 1 \in 0 .. Recent - 1
          BY <1>2, <4>1, SizesNat
        <5>2. recent[n + 1] = <<r, (validLen - Recent) + (n + 1)>>
          BY <3>1, <3>3, <5>1 DEF Suffix
        <5>3. (validLen - Recent) + (n + 1) = ((validLen + 1) - Recent) + n
          BY <1>1, SizesNat
        <5> QED
          BY <5>1, <5>2, <5>3
      <4>2. CASE n = Recent - 1
        BY <1>0, <1>1, <1>2, <4>2, SizesNat
      <4> QED
        BY <4>1, <4>2, SizesNat
    <3>5. Suffix(recent', r, validLen + 1)
      BY <3>3, <3>4 DEF Suffix
    <3> QED
      BY <1>2, <1>7, <3>5 DEF RecentRight, Suffix
  <2>2. CASE ~(prompt[r] >= Recent)
    BY <1>1, <1>7, <2>2, SizesNat DEF RecentRight
  <2> QED
    BY <2>1, <2>2
<1> QED
  BY <1>6, <1>8, <1>9, <1>10 DEF IInv, Counters, Contents

\* Verification changes nothing but the pending rows.
LEMMA VerifyStep ==
  ASSUME IInv, NEW n \in 1 .. MaxQueries, NEW lossless \in BOOLEAN, Verify(n, lossless)
  PROVE  IInv'
<1>1. /\ UNCHANGED <<queueVars, windows, pc>>
      /\ pending' = [i \in 0 .. n - 1 |-> Rows(Running, tokens[Running] - 1, n)[i]]
      /\ running # <<>> /\ waiting = <<>> /\ ~Prefilling(Running) /\ pc = "idle"
  BY DEF Verify, VerifyTokens
<1>2. pending' = Rows(Running, tokens[Running] - 1, n)
  BY <1>1 DEF Rows
<1>3. PendingRight'
  BY <1>1, <1>2 DEF PendingRight, Rows, Running, queueVars
<1>4. QueuesRight'
  BY <1>1 DEF IInv, Counters, QueuesRight, Running, Prefilling, queueVars
<1> QED
  BY <1>1, <1>3, <1>4
  DEF IInv, Counters, Contents, TypeRight, CountsRight, LengthsAgree, ScheduledRight,
      PrefillLenRight, SinkRight, RecentRight, Suffix, queueVars, windows, Running,
      Prefilling, NextChunk, FirstChunk

\* Some of the verified tokens enter the window.
LEMMA AcceptStep ==
  ASSUME IInv, NEW n \in 1 .. MaxQueries, Accept(n)
  PROVE  IInv'
<1>1. TypeRight /\ QueuesRight /\ CountsRight /\ LengthsAgree /\ SinkRight /\ RecentRight
      /\ PendingRight
  BY DEF IInv, Counters, Contents
<1>2. pending # NoRows /\ running # <<>> /\ waiting = <<>> /\ ~Prefilling(Running)
      /\ prompt[Running] > 0 /\ pc = "idle" /\ n \in Nat /\ n > 0
  BY <1>1, SparseAssumption DEF Accept, QueuesRight, TypeRight
<1>3. PICK r \in Requests, c \in Nat : r = Running /\ c = cached[r] + n
  BY <1>1, <1>2, RunningType
<1>4. /\ running = <<r>> /\ prompt[r] \in Nat /\ prompt[r] > 0
      /\ cached[r] \in Nat /\ cached[r] >= prompt[r]
      /\ tokens[r] = cached[r] + 1 /\ validLen = cached[r] /\ validLen \in Nat
  <2>1. /\ running = <<r>> /\ prompt[r] \in Nat /\ cached[r] \in Nat /\ cached[r] >= prompt[r]
        /\ validLen \in Nat
    BY <1>1, <1>2, <1>3, RunningType DEF Prefilling, TypeRight
  <2>2. tokens[r] = cached[r] + 1
    BY <1>1, <1>2, <1>3 DEF CountsRight
  <2> QED
    BY <1>1, <1>2, <1>3, <2>1, <2>2 DEF LengthsAgree
<1>5. PICK m \in Nat : pending = Rows(r, validLen, m)
  BY <1>1, <1>2, <1>3, <1>4 DEF PendingRight
<1>6. n <= m
  <2>1. n - 1 \in DOMAIN pending
    BY DEF Accept
  <2> QED
    BY <1>2, <1>5, <2>1 DEF Rows
<1>7. /\ recent' = RecentAfterCommit(n) /\ validLen' = validLen + n /\ pending' = NoRows
      /\ sink' = sink /\ prefillLen' = prefillLen
      /\ cached' = [cached EXCEPT ![r] = c] /\ tokens' = [tokens EXCEPT ![r] = tokens[r] + n]
      /\ waiting' = waiting /\ running' = running /\ prompt' = prompt /\ pc' = "idle"
      /\ scheduled' = scheduled
  BY <1>2, <1>3 DEF Accept, CommitVerified
<1>8. tokens' = [tokens EXCEPT ![r] = IF c < prompt[r] THEN prompt[r] ELSE c + 1]
  <2>1. ~(c < prompt[r]) /\ tokens[r] + n = c + 1
    BY <1>2, <1>3, <1>4
  <2> QED
    BY <1>7, <2>1
<1>9. TypeRight' /\ QueuesRight' /\ CountsRight'
  <2>1. /\ pending' = NoRows /\ DOMAIN sink' = DOMAIN sink /\ running' = <<r>>
        /\ scheduled' \in Nat /\ validLen' \in Nat /\ prefillLen' \in Nat
    BY <1>1, <1>2, <1>4, <1>7 DEF TypeRight
  <2> QED
    BY <1>1, <1>2, <1>4, <1>7, <1>8, <2>1, CountersMove
<1>10. /\ Running' = r /\ running' # <<>>
       /\ cached'[r] = c /\ prompt'[r] = prompt[r] /\ validLen' = c
       /\ tokens'[r] = c + 1 /\ c > prompt[r]
  BY <1>1, <1>2, <1>3, <1>4, <1>7, <1>8 DEF TypeRight, Running
<1>11. LengthsAgree' /\ ScheduledRight' /\ PrefillLenRight' /\ PendingRight'
  BY <1>4, <1>7, <1>10
  DEF LengthsAgree, ScheduledRight, PrefillLenRight, PendingRight, Prefilling
<1>12. SinkRight'
  BY <1>1, <1>2, <1>3, <1>4, <1>7, <1>10 DEF SinkRight, FirstChunk
<1>13. RecentRight'
  <2>1. CASE prompt[r] >= Recent
    <3>1. Suffix(recent, r, validLen) /\ validLen >= Recent
      BY <1>1, <1>2, <1>3, <1>4, <2>1, SizesNat DEF RecentRight
    <3>2. Suffix(RecentAfterCommit(n), r, validLen + n)
      BY <1>2, <1>4, <1>5, <1>6, <3>1, CommittedSuffix
    <3> QED
      BY <1>7, <1>10, <3>2 DEF RecentRight, Suffix
  <2>2. CASE ~(prompt[r] >= Recent)
    BY <1>4, <1>10, <2>2, SizesNat DEF RecentRight
  <2> QED
    BY <2>1, <2>2
<1> QED
  BY <1>9, <1>11, <1>12, <1>13 DEF IInv, Counters, Contents

\* A pass that is discarded leaves what it found.
LEMMA DiscardStep == ASSUME IInv, Discard PROVE IInv'
<1>1. UNCHANGED <<queueVars, windows, pc>> /\ pending' = NoRows
  <2>1. validLen \in Nat
    BY DEF IInv, Counters, TypeRight
  <2>2. CASE RollbackVerified
    BY <2>2 DEF Discard, RollbackVerified
  <2>3. CASE CommitVerified(0)
    <3>1. /\ recent' = recent /\ pending' = NoRows
          /\ UNCHANGED <<history, nblocks, sink, prefillLen, protected>>
      BY <2>3 DEF CommitVerified
    <3>2. validLen' = validLen + 0
      BY <2>3 DEF CommitVerified
    <3>3. validLen' = validLen
      BY <2>1, <3>2
    <3> QED
      BY <3>1, <3>3 DEF Discard, windows
  <2> QED
    BY <2>2, <2>3 DEF Discard
<1> QED
  BY <1>1
  DEF IInv, Counters, Contents, TypeRight, QueuesRight, CountsRight, LengthsAgree,
      ScheduledRight, PrefillLenRight, PendingRight, SinkRight, RecentRight, Suffix,
      queueVars, windows, Running, Prefilling, NextChunk, FirstChunk

THEOREM Inductive == SparseSpec => []IInv
<1>1. ASSUME IInv, [SparseNext]_sparseVars
      PROVE  IInv'
  <2>1. CASE \E r \in Requests, length \in PromptLens : AddRequest(r, length)
    BY <1>1, <2>1, AddRequestStep
  <2>2. CASE StepRejected
    BY <1>1, <2>2, RejectedStep
  <2>3. CASE Schedule
    BY <1>1, <2>3, ScheduleStep
  <2>4. CASE PrefillStep
    BY <1>1, <2>4, PrefillStepInv
  <2>5. CASE PrefillRaises
    BY <1>1, <2>5, RaisesStep
  <2>6. CASE DecodeStep
    BY <1>1, <2>6, DecodeStepInv
  <2>7. CASE \E n \in 1 .. MaxQueries : Accept(n) \/ \E lossless \in BOOLEAN : Verify(n, lossless)
    BY <1>1, <2>7, AcceptStep, VerifyStep
  <2>8. CASE Discard
    BY <1>1, <2>8, DiscardStep
  <2>9. CASE UNCHANGED sparseVars
    BY <1>1, <2>9, StutterStep DEF sparseVars, runtimeVars
  <2> QED
    BY <1>1, <2>1, <2>2, <2>3, <2>4, <2>5, <2>6, <2>7, <2>8, <2>9 DEF SparseNext
<1> QED
  BY <1>1, InitInv, PTL DEF SparseSpec

\* Scheduler, sequence and runtime agree on what the runtime holds, for any
\* chunking and any mix of decodes, verification passes and failed steps.
THEOREM LengthsCorrect == SparseSpec => []LengthsAgree
<1>1. IInv => LengthsAgree
  BY DEF IInv, Counters
<1> QED
  BY <1>1, Inductive, PTL

LEMMA WindowsFollow ==
  ASSUME IInv
  PROVE  WindowsRight
<1> SUFFICES ASSUME running # <<>>, pc = "run" \/ cached[Running] > 0,
                    validLen <= prompt[Running] \/ FillsWindows(Running)
             PROVE  /\ Suffix(recent, Running, validLen)
                    /\ FirstChunk(Running) >= Smaller(Sink, prompt[Running]) =>
                         \A n \in 0 .. Smaller(Sink, validLen) - 1 : sink[n] = <<Running, n>>
  BY DEF WindowsRight, Suffix
<1>1. TypeRight /\ QueuesRight /\ LengthsAgree /\ SinkRight /\ RecentRight
  BY DEF IInv, Counters, Contents
<1>2. /\ prompt[Running] \in Nat /\ prompt[Running] > 0 /\ cached[Running] \in Nat
      /\ validLen \in Nat
  BY <1>1, RunningType DEF TypeRight, QueuesRight
<1>3. Suffix(recent, Running, validLen)
  BY <1>1 DEF RecentRight, FillsWindows
<1>4. ASSUME FirstChunk(Running) >= Smaller(Sink, prompt[Running]),
             NEW n \in 0 .. Smaller(Sink, validLen) - 1
      PROVE  sink[n] = <<Running, n>>
  <2>1. FirstChunk(Running) \in Nat
    BY <1>2, SizesNat DEF FirstChunk, Smaller
  <2>2. CASE cached[Running] = 0
    BY <1>1, <1>2, <2>2, SizesNat DEF LengthsAgree, Prefilling, Smaller
  <2>3. CASE cached[Running] > 0
    <3>1. n \in 0 .. Smaller(Sink, FirstChunk(Running)) - 1
      BY <1>2, <1>4, <2>1, SizesNat DEF FillsWindows, Smaller
    <3> QED
      BY <1>1, <2>3, <3>1 DEF SinkRight
  <2> QED
    BY <1>2, <2>2, <2>3
<1> QED
  BY <1>3, <1>4

\* The windows hold the first and the last tokens of the running request, for
\* any sizes of the windows and of the chunks, any prompts and any sequence of
\* decodes, commits, rollbacks and requests.
THEOREM WindowsCorrect == SparseSpec => []WindowsRight
<1>1. IInv => WindowsRight
  BY WindowsFollow
<1> QED
  BY <1>1, Inductive, PTL

-----------------------------------------------------------------------------
(* The blocks of the history *)

\* How many rows of the running request are stored, and in how many blocks: a
\* chunk begins a new block.
BlocksRight ==
  running # <<>> /\ (pc = "run" \/ cached[Running] > 0) =>
    IF Prefilling(Running)
    THEN /\ prefillLen = cached[Running]
         /\ \E j \in Nat : cached[Running] = j * Chunk /\ nblocks = j * BlocksFor(Chunk)
    ELSE /\ prefillLen = prompt[Running]
         /\ ChunksAligned => nblocks = BlocksFor(prompt[Running])

\* A block holds the rows of its place; only the last one may be padded.
HistoryRight ==
  running # <<>> /\ (pc = "run" \/ cached[Running] > 0) /\ ChunksAligned =>
    \A b \in 0 .. nblocks - 1, i \in 0 .. BlockSize - 1 :
      b * BlockSize + i < prefillLen => history[b][i] = <<Running, b * BlockSize + i>>

HistoryTypes ==
  /\ nblocks \in Nat
  /\ DOMAIN history = 0 .. MaxBlocks - 1
  /\ \A r \in Requests : prompt[r] > 0 => prompt[r] \in PromptLens
  /\ protected = IF nblocks = 0 THEN {} ELSE ProtectedTail(nblocks)

Stored == HistoryTypes /\ BlocksRight /\ HistoryRight

LEMMA BlockSizeNat ==
  BlockSize \in Nat /\ BlockSize > 0 /\ MaxBlocks \in Nat /\ MaxBlocks > 0
BY M12Assumption

LEMMA BlocksForBounds ==
  ASSUME NEW t \in Nat
  PROVE  /\ BlocksFor(t) \in Nat
         /\ t <= BlocksFor(t) * BlockSize
         /\ BlocksFor(t) * BlockSize < t + BlockSize
         /\ t > 0 => BlocksFor(t) > 0
BY BlockSizeNat DEF BlocksFor

LEMMA BlocksForMono ==
  ASSUME NEW s \in Nat, NEW t \in Nat, s <= t
  PROVE  BlocksFor(s) <= BlocksFor(t)
BY BlockSizeNat DEF BlocksFor

\* Products of natural numbers.
LEMMA Products ==
  ASSUME NEW a \in Nat, NEW b \in Nat, NEW c \in Nat
  PROVE  /\ a * c \in Nat
         /\ (a + 1) * c = a * c + c
         /\ (a + b) * c = a * c + b * c
         /\ (a * b) * c = a * (b * c)
         /\ a <= b => a * c <= b * c
OBVIOUS

LEMMA ProductOrder ==
  ASSUME NEW a \in Nat, NEW b \in Nat, NEW c \in Nat, c > 0
  PROVE  a * c <= b * c <=> a <= b
<1>1. a <= b => a * c <= b * c
  BY Products
<1>2. b + 1 <= a => (b + 1) * c <= a * c
  BY ONLY b + 1 \in Nat, a \in Nat, c \in Nat, Products
<1>3. (b + 1) * c = b * c + c /\ a * c \in Nat /\ b * c \in Nat
  BY Products
<1> QED BY <1>1, <1>2, <1>3

\* The blocks of a number of tokens are determined by their bounds.
LEMMA BlocksForIs ==
  ASSUME NEW t \in Nat, NEW k \in Nat, t <= k * BlockSize, k * BlockSize < t + BlockSize
  PROVE  BlocksFor(t) = k
<1>1. t + BlockSize - 1 \in Int
  BY BlockSizeNat
<1>2. k * BlockSize <= t + BlockSize - 1 /\ t + BlockSize - 1 < k * BlockSize + BlockSize
  BY BlockSizeNat
<1> QED BY <1>1, <1>2, BlockSizeNat DEF BlocksFor

\* A multiple, and its quotient.
LEMMA Multiple ==
  ASSUME NEW n \in Nat, NEW d \in Nat, d > 0, n % d = 0
  PROVE  \E m \in Nat : n = m * d /\ n \div d = m
<1>1. n \div d \in Nat /\ n = d * (n \div d) + (n % d)
  OBVIOUS
<1>2. d * (n \div d) = (n \div d) * d
  OBVIOUS
<1> QED BY <1>1, <1>2

\* Rows that continue a full block end within the last of the new ones.
LEMMA CeilingAfter ==
  ASSUME NEW c \in Nat, NEW t \in Nat, NEW p \in Nat, NEW b \in Nat, NEW n \in Nat,
         NEW size \in Nat, c + t = p, t <= b, b < t + size, n = c + b
  PROVE  p <= n /\ n < p + size
OBVIOUS

\* What lies before a window that ends at v starts a window's size before it.
LEMMA BeforeWindow ==
  ASSUME NEW x \in Nat, NEW i \in Nat, NEW p \in Nat, NEW w \in Nat, NEW v \in Nat,
         NEW n \in Nat, p = x + i, p < v - w, v <= n
  PROVE  x + w < n
OBVIOUS

\* Aligned chunks fill their blocks.
LEMMA AlignedBlocks ==
  ASSUME ChunksAligned
  PROVE  BlocksFor(Chunk) * BlockSize = Chunk
<1>1. PICK m \in Nat : Chunk = m * BlockSize
  BY BlockSizeNat, SizesNat, Multiple DEF ChunksAligned
<1>2. BlocksFor(Chunk) = m
  BY <1>1, BlocksForIs, BlockSizeNat, SizesNat
<1> QED BY <1>1, <1>2

\* The block that a chunk which is not the last ends with is within the buffers.
LEMMA ChunkFits ==
  ASSUME NEW length \in PromptLens, NEW j \in Nat, j * Chunk < length,
         NEW t \in Nat, t <= length - j * Chunk, Chunk = 0 \/ t <= Chunk
  PROVE  j * BlocksFor(Chunk) + BlocksFor(t) <= MaxBlocks
<1>1. length \in Nat /\ Chunk \in Nat
  BY SparseAssumption
<1>2. CASE Chunk = 0
  <2>1. BlocksFor(length) <= MaxBlocks
    BY <1>2, SparseAssumption
  <2>2. BlocksFor(t) <= BlocksFor(length)
    BY <1>1, <1>2, BlocksForMono
  <2>3. BlocksFor(Chunk) = 0
    BY <1>1, <1>2, BlockSizeNat, BlocksForIs
  <2>4. BlocksFor(t) \in Nat /\ BlocksFor(length) \in Nat
    BY <1>1, BlocksForBounds
  <2> QED BY <2>1, <2>2, <2>3, <2>4, BlockSizeNat
<1>3. CASE Chunk > 0
  <2> DEFINE n == (length + Chunk - 1) \div Chunk
             m == BlocksFor(Chunk)
  <2>1. n * m <= MaxBlocks
    BY <1>3, SparseAssumption
  <2>2. n \in Nat /\ length <= n * Chunk
    BY <1>1, <1>3
  <2>3. j < n
    BY <1>1, <1>3, <2>2
  <2>4. m \in Nat /\ BlocksFor(t) <= m /\ BlocksFor(t) \in Nat
    BY <1>1, <1>3, BlocksForBounds, BlocksForMono
  <2> HIDE DEF n, m
  <2>5. (j + 1) * m <= n * m
    BY <2>2, <2>3, <2>4
  <2>6. j * m + m = (j + 1) * m /\ j * m \in Nat /\ n * m \in Nat
    BY <2>2, <2>4
  <2>7. j * m + BlocksFor(t) <= MaxBlocks
    BY <2>1, <2>4, <2>5, <2>6, BlockSizeNat
  <2> QED BY <2>7 DEF m
<1> QED BY <1>1, <1>2, <1>3

LEMMA StoredInit == SparseInit => Stored
<1> SUFFICES ASSUME SparseInit PROVE Stored
  OBVIOUS
<1> QED BY DEF SparseInit, RuntimeInit, Stored, HistoryTypes, BlocksRight, HistoryRight

\* Steps that leave history, prompts and the running request alone.
LEMMA StoredKept ==
  ASSUME IInv, Stored, UNCHANGED <<history, nblocks, protected, prefillLen, prompt>>,
         running' = <<>> \/ (running' = running /\ (Prefilling(Running)' <=> Prefilling(Running))
                             /\ (Prefilling(Running) => cached'[Running] = cached[Running])),
         running' # <<>> /\ (pc' = "run" \/ cached'[Running] > 0) =>
            pc = "run" \/ cached[Running] > 0
  PROVE  Stored'
<1>1. HistoryTypes'
  BY DEF Stored, HistoryTypes, ProtectedTail
<1>2. CASE running' = <<>>
  BY <1>1, <1>2 DEF Stored, BlocksRight, HistoryRight
<1>3. CASE running' # <<>>
  <2>1. /\ running' = running /\ running # <<>> /\ Running' = Running
        /\ (Prefilling(Running)' <=> Prefilling(Running))
        /\ Prefilling(Running) => cached'[Running] = cached[Running]
    BY <1>3 DEF Running
  <2>2. BlocksRight'
    BY <1>3, <2>1 DEF Stored, BlocksRight
  <2>3. HistoryRight'
    BY <1>3, <2>1 DEF Stored, HistoryRight
  <2> QED BY <1>1, <2>2, <2>3 DEF Stored
<1> QED BY <1>2, <1>3

LEMMA StoredAdd ==
  ASSUME IInv, Stored, NEW r \in Requests, NEW length \in PromptLens, AddRequest(r, length)
  PROVE  Stored'
<1>1. /\ UNCHANGED <<history, nblocks, protected, prefillLen, running, cached, pc>>
      /\ prompt' = [prompt EXCEPT ![r] = length] /\ prompt[r] = 0
  BY DEF AddRequest, runtimeVars, windows
<1>2. prompt \in [Requests -> Nat]
  BY DEF IInv, Counters, TypeRight
<1>3. HistoryTypes'
  BY <1>1, <1>2 DEF Stored, HistoryTypes, ProtectedTail
<1>4. running # <<>> => Running \in Requests /\ Running # r /\ Running' = Running
  BY <1>1, RunningType DEF IInv, Counters, QueuesRight, Running
<1>5. running # <<>> => prompt'[Running] = prompt[Running]
  BY <1>1, <1>2, <1>4
<1> QED BY <1>1, <1>3, <1>4, <1>5 DEF Stored, BlocksRight, HistoryRight, Prefilling

\* A new prompt starts with an empty history; otherwise nothing moves.
LEMMA StoredSchedule ==
  ASSUME IInv, IInv', Stored, Schedule
  PROVE  Stored'
<1>1. /\ prompt' = prompt /\ cached' = cached /\ pc' = "run" /\ history' = history
      /\ pc = "idle"
  BY DEF Schedule, Emptied, runtimeVars, windows
<1>2. running' # <<>> /\ Running' \in Requests
  <2>1. TypeRight' /\ QueuesRight'
    BY DEF IInv, Counters
  <2>2. running' # <<>>
    BY <1>1, <2>1 DEF QueuesRight
  <2> QED BY <2>1, <2>2 DEF TypeRight, Running
<1>3. PICK r \in Requests : r = running'[1]
  BY <1>2 DEF Running
<1>4. /\ prompt[r] \in Nat /\ cached[r] \in Nat /\ prompt[r] > 0 /\ Running' = r
      /\ (Prefilling(r)' <=> Prefilling(r))
  BY <1>1, <1>2, <1>3 DEF IInv, Counters, TypeRight, QueuesRight, Running, Prefilling
<1>5. IF Resets(r) THEN Emptied ELSE UNCHANGED runtimeVars
  BY <1>3 DEF Schedule
<1>6. CASE Resets(r)
  <2>1. nblocks' = 0 /\ prefillLen' = 0 /\ protected' = {} /\ cached'[r] = 0
    BY <1>1, <1>5, <1>6 DEF Emptied, Resets
  <2>2. HistoryTypes'
    BY <1>1, <2>1 DEF Stored, HistoryTypes
  <2>3. BlocksRight'
    <3>1. 0 * Chunk = 0 /\ 0 * BlocksFor(Chunk) = 0
      BY SizesNat, BlocksForBounds
    <3> QED BY <1>4, <1>6, <2>1, <3>1 DEF BlocksRight, Resets
  <2>4. HistoryRight'
    BY <2>1 DEF HistoryRight
  <2> QED BY <2>2, <2>3, <2>4 DEF Stored
<1>7. CASE ~Resets(r)
  <2>1. UNCHANGED <<history, nblocks, protected, prefillLen, prompt, cached>>
    BY <1>1, <1>5, <1>7 DEF runtimeVars, windows
  <2>2. cached[r] > 0
    BY <1>4, <1>7 DEF Resets, Prefilling
  <2>3. running' = running
    <3>1. CASE waiting # <<>>
      <4>1. running = <<>>
        BY <3>1, Zenon DEF Schedule, Conflict
      <4>2. running' = Append(<<>>, Head(waiting))
        BY <3>1, <4>1, Zenon DEF Schedule
      <4>3. waiting \in Seq(Requests)
        BY DEF IInv, Counters, TypeRight
      <4>4. r = waiting[1] /\ 1 \in 1 .. Len(waiting)
        BY <1>3, <3>1, <4>2, <4>3, EmptySeq
      <4>5. cached[r] = 0
        BY <4>4 DEF IInv, Counters, QueuesRight
      <4> QED BY <2>2, <4>5
    <3>2. CASE waiting = <<>>
      BY <3>2, Zenon DEF Schedule
    <3> QED BY <3>1, <3>2
  <2>4. Running = r
    BY <1>3, <2>3 DEF Running
  <2> QED BY <1>4, <2>1, <2>2, <2>3, <2>4, StoredKept
<1> QED BY <1>6, <1>7

\* A chunk is stored in the blocks after those of the chunks before it.
LEMMA StoredPrefill ==
  ASSUME IInv, Stored, PrefillStep
  PROVE  Stored'
<1>0. PICK r \in Requests, t \in Nat : r = Running /\ t = scheduled
  BY StepFacts DEF PrefillStep
<1> DEFINE need == nblocks + BlocksFor(t)
           k == Rows(r, cached[r], t)
           row(j) == IF j < t THEN k[j] ELSE Blank
<1>1. /\ running = <<r>> /\ prompt[r] \in Nat /\ prompt[r] > 0 /\ cached[r] \in Nat
      /\ cached[r] < prompt[r] /\ prefillLen = cached[r] /\ t = NextChunk(r) /\ pc = "run"
      /\ Prefilling(r) /\ tokens[r] = prompt[r]
  BY <1>0, StepFacts DEF PrefillStep, Prefilling
<1>2. StoreKV(k, t) /\ cached' = [cached EXCEPT ![r] = cached[r] + t] /\ prompt' = prompt
  BY <1>0 DEF PrefillStep, PrefillFirst, PrefillChunk
<1>3. running' = <<>> \/ running' = <<r>>
  BY <1>0, <1>1 DEF PrefillStep, Sampled
<1>4. /\ t \in Nat /\ t > 0 /\ t <= prompt[r] - cached[r] /\ (Chunk = 0 \/ t <= Chunk)
      /\ t = prompt[r] - cached[r] \/ t = Chunk
  BY <1>1, SizesNat DEF NextChunk, Smaller
<1>5. PICK j \in Nat : cached[r] = j * Chunk /\ nblocks = j * BlocksFor(Chunk)
  BY <1>0, <1>1 DEF Stored, BlocksRight
<1>6. /\ nblocks \in Nat /\ BlocksFor(t) \in Nat /\ BlocksFor(t) > 0 /\ need \in Nat /\ need > 0
      /\ DOMAIN history = 0 .. MaxBlocks - 1 /\ prompt[r] \in PromptLens
  <2>1. /\ nblocks \in Nat /\ DOMAIN history = 0 .. MaxBlocks - 1 /\ prompt[r] \in PromptLens
    BY <1>0, <1>1, StepFacts DEF Stored, HistoryTypes, PrefillStep
  <2>2. BlocksFor(t) \in Nat /\ BlocksFor(t) > 0
    BY <1>4, BlocksForBounds
  <2> QED BY <2>1, <2>2
<1>7. need <= MaxBlocks
  BY <1>1, <1>4, <1>5, <1>6, ChunkFits
<1>8. /\ nblocks' = need /\ prefillLen' = cached[r] + t /\ protected' = ProtectedTail(need)
      /\ history' = [b \in DOMAIN history |->
                       IF b \in nblocks .. need - 1
                       THEN [i \in 0 .. BlockSize - 1 |-> row((b - nblocks) * BlockSize + i)]
                       ELSE history[b]]
  BY <1>1, <1>2, Zenon DEF StoreKV
<1>9. HistoryTypes'
  <2>1. nblocks' # 0 /\ nblocks' \in Nat /\ DOMAIN history' = DOMAIN history
    BY <1>6, <1>8
  <2>2. ProtectedTail(need)' = ProtectedTail(need)'
    OBVIOUS
  <2>3. protected' = ProtectedTail(nblocks')
    BY <1>8
  <2> QED BY <1>2, <1>6, <2>1, <2>3 DEF Stored, HistoryTypes, ProtectedTail
<1>10. running' # <<>> => Running' = r /\ cached'[r] = cached[r] + t /\ prompt'[r] = prompt[r]
  BY <1>2, <1>3 DEF IInv, Counters, TypeRight, Running
<1>11. BlocksRight'
  <2>1. CASE cached[r] + t < prompt[r]
    <3>1. t = Chunk
      BY <1>1, <1>4, <2>1
    <3>2. j + 1 \in Nat /\ cached[r] + t = (j + 1) * Chunk /\ need = (j + 1) * BlocksFor(Chunk)
      <4>1. (j + 1) * Chunk = j * Chunk + Chunk
        BY SizesNat, Products
      <4>2. (j + 1) * BlocksFor(Chunk) = j * BlocksFor(Chunk) + BlocksFor(Chunk)
        BY SizesNat, Products, BlocksForBounds
      <4> QED BY <1>5, <3>1, <4>1, <4>2
    <3> QED BY <1>8, <1>10, <2>1, <3>2 DEF BlocksRight, Prefilling
  <2>2. CASE ~(cached[r] + t < prompt[r])
    <3>1. cached[r] + t = prompt[r]
      BY <1>1, <1>4, <2>2
    <3>2. ASSUME ChunksAligned PROVE need = BlocksFor(prompt[r])
      <4>1. nblocks * BlockSize = cached[r]
        <5>1. (j * BlocksFor(Chunk)) * BlockSize = j * (BlocksFor(Chunk) * BlockSize)
          BY Products, BlocksForBounds, BlockSizeNat, SizesNat
        <5> QED BY <1>5, <3>2, <5>1, AlignedBlocks
      <4>2. /\ t <= BlocksFor(t) * BlockSize /\ BlocksFor(t) * BlockSize < t + BlockSize
        BY <1>4, BlocksForBounds
      <4>3. need * BlockSize = cached[r] + BlocksFor(t) * BlockSize
        BY <1>6, <4>1, BlockSizeNat
      <4>4. prompt[r] <= need * BlockSize /\ need * BlockSize < prompt[r] + BlockSize
        <5>1. BlocksFor(t) * BlockSize \in Nat /\ need * BlockSize \in Nat
              /\ cached[r] \in Nat /\ t \in Nat /\ prompt[r] \in Nat /\ BlockSize \in Nat
          BY <1>1, <1>4, <1>6, BlockSizeNat, Products
        <5> HIDE DEF need
        <5> QED BY ONLY <3>1, <4>2, <4>3, <5>1, CeilingAfter
      <4> QED BY <1>1, <1>6, <4>4, BlocksForIs
    <3> QED BY <1>1, <1>8, <1>10, <2>2, <3>1, <3>2 DEF BlocksRight, Prefilling
  <2> QED BY <2>1, <2>2
<1>12. HistoryRight'
  <2>1. ASSUME ChunksAligned, NEW b \in 0 .. need - 1, NEW i \in 0 .. BlockSize - 1,
               b * BlockSize + i < cached[r] + t
        PROVE  history'[b][i] = <<r, b * BlockSize + i>>
    <3>1. nblocks * BlockSize = cached[r]
      <4>1. (j * BlocksFor(Chunk)) * BlockSize = j * (BlocksFor(Chunk) * BlockSize)
        BY Products, BlocksForBounds, BlockSizeNat, SizesNat
      <4> QED BY <1>5, <2>1, <4>1, AlignedBlocks
    <3>2. b \in DOMAIN history /\ b \in Nat /\ i \in Nat
      BY <1>6, <1>7, BlockSizeNat
    <3>3. CASE b < nblocks
      <4>1. history'[b] = history[b]
        <5>1. b \notin nblocks .. need - 1
          BY <1>6, <3>2, <3>3
        <5> QED BY <1>8, <3>2, <5>1
      <4>2. b + 1 <= nblocks /\ b * BlockSize + BlockSize = (b + 1) * BlockSize
        BY <1>6, <3>2, <3>3, BlockSizeNat
      <4>3. (b + 1) * BlockSize <= nblocks * BlockSize
        <5>1. b + 1 \in Nat /\ nblocks \in Nat /\ BlockSize \in Nat /\ b + 1 <= nblocks
          BY <1>6, <3>2, <4>2, BlockSizeNat
        <5> QED BY ONLY <5>1, Products
      <4>4. b * BlockSize \in Nat
        BY <3>2, BlockSizeNat
      <4>5. b * BlockSize + i < prefillLen
        BY <1>1, <3>1, <3>2, <4>2, <4>3, <4>4, BlockSizeNat
      <4>6. b \in 0 .. nblocks - 1
        BY <1>6, <3>2, <3>3
      <4>7. \A d \in 0 .. nblocks - 1, n \in 0 .. BlockSize - 1 :
              d * BlockSize + n < prefillLen => history[d][n] = <<r, d * BlockSize + n>>
        BY <1>0, <1>1, <2>1 DEF Stored, HistoryRight
      <4>8. history[b][i] = <<r, b * BlockSize + i>>
        BY <4>5, <4>6, <4>7
      <4> QED BY <4>1, <4>8
    <3>4. CASE b >= nblocks
      <4> DEFINE q == (b - nblocks) * BlockSize + i
      <4>1. history'[b][i] = row(q)
        BY <1>6, <1>8, <3>2, <3>4
      <4>2. (b - nblocks) * BlockSize = b * BlockSize - nblocks * BlockSize
        BY <1>6, <3>2, BlockSizeNat
      <4>3. (b - nblocks) * BlockSize \in Nat /\ b * BlockSize \in Nat
        BY <1>6, <3>2, <3>4, BlockSizeNat
      <4>4. q \in 0 .. t - 1 /\ cached[r] + q = b * BlockSize + i
        BY <1>1, <1>4, <2>1, <3>1, <3>2, <4>2, <4>3
      <4>5. k[q] = <<r, cached[r] + q>>
        BY <4>4 DEF Rows
      <4> QED BY <4>1, <4>4, <4>5
    <3> QED BY <1>6, <3>2, <3>3, <3>4
  <2> QED BY <1>8, <1>10, <2>1 DEF HistoryRight
<1> QED BY <1>9, <1>11, <1>12 DEF Stored

\* After the prompt, only the windows move.
LEMMA StoredDecode ==
  ASSUME IInv, Stored, DecodeStep
  PROVE  Stored'
<1>0. PICK r \in Requests : r = Running
  BY StepFacts DEF DecodeStep
<1>1. /\ running = <<r>> /\ prompt[r] \in Nat /\ prompt[r] > 0 /\ cached[r] \in Nat
      /\ cached[r] >= prompt[r]
  BY <1>0, StepFacts DEF DecodeStep, Prefilling
<1>2. /\ UNCHANGED <<history, nblocks, protected, prefillLen, prompt>>
      /\ cached' = [cached EXCEPT ![r] = cached[r] + 1]
      /\ running' = <<>> \/ running' = running
  BY <1>0 DEF DecodeStep, Decode, Sampled
<1>3. cached'[r] = cached[r] + 1
  BY <1>2 DEF IInv, Counters, TypeRight
<1>4. running' = running => ~Prefilling(Running)' /\ ~Prefilling(Running)
  BY <1>0, <1>1, <1>2, <1>3 DEF Prefilling, Running
<1>5. cached[Running] > 0
  BY <1>0, <1>1
<1>6. \/ running' = <<>>
      \/ /\ running' = running /\ (Prefilling(Running)' <=> Prefilling(Running))
         /\ Prefilling(Running) => cached'[Running] = cached[Running]
  BY <1>2, <1>4, Zenon
<1> QED BY <1>2, <1>5, <1>6, StoredKept

LEMMA StoredAccept ==
  ASSUME IInv, Stored, NEW n \in 1 .. MaxQueries, Accept(n)
  PROVE  Stored'
<1>1. running # <<>> /\ ~Prefilling(Running) /\ prompt[Running] > 0
  BY DEF IInv, Counters, QueuesRight, Accept
<1>2. PICK r \in Requests : r = Running /\ prompt[r] \in Nat /\ cached[r] \in Nat
  BY <1>1, RunningType DEF IInv, Counters
<1>3. /\ UNCHANGED <<history, nblocks, protected, prefillLen, prompt, running>>
      /\ cached' = [cached EXCEPT ![r] = cached[r] + n]
  BY <1>2 DEF Accept, CommitVerified
<1>4. cached'[r] = cached[r] + n
  BY <1>3 DEF IInv, Counters, TypeRight
<1>5. n \in Nat /\ cached[r] >= prompt[r] /\ ~Prefilling(r)
  BY <1>1, <1>2, SparseAssumption DEF Prefilling
<1>6. ~Prefilling(Running)' /\ ~Prefilling(Running)
  BY <1>2, <1>3, <1>4, <1>5 DEF Prefilling, Running
<1>7. cached[Running] > 0
  BY <1>1, <1>2, <1>5
<1>8. /\ running' = running /\ (Prefilling(Running)' <=> Prefilling(Running))
      /\ Prefilling(Running) => cached'[Running] = cached[Running]
  BY <1>3, <1>6, Zenon
<1> QED BY <1>3, <1>7, <1>8, StoredKept

LEMMA StoredInvariance == SparseSpec => [](IInv /\ Stored)
<1>1. ASSUME IInv, IInv', Stored, [SparseNext]_sparseVars
      PROVE  Stored'
  <2>1. CASE \E r \in Requests, length \in PromptLens : AddRequest(r, length)
    BY <1>1, <2>1, StoredAdd
  <2>2. CASE Schedule
    BY <1>1, <2>2, StoredSchedule
  <2>3. CASE PrefillStep
    BY <1>1, <2>3, StoredPrefill
  <2>4. CASE DecodeStep
    BY <1>1, <2>4, StoredDecode
  <2>5. CASE \E n \in 1 .. MaxQueries : Accept(n)
    BY <1>1, <2>5, StoredAccept
  <2>6. CASE \/ StepRejected \/ PrefillRaises \/ Discard \/ UNCHANGED sparseVars
             \/ \E n \in 1 .. MaxQueries, lossless \in BOOLEAN : Verify(n, lossless)
    <3>1. /\ UNCHANGED <<history, nblocks, protected, prefillLen, prompt, running, cached>>
          /\ pc' = pc \/ pc' = "idle"
      BY <2>6 DEF StepRejected, PrefillRaises, Discard, RollbackVerified, CommitVerified,
         Verify, VerifyTokens, sparseVars, runtimeVars, queueVars, windows
    <3>2. (Prefilling(Running)' <=> Prefilling(Running))
      BY <3>1 DEF Prefilling, Running
    <3> QED BY <1>1, <3>1, <3>2, StoredKept
  <2> QED BY <1>1, <2>1, <2>2, <2>3, <2>4, <2>5, <2>6 DEF SparseNext
<1> QED BY <1>1, StoredInit, Inductive, PTL DEF SparseSpec

-----------------------------------------------------------------------------
(* What is selected *)

LEMMA AvailableIs ==
  ASSUME nblocks \in Nat
  PROVE  /\ IsFiniteSet((0 .. nblocks - 1) \ InRange)
         /\ Cardinality((0 .. nblocks - 1) \ InRange) = Available
         /\ Available \in Nat
<1>1. IsFiniteSet(0 .. nblocks - 1) /\ Cardinality(0 .. nblocks - 1) = nblocks
  BY FS_Interval
<1>2. (0 .. nblocks - 1) \cap InRange = InRange
  BY DEF InRange
<1>3. /\ IsFiniteSet((0 .. nblocks - 1) \ InRange)
      /\ Cardinality((0 .. nblocks - 1) \ InRange) = nblocks - Cardinality(InRange)
  <2>1. /\ IsFiniteSet((0 .. nblocks - 1) \ InRange)
        /\ Cardinality((0 .. nblocks - 1) \ InRange)
             = Cardinality(0 .. nblocks - 1) - Cardinality((0 .. nblocks - 1) \cap InRange)
    BY <1>1, FS_Difference
  <2> QED BY <1>1, <1>2, <2>1
<1>4. Cardinality((0 .. nblocks - 1) \ InRange) \in Nat
  BY <1>3, FS_CardinalityType
<1> QED BY <1>3, <1>4 DEF Available

\* The best blocks, if there are enough that are not masked, are not masked.
LEMMA BestAvoids ==
  ASSUME nblocks \in Nat, NEW k \in Nat, NEW ids \in Best(nblocks, k, InRange)
  PROVE  /\ ids \subseteq 0 .. nblocks - 1
         /\ IsFiniteSet(ids) /\ Cardinality(ids) = k
         /\ k <= Available => ids \subseteq (0 .. nblocks - 1) \ protected
<1> DEFINE free == (0 .. nblocks - 1) \ InRange
<1>1. /\ ids \subseteq 0 .. nblocks - 1 /\ Cardinality(ids) = k
      /\ ids \cap InRange = {} \/ free \subseteq ids
  BY DEF Best, kSubset
<1>2. IsFiniteSet(ids)
  <2>1. IsFiniteSet(0 .. nblocks - 1)
    BY FS_Interval
  <2> QED BY <1>1, <2>1, FS_Subset
<1>3. ASSUME k <= Available PROVE ids \subseteq (0 .. nblocks - 1) \ protected
  <2>1. CASE ids \cap InRange = {}
    BY <1>1, <2>1 DEF InRange
  <2>2. CASE free \subseteq ids
    <3>1. Cardinality(free) <= Cardinality(ids) /\ (Cardinality(ids) = Cardinality(free) => ids = free)
      BY <1>2, <2>2, FS_Subset
    <3>2. Cardinality(free) = Available /\ Available \in Nat
      BY AvailableIs
    <3>3. ids = free
      BY <1>1, <1>3, <3>1, <3>2
    <3> QED BY <3>3 DEF InRange
  <2> QED BY <1>1, <2>1, <2>2
<1> QED BY <1>1, <1>2, <1>3

LEMMA QuotaBounds ==
  ASSUME nblocks \in Nat, NEW k \in Nat
  PROVE  /\ Quota(k) \in Nat /\ Quota(k) <= k
         /\ Available > 0 => Quota(k) <= Available
         /\ k > 0 => Quota(k) > 0
BY AvailableIs DEF Quota, Smaller, Larger

\* A selection that is sound: it avoids what the windows stand for, if it can,
\* and it fits the buffers.
Sound(ids) ==
  /\ ids \subseteq 0 .. nblocks - 1
  /\ Available > 0 => ids \subseteq (0 .. nblocks - 1) \ protected
  /\ Cardinality(ids) <= SelBudget

LEMMA BudgetIs ==
  /\ SelBudget \in Nat /\ TopK <= SelBudget /\ UnionBlocks <= SelBudget
  /\ cfg.rule \in {"relative", "union"} => RelativeMax <= SelBudget
<1> DEFINE T == {TopK, UnionBlocks}
                  \cup (IF cfg.rule \in {"relative", "union"} THEN {RelativeMax} ELSE {})
<1>1. TopK \in Nat /\ UnionBlocks \in Nat /\ RelativeMax \in Nat
  BY M12Assumption
<1>2. \E x \in T : \A y \in T : x >= y
  <2>1. CASE cfg.rule \in {"relative", "union"}
    <3>1. T = {TopK, UnionBlocks, RelativeMax}
      BY <2>1
    <3>2. \/ TopK >= UnionBlocks /\ TopK >= RelativeMax
          \/ UnionBlocks >= TopK /\ UnionBlocks >= RelativeMax
          \/ RelativeMax >= TopK /\ RelativeMax >= UnionBlocks
      BY <1>1
    <3> QED BY <1>1, <3>1, <3>2
  <2>2. CASE ~(cfg.rule \in {"relative", "union"})
    <3>1. T = {TopK, UnionBlocks}
      BY <2>2
    <3> QED BY <1>1, <3>1
  <2> QED BY <2>1, <2>2
<1>3. SelBudget \in T /\ \A y \in T : SelBudget >= y
  BY <1>2 DEF SelBudget, Max
<1> QED BY <1>1, <1>3

\* One selection for all queries.
LEMMA SelectSound ==
  ASSUME nblocks \in Nat, NEW k \in Nat, k <= TopK, NEW ids \in Select(k)
  PROVE  Sound(ids) /\ IsFiniteSet(ids) /\ Cardinality(ids) <= k
<1>1. Quota(k) \in Nat /\ Quota(k) <= k /\ (Available > 0 => Quota(k) <= Available)
  BY QuotaBounds
<1>2. /\ ids \subseteq 0 .. nblocks - 1 /\ IsFiniteSet(ids) /\ Cardinality(ids) = Quota(k)
      /\ Quota(k) <= Available => ids \subseteq (0 .. nblocks - 1) \ protected
  BY <1>1, BestAvoids DEF Select
<1>3. TopK \in Nat
  BY M12Assumption
<1> QED BY <1>1, <1>2, <1>3, BudgetIs DEF Sound

\* A set of numbers that is not empty has a least one.
LEMMA LeastNat ==
  ASSUME NEW T \in SUBSET Nat, T # {}
  PROVE  \E n \in T : \A m \in T : n <= m
<1> DEFINE R == {ss \in Nat \X Nat : ss[1] < ss[2]}
<1>1. IsWellFoundedOn(R, Nat)
  BY NatLessThanWellFounded, Zenon DEF OpToRel
<1>2. \A x, y \in Nat : y < x => <<y, x>> \in R
  OBVIOUS
<1> HIDE DEF R
<1>3. PICK x \in T : \A y \in T : ~ (<<y, x>> \in R)
  BY <1>1, WFMin
<1>4. ASSUME NEW m \in T PROVE x <= m
  <2>1. x \in Nat /\ m \in Nat /\ ~ (m < x)
    BY <1>2, <1>3
  <2> QED BY <2>1
<1> QED BY <1>4

\* The union of n sets of at most k elements has at most n * k.
LEMMA UnionBound ==
  ASSUME NEW n \in Nat, NEW k \in Nat, NEW f,
         \A i \in 1 .. n : IsFiniteSet(f[i]) /\ Cardinality(f[i]) <= k
  PROVE  Cardinality(UNION {f[i] : i \in 1 .. n}) <= n * k
<1> DEFINE U(j) == UNION {f[i] : i \in 1 .. j}
           Bad == {j \in 0 .. n : ~(IsFiniteSet(U(j)) /\ Cardinality(U(j)) <= j * k)}
<1>1. U(0) = {}
  OBVIOUS
<1>2. ASSUME NEW j \in 1 .. n PROVE U(j) = U(j - 1) \cup f[j]
  <2>1. \A i : i \in 1 .. j <=> i \in 1 .. (j - 1) \/ i = j
    OBVIOUS
  <2> QED BY <2>1
<1>3. U(n) = UNION {f[i] : i \in 1 .. n}
  OBVIOUS
<1> HIDE DEF U
<1>4. ASSUME Bad # {} PROVE FALSE
  <2>0. Bad \in SUBSET Nat
    OBVIOUS
  <2>1. PICK j \in Bad : \A m \in Bad : j <= m
    BY <1>4, <2>0, LeastNat
  <2>2. j \in 0 .. n /\ ~(IsFiniteSet(U(j)) /\ Cardinality(U(j)) <= j * k)
    BY <2>1
  <2>3. CASE j = 0
    <3>1. IsFiniteSet(U(0)) /\ Cardinality(U(0)) = 0
      BY <1>1, FS_EmptySet
    <3> QED BY <2>2, <2>3, <3>1
  <2>4. CASE j > 0
    <3>1. j \in 1 .. n /\ j - 1 \in 0 .. n /\ ~(j <= j - 1)
      BY <2>2, <2>4
    <3>2. IsFiniteSet(U(j - 1)) /\ Cardinality(U(j - 1)) <= (j - 1) * k
      BY <2>1, <3>1
    <3>3. IsFiniteSet(f[j]) /\ Cardinality(f[j]) <= k
      BY <3>1
    <3>4. U(j) = U(j - 1) \cup f[j]
      BY <1>2, <3>1
    <3>5. /\ IsFiniteSet(U(j - 1) \cup f[j])
          /\ Cardinality(U(j - 1) \cup f[j])
               = Cardinality(U(j - 1)) + Cardinality(f[j]) - Cardinality(U(j - 1) \cap f[j])
      BY <3>2, <3>3, FS_Union
    <3>6. Cardinality(U(j - 1) \cap f[j]) \in Nat /\ Cardinality(U(j - 1)) \in Nat
          /\ Cardinality(f[j]) \in Nat
      BY <3>2, <3>3, FS_Intersection, FS_CardinalityType
    <3>7. (j - 1) * k + k = j * k /\ (j - 1) * k \in Nat /\ j * k \in Nat
      BY <3>1
    <3>8. Cardinality(U(j)) <= j * k
      BY <3>2, <3>3, <3>4, <3>5, <3>6, <3>7
    <3> QED BY <2>2, <3>4, <3>5, <3>8
  <2> QED BY <2>2, <2>3, <2>4
<1>5. n \in 0 .. n /\ n \notin Bad
  BY <1>4
<1>6. Cardinality(U(n)) <= n * k
  BY <1>5
<1> QED BY <1>3, <1>6

\* One selection for each query of a lossless pass.
LEMMA PerQuerySound ==
  ASSUME nblocks \in Nat, NEW n \in 1 .. MaxQueries, UnionBlocks > 0,
         NEW ids \in SelectPerQuery(n)
  PROVE  Sound(ids)
<1>1. PICK choice \in [1 .. n -> Select(TopK)] : ids = UNION {choice[i] : i \in 1 .. n}
  BY DEF SelectPerQuery
<1>2. TopK \in Nat /\ n \in Nat /\ MaxQueries \in Nat /\ n <= MaxQueries
  BY M12Assumption, SparseAssumption
<1>3. \A i \in 1 .. n : Sound(choice[i]) /\ IsFiniteSet(choice[i]) /\ Cardinality(choice[i]) <= TopK
  BY <1>1, <1>2, SelectSound
<1>4. Cardinality(ids) <= n * TopK
  BY <1>1, <1>2, <1>3, UnionBound
<1>5. ids \subseteq 0 .. nblocks - 1
  BY <1>1, <1>3 DEF Sound
<1>6. Available > 0 => ids \subseteq (0 .. nblocks - 1) \ protected
  BY <1>1, <1>3 DEF Sound
<1>7. IsFiniteSet(ids)
  <2>1. IsFiniteSet(0 .. nblocks - 1)
    BY FS_Interval
  <2> QED BY <1>5, <2>1, FS_Subset
<1>8. Cardinality(ids) <= SelBudget
  <2>1. n * TopK <= MaxQueries * TopK
    BY ONLY <1>2, Products
  <2>2. UnionBlocks >= MaxQueries * TopK /\ UnionBlocks <= SelBudget
    BY SparseAssumption, BudgetIs
  <2>3. Cardinality(ids) \in Nat /\ n * TopK \in Nat /\ MaxQueries * TopK \in Nat
        /\ UnionBlocks \in Nat /\ SelBudget \in Nat
    BY <1>2, <1>7, FS_CardinalityType, M12Assumption, BudgetIs
  <2> QED BY <1>4, <2>1, <2>2, <2>3
<1> QED BY <1>5, <1>6, <1>8 DEF Sound

\* The numbers of blocks a rule may take fit what is available and the buffers.
LEMMA CountsFit ==
  ASSUME nblocks \in Nat, cfg \in Configs, NEW c \in Counts(Quota(DecodeTopK))
  PROVE  c \in Nat /\ c <= SelBudget /\ (Available > 0 => c <= Available)
<1> DEFINE k == Quota(DecodeTopK)
           cap == Smaller(RelativeMax, Larger(1, Available))
<1>1. /\ TopK \in Nat /\ DecodeTopK \in Nat /\ DecodeTopK > 0 /\ DecodeTopK <= TopK
      /\ RelativeMax \in Nat /\ RelativeMax > 0
      /\ cfg.rule \in {"fixed", "dynamic", "relative", "union"}
  BY M12Assumption
<1>2. /\ k \in Nat /\ k > 0 /\ k <= DecodeTopK /\ (Available > 0 => k <= Available)
      /\ Available \in Nat
  BY <1>1, QuotaBounds, AvailableIs
<1>3. cap \in Nat /\ cap > 0 /\ cap <= RelativeMax /\ (Available > 0 => cap <= Available)
  BY <1>1, <1>2 DEF Smaller, Larger
<1>4. SelBudget \in Nat /\ TopK <= SelBudget
      /\ (cfg.rule \in {"relative", "union"} => RelativeMax <= SelBudget)
  BY BudgetIs
<1> HIDE DEF k, cap
<1>5. CASE cfg.rule = "fixed"
  BY <1>1, <1>2, <1>4, <1>5 DEF Counts, k
<1>6. CASE cfg.rule = "dynamic"
  <2>1. c \in DynamicCounts(k)
    BY <1>6 DEF Counts, k
  <2>2. c \in Nat /\ c <= k
    BY <1>1, <1>2, <2>1 DEF DynamicCounts, Larger
  <2> QED BY <1>1, <1>2, <1>4, <2>2
<1>7. CASE cfg.rule = "relative"
  <2>1. c \in 1 .. cap
    BY <1>7 DEF Counts, cap
  <2> QED BY <1>1, <1>2, <1>3, <1>4, <1>7, <2>1
<1>8. CASE cfg.rule = "union"
  <2>1. c \in Smaller(k, cap) .. cap
    BY <1>8 DEF Counts, cap, k
  <2>2. Smaller(k, cap) \in Nat
    BY <1>2, <1>3 DEF Smaller
  <2> QED BY <1>1, <1>2, <1>3, <1>4, <1>8, <2>1, <2>2
<1> QED BY <1>1, <1>5, <1>6, <1>7, <1>8

\* Whatever the selector replays, it is as good as what it would compute.
LEMMA DecodeSound ==
  ASSUME nblocks \in Nat, cfg \in Configs, NEW ids \in DecodeChoices
  PROVE  Sound(ids)
<1>1. cfg.selector \in {"eager", "graph", "static"}
  BY M12Assumption
<1>2. MaskFor = InRange
  BY DEF MaskFor
<1>3. GraphFor(Quota(DecodeTopK))
        = [nblocks |-> nblocks, k |-> Quota(DecodeTopK), masked |-> InRange]
  BY DEF GraphFor
<1>4. ids \in UNION {Best(nblocks, c, InRange) : c \in Counts(Quota(DecodeTopK))}
  <2>1. CASE cfg.selector = "graph"
    BY <1>3, <2>1 DEF DecodeChoices
  <2>2. CASE cfg.selector = "static"
    BY <1>2, <2>2 DEF DecodeChoices
  <2>3. CASE cfg.selector = "eager"
    BY <2>3 DEF DecodeChoices
  <2> QED BY <1>1, <2>1, <2>2, <2>3
<1>5. PICK c \in Counts(Quota(DecodeTopK)) : ids \in Best(nblocks, c, InRange)
  BY <1>4
<1>6. c \in Nat /\ c <= SelBudget /\ (Available > 0 => c <= Available)
  BY CountsFit
<1>7. /\ ids \subseteq 0 .. nblocks - 1 /\ Cardinality(ids) = c
      /\ c <= Available => ids \subseteq (0 .. nblocks - 1) \ protected
  BY <1>5, <1>6, BestAvoids
<1> QED BY <1>6, <1>7 DEF Sound

\* The configuration never changes.
LEMMA ConfigKept == SparseSpec => [](cfg \in Configs)
<1>1. SparseInit => cfg \in Configs
  BY DEF SparseInit, RuntimeInit
<1>2. ASSUME [SparseNext]_sparseVars PROVE cfg' = cfg
  <2>1. CASE Schedule
    BY <2>1 DEF Schedule, Emptied, runtimeVars
  <2>2. CASE PrefillStep
    BY <2>2 DEF PrefillStep, PrefillFirst, PrefillChunk
  <2>3. CASE DecodeStep
    BY <2>3 DEF DecodeStep, Decode
  <2>4. CASE \/ StepRejected \/ PrefillRaises \/ Discard \/ UNCHANGED sparseVars
             \/ \E n \in 1 .. MaxQueries : Accept(n) \/ \E lossless \in BOOLEAN : Verify(n, lossless)
             \/ \E r \in Requests, length \in PromptLens : AddRequest(r, length)
    BY <2>4 DEF StepRejected, PrefillRaises, Discard, RollbackVerified, CommitVerified,
       Accept, Verify, VerifyTokens, AddRequest, sparseVars, runtimeVars
  <2> QED BY <1>2, <2>1, <2>2, <2>3, <2>4 DEF SparseNext
<1>3. cfg \in Configs /\ [SparseNext]_sparseVars => (cfg \in Configs)'
  BY <1>2
<1> QED BY <1>1, <1>3, PTL DEF SparseSpec

\* Which steps attend.
LEMMA AttendingSteps ==
  ASSUME SparseNext, attended' # attended
  PROVE  \/ PrefillStep
         \/ DecodeStep
         \/ \E n \in 1 .. MaxQueries, lossless \in BOOLEAN : Verify(n, lossless)
<1>1. CASE Schedule
  BY <1>1 DEF Schedule, Emptied, runtimeVars
<1>2. CASE \/ StepRejected \/ PrefillRaises \/ Discard
           \/ \E n \in 1 .. MaxQueries : Accept(n)
           \/ \E r \in Requests, length \in PromptLens : AddRequest(r, length)
  BY <1>2 DEF StepRejected, PrefillRaises, Discard, RollbackVerified, CommitVerified,
     Accept, AddRequest, runtimeVars
<1> QED BY <1>1, <1>2 DEF SparseNext

LEMMA StepSelects ==
  ASSUME IInv, Stored, cfg \in Configs, SparseNext, attended' # attended
  PROVE  \/ attended'.kind = "first" /\ attended'.ids = {}
         \/ Sound(attended'.ids)
<1>1. nblocks \in Nat /\ PrefillTopK \in Nat /\ TopK \in Nat /\ PrefillTopK <= TopK
  BY M12Assumption DEF Stored, HistoryTypes
<1>2. CASE PrefillStep
  <2>1. PICK k, t : PrefillFirst(k, t) \/ PrefillChunk(k, t)
    BY <1>2 DEF PrefillStep
  <2>2. CASE PrefillFirst(k, t)
    BY <2>2 DEF PrefillFirst
  <2>3. CASE PrefillChunk(k, t)
    <3>1. PICK ids \in Select(PrefillTopK) :
            attended' = [kind |-> "chunk", ids |-> ids, cells |-> Packed(ids, k, t)]
      BY <2>3 DEF PrefillChunk
    <3> QED BY <1>1, <3>1, SelectSound
  <2> QED BY <2>1, <2>2, <2>3
<1>3. CASE DecodeStep
  <2>1. PICK row : Decode(row)
    BY <1>3 DEF DecodeStep
  <2>2. PICK ids \in DecodeChoices : attended'.ids = ids
    BY <2>1 DEF Decode
  <2> QED BY <1>1, <2>2, DecodeSound
<1>4. CASE \E n \in 1 .. MaxQueries, lossless \in BOOLEAN : Verify(n, lossless)
  <2>1. PICK n \in 1 .. MaxQueries : \E lossless \in BOOLEAN : Verify(n, lossless)
    BY <1>4
  <2>2. PICK lossless \in BOOLEAN : Verify(n, lossless)
    BY <2>1
  <2>3. PICK k : VerifyTokens(k, n, lossless)
    BY <2>2 DEF Verify
  <2>4. PICK ids \in IF lossless THEN SelectPerQuery(n) ELSE Select(TopK) : attended'.ids = ids
    BY <2>3 DEF VerifyTokens
  <2>5. CASE lossless
    BY <1>1, <2>2, <2>4, <2>5, PerQuerySound DEF Verify
  <2>6. CASE ~lossless
    BY <1>1, <2>4, <2>6, SelectSound
  <2> QED BY <2>5, <2>6
<1> QED BY <1>2, <1>3, <1>4, AttendingSteps

\* For any sizes, masks and captured graphs, under every rule and in every kind
\* of pass, a selection takes no block that the windows stand for if there is
\* any other, and it fits the buffers.
THEOREM SelectionCorrect == SparseSpec => SelectionSound
<1>1. ASSUME IInv, Stored, cfg \in Configs, SparseNext, Attends
      PROVE  /\ attended'.kind # "first" /\ Available > 0 =>
                  attended'.ids \subseteq (0 .. nblocks - 1) \ protected
             /\ Cardinality(attended'.ids) <= SelBudget
  <2>1. CASE attended'.kind = "first" /\ attended'.ids = {}
    BY <2>1, BudgetIs, FS_EmptySet
  <2>2. CASE Sound(attended'.ids)
    BY <2>2 DEF Sound
  <2> QED BY <1>1, <2>1, <2>2, StepSelects DEF Attends
<1>2. IInv /\ Stored /\ cfg \in Configs /\ [SparseNext]_sparseVars =>
        [Attends =>
           /\ attended'.kind # "first" /\ Available > 0 =>
                attended'.ids \subseteq (0 .. nblocks - 1) \ protected
           /\ Cardinality(attended'.ids) <= SelBudget]_sparseVars
  BY <1>1
<1> QED BY <1>2, StoredInvariance, ConfigKept, PTL DEF SparseSpec, SelectionSound

-----------------------------------------------------------------------------
(* What is attended *)

\* Cells of the running request only, and the last tokens among them.
Own(cells) == \A c \in cells : c.row[1] = Running
Reaches(cells) ==
  \A p \in Larger(0, validLen - Recent + 1) .. validLen :
    \E c \in cells : c.row = <<Running, p>>

\* Blocks that are filled to the end.
FullBlocks(ids) == \A b \in ids : b * BlockSize + BlockSize <= prefillLen

LEMMA SelectedOwn ==
  ASSUME IInv, Stored, running # <<>>, pc = "run" \/ cached[Running] > 0, ChunksAligned,
         NEW ids \in SUBSET (0 .. nblocks - 1), FullBlocks(ids),
         NEW b \in ids, NEW i \in 0 .. BlockSize - 1
  PROVE  history[b][i] = <<Running, b * BlockSize + i>>
<1>1. b \in 0 .. nblocks - 1 /\ b \in Nat /\ i \in Nat /\ i < BlockSize
  BY BlockSizeNat DEF Stored, HistoryTypes
<1>2. b * BlockSize \in Nat /\ prefillLen >= b * BlockSize + BlockSize /\ prefillLen \in Nat
  BY <1>1, BlockSizeNat DEF FullBlocks, IInv, Counters, TypeRight
<1>3. b * BlockSize + i < prefillLen => history[b][i] = <<Running, b * BlockSize + i>>
  BY <1>1 DEF Stored, HistoryRight
<1> QED BY <1>1, <1>2, <1>3, BlockSizeNat

\* While the prompt is prefilled in aligned chunks, every block is full.
LEMMA FullWhilePrefilling ==
  ASSUME IInv, Stored, running # <<>>, pc = "run" \/ cached[Running] > 0, ChunksAligned,
         Prefilling(Running)
  PROVE  nblocks * BlockSize = prefillLen /\ FullBlocks(0 .. nblocks - 1)
<1>1. /\ nblocks \in Nat /\ prefillLen \in Nat
  BY DEF Stored, HistoryTypes, IInv, Counters, TypeRight
<1>2. PICK j \in Nat : prefillLen = j * Chunk /\ nblocks = j * BlocksFor(Chunk)
  BY DEF Stored, BlocksRight
<1>3. nblocks * BlockSize = prefillLen
  <2>1. (j * BlocksFor(Chunk)) * BlockSize = j * (BlocksFor(Chunk) * BlockSize)
    BY Products, BlocksForBounds, BlockSizeNat, SizesNat
  <2> QED BY <1>2, <2>1, AlignedBlocks
<1>4. ASSUME NEW b \in 0 .. nblocks - 1 PROVE b * BlockSize + BlockSize <= prefillLen
  <2>1. b + 1 \in Nat /\ nblocks \in Nat /\ BlockSize \in Nat /\ b + 1 <= nblocks
    BY <1>1, BlockSizeNat
  <2>2. (b + 1) * BlockSize <= nblocks * BlockSize
    BY ONLY <2>1, Products
  <2>3. b \in Nat /\ (b + 1) * BlockSize = b * BlockSize + BlockSize
    BY <2>1, Products
  <2> QED BY <1>3, <2>2, <2>3
<1> QED BY <1>3, <1>4 DEF FullBlocks

\* Afterwards the last block may be padded, but it is protected.
LEMMA FullAfterPrompt ==
  ASSUME IInv, Stored, running # <<>>, cached[Running] > 0, ChunksAligned,
         ~Prefilling(Running), PaddingProtected,
         NEW ids \in SUBSET ((0 .. nblocks - 1) \ protected)
  PROVE  FullBlocks(ids)
<1>1. /\ nblocks \in Nat /\ prefillLen \in Nat /\ prompt[Running] \in Nat
      /\ prefillLen = prompt[Running] /\ nblocks = BlocksFor(prompt[Running])
  BY RunningType DEF Stored, HistoryTypes, BlocksRight, IInv, Counters, TypeRight
<1>2. nblocks * BlockSize < prefillLen + BlockSize
  BY <1>1, BlocksForBounds
<1> SUFFICES ASSUME NEW b \in ids PROVE b * BlockSize + BlockSize <= prefillLen
  BY DEF FullBlocks
<1>3. b \in 0 .. nblocks - 1 /\ b \notin protected /\ nblocks > 0
  BY <1>1
<1>4. b + 2 <= nblocks
  <2>1. nblocks - 1 \in ProtectedTail(nblocks)
    <3>1. Recent \div BlockSize \in Nat /\ Recent \div BlockSize >= 1
      BY BlockSizeNat, SizesNat DEF PaddingProtected
    <3> QED BY <1>1, <1>3, <3>1 DEF ProtectedTail, Larger
  <2>2. nblocks - 1 \in protected
    BY <1>3, <2>1 DEF Stored, HistoryTypes
  <2> QED BY <1>1, <1>3, <2>2
<1>5. b \in Nat /\ b + 2 \in Nat /\ nblocks \in Nat /\ BlockSize \in Nat /\ b + 2 <= nblocks
  BY <1>1, <1>3, <1>4, BlockSizeNat
<1>6. (b + 2) * BlockSize <= nblocks * BlockSize
  BY ONLY <1>5, Products
<1>7. (b + 2) * BlockSize = b * BlockSize + 2 * BlockSize /\ b * BlockSize \in Nat
  BY <1>5, Products
<1> QED BY <1>1, <1>2, <1>5, <1>6, <1>7

\* A chunk or a verification pass attends to the request only: selected blocks,
\* the windows without overlap, and its own tokens.
LEMMA PackedOwn ==
  ASSUME IInv, Stored, running # <<>>, pc = "run" \/ cached[Running] > 0, ChunksAligned,
         FillsWindows(Running), validLen > 0,
         NEW ids \in SUBSET (0 .. nblocks - 1), FullBlocks(ids),
         NEW t \in Nat, t > 0, NEW k, k = Rows(Running, validLen, t)
  PROVE  Own(Packed(ids, k, t)) /\ Reaches(Packed(ids, k, t))
<1> DEFINE sinkLen == Smaller(Sink, validLen)
           start == validLen - Smaller(Recent, validLen)
           first == Larger(sinkLen, start)
<1>1. /\ validLen \in Nat /\ prompt[Running] \in Nat /\ cached[Running] \in Nat
      /\ FirstChunk(Running) >= Sink /\ FirstChunk(Running) \in Nat
  BY RunningType, SizesNat DEF IInv, Counters, TypeRight, FillsWindows, FirstChunk, Smaller
<1>2. /\ sinkLen \in Nat /\ start \in Nat /\ first \in Nat
      /\ start <= first /\ sinkLen <= first /\ first <= validLen /\ sinkLen <= Sink
      /\ first = sinkLen \/ first = start
      /\ start = 0 \/ start = validLen - Recent
  BY <1>1, SizesNat DEF Smaller, Larger
<1>3. ASSUME NEW n \in start .. validLen - 1
      PROVE  recent[n - start] = <<Running, n>>
  <2>1. n - start \in 0 .. Smaller(Recent, validLen) - 1
    BY <1>1, <1>2, SizesNat DEF Smaller
  <2>2. \A m \in 0 .. Smaller(Recent, validLen) - 1 : recent[m] = <<Running, start + m>>
    BY WindowsFollow DEF WindowsRight
  <2>3. recent[n - start] = <<Running, start + (n - start)>>
    BY <2>1, <2>2
  <2> QED BY <1>1, <1>2, <2>3
<1>4. ASSUME NEW n \in 0 .. sinkLen - 1
      PROVE  sink[n] = <<Running, n>>
  <2>1. FirstChunk(Running) >= Smaller(Sink, prompt[Running])
    BY <1>1, SizesNat DEF Smaller
  <2> QED BY <2>1, WindowsFollow DEF WindowsRight
<1>5. ASSUME NEW i \in 0 .. t - 1 PROVE k[i] = <<Running, validLen + i>>
  BY DEF Rows
<1> HIDE DEF sinkLen, start, first
<1>6. /\ SinkRows = Part("sink", sink, 0, sinkLen)
      /\ RecentSlice = Part("recent", recent, first - start, validLen - first)
  BY DEF SinkRows, RecentSlice, sinkLen, start, first
<1>7. ASSUME NEW c \in Packed(ids, k, t) PROVE c.row[1] = Running
  <2>1. CASE c \in SelectedRows(ids)
    <3>1. PICK b \in ids, i \in 0 .. BlockSize - 1 : c.row = history[b][i]
      BY <2>1 DEF SelectedRows, Cell
    <3>2. history[b][i] = <<Running, b * BlockSize + i>>
      BY SelectedOwn
    <3> QED BY <3>1, <3>2
  <2>2. CASE c \in SinkRows
    <3>1. PICK i \in 0 .. 0 + sinkLen - 1 : c.row = sink[i]
      BY <1>6, <2>2 DEF Part, Cell
    <3> QED BY <1>2, <1>4, <3>1
  <2>3. CASE c \in RecentSlice
    <3>1. PICK i \in first - start .. (first - start) + (validLen - first) - 1 : c.row = recent[i]
      BY <1>6, <2>3 DEF Part, Cell
    <3>2. i + start \in start .. validLen - 1 /\ (i + start) - start = i
      BY <1>1, <1>2
    <3>3. recent[(i + start) - start] = <<Running, i + start>>
      BY <1>3, <3>2
    <3> QED BY <3>1, <3>2, <3>3
  <2>4. CASE c \in ChunkRows(k, t)
    <3>1. PICK i \in 0 .. 0 + t - 1 : c.row = k[i]
      BY <2>4 DEF ChunkRows, Part, Cell
    <3> QED BY <1>5, <3>1
  <2> QED BY <2>1, <2>2, <2>3, <2>4 DEF Packed
<1>8. ASSUME NEW p \in Larger(0, validLen - Recent + 1) .. validLen
      PROVE  \E c \in Packed(ids, k, t) : c.row = <<Running, p>>
  <2>0. p \in Nat /\ p >= start /\ p <= validLen
    BY <1>1, <1>2, SizesNat DEF Larger
  <2>1. CASE p = validLen
    <3>1. Cell("chunk", 0, k[0]) \in ChunkRows(k, t)
      BY DEF ChunkRows, Part
    <3>2. k[0] = <<Running, validLen + 0>>
      BY <1>5
    <3>3. Cell("chunk", 0, k[0]).row = <<Running, p>>
      BY <1>1, <2>1, <3>2 DEF Cell
    <3> QED BY <3>1, <3>3 DEF Packed
  <2>2. CASE p < sinkLen
    <3>1. Cell("sink", p, sink[p]) \in SinkRows
      BY <1>2, <1>6, <2>0, <2>2 DEF Part
    <3>2. Cell("sink", p, sink[p]).row = <<Running, p>>
      BY <1>2, <1>4, <2>0, <2>2 DEF Cell
    <3> QED BY <3>1, <3>2 DEF Packed
  <2>3. CASE p >= sinkLen /\ p < validLen
    <3>1. p - start \in first - start .. (first - start) + (validLen - first) - 1
      BY <1>1, <1>2, <2>0, <2>3
    <3>2. Cell("recent", p - start, recent[p - start]) \in RecentSlice
      BY <1>6, <3>1 DEF Part
    <3>3. Cell("recent", p - start, recent[p - start]).row = <<Running, p>>
      BY <1>1, <1>2, <1>3, <2>0, <2>3 DEF Cell
    <3> QED BY <3>2, <3>3 DEF Packed
  <2> QED BY <1>1, <1>2, <2>0, <2>1, <2>2, <2>3
<1> QED BY <1>7, <1>8 DEF Own, Reaches

\* A decode attends to the request only; its token is the last of the window.
LEMMA DecodeOwn ==
  ASSUME IInv, Stored, DecodeStep, ChunksAligned, FillsWindows(Running),
         PaddingProtected, Available > 0, cfg \in Configs
  PROVE  Own(attended'.cells) /\ Reaches(attended'.cells)
<1>0. PICK r \in Requests : r = Running
  BY StepFacts DEF DecodeStep
<1>1. /\ running # <<>> /\ pc = "run" /\ prompt[r] \in Nat /\ cached[r] \in Nat
      /\ cached[r] >= prompt[r] /\ prompt[r] > 0 /\ validLen \in Nat
      /\ validLen = cached[r] /\ tokens[r] = cached[r] + 1 /\ ~Prefilling(r)
  <2>1. pc = "run" /\ ~Prefilling(Running)
    BY DEF DecodeStep
  <2>2. running # <<>>
    BY <2>1 DEF IInv, Counters, QueuesRight
  <2>3. /\ prompt[r] \in Nat /\ prompt[r] > 0 /\ cached[r] \in Nat /\ validLen \in Nat
        /\ validLen = cached[r] /\ tokens[r] = cached[r] + 1
    BY <1>0, <2>1, StepFacts
  <2>4. cached[r] >= prompt[r]
    BY <1>0, <2>1, <2>3 DEF Prefilling
  <2> QED BY <1>0, <2>1, <2>2, <2>3, <2>4
<1>2. nblocks \in Nat /\ prompt[r] >= Recent /\ FirstChunk(r) >= Sink /\ FirstChunk(r) \in Nat
  BY <1>0, <1>1, SizesNat DEF Stored, HistoryTypes, FillsWindows, FirstChunk, Smaller
<1> DEFINE shifted == [i \in 0 .. Recent - 1 |->
                         IF i < Recent - 1 THEN recent[i + 1] ELSE <<r, tokens[r] - 1>>]
           len == Smaller(Recent, validLen + 1)
<1>3. PICK ids \in DecodeChoices :
        attended' = [kind |-> "decode", ids |-> ids,
                     cells |-> SelectedRows(ids) \cup SinkRows
                                 \cup Part("recent", shifted, Recent - len, len)]
  BY <1>0 DEF DecodeStep, Decode
<1>4. ids \in SUBSET ((0 .. nblocks - 1) \ protected)
  BY <1>2, DecodeSound DEF Sound
<1>5. ids \in SUBSET (0 .. nblocks - 1) /\ FullBlocks(ids)
  BY <1>0, <1>1, <1>4, FullAfterPrompt
<1>6. len = Recent /\ Recent - len = 0
  BY <1>1, <1>2, SizesNat DEF Smaller
<1>7. ASSUME NEW i \in 0 .. Recent - 1
      PROVE  shifted[i] = <<r, (validLen - Recent) + 1 + i>>
  <2>1. CASE i < Recent - 1
    <3>1. i + 1 \in 0 .. Smaller(Recent, validLen) - 1 /\ Smaller(Recent, validLen) = Recent
      BY <1>1, <1>2, <2>1, SizesNat DEF Smaller
    <3>2. recent[i + 1] = <<r, (validLen - Recent) + (i + 1)>>
      BY <1>0, <1>1, <3>1, WindowsFollow DEF WindowsRight
    <3>3. (validLen - Recent) + (i + 1) = (validLen - Recent) + 1 + i
      BY <1>1, SizesNat
    <3> QED BY <2>1, <3>2, <3>3
  <2>2. CASE i = Recent - 1
    <3>1. tokens[r] - 1 = (validLen - Recent) + 1 + i
      BY <1>1, <2>2, SizesNat
    <3> QED BY <2>2, <3>1
  <2> QED BY <2>1, <2>2, SizesNat
<1>8. ASSUME NEW n \in 0 .. Smaller(Sink, validLen) - 1
      PROVE  sink[n] = <<r, n>>
  <2>1. FirstChunk(r) >= Smaller(Sink, prompt[r])
    BY <1>1, <1>2, SizesNat DEF Smaller
  <2> QED BY <1>0, <1>1, <2>1, WindowsFollow DEF WindowsRight
<1> HIDE DEF shifted, len
<1>9. ASSUME NEW c \in attended'.cells PROVE c.row[1] = r
  <2>1. CASE c \in SelectedRows(ids)
    <3>1. PICK b \in ids, i \in 0 .. BlockSize - 1 : c.row = history[b][i]
      BY <2>1 DEF SelectedRows, Cell
    <3>2. history[b][i] = <<r, b * BlockSize + i>>
      BY <1>0, <1>1, <1>5, SelectedOwn
    <3> QED BY <3>1, <3>2
  <2>2. CASE c \in SinkRows
    <3>1. PICK i \in 0 .. 0 + Smaller(Sink, validLen) - 1 : c.row = sink[i]
      BY <2>2 DEF SinkRows, Part, Cell
    <3>2. i \in 0 .. Smaller(Sink, validLen) - 1
      BY <1>1, <3>1, SizesNat DEF Smaller
    <3> QED BY <1>8, <3>1, <3>2
  <2>3. CASE c \in Part("recent", shifted, Recent - len, len)
    <3>1. PICK i \in 0 .. 0 + Recent - 1 : c.row = shifted[i]
      BY <1>6, <2>3 DEF Part, Cell
    <3>2. i \in 0 .. Recent - 1
      BY <3>1, SizesNat
    <3> QED BY <1>7, <3>1, <3>2
  <2> QED BY <1>3, <2>1, <2>2, <2>3
<1>10. ASSUME NEW p \in Larger(0, validLen - Recent + 1) .. validLen
       PROVE  \E c \in attended'.cells : c.row = <<r, p>>
  <2> DEFINE i == p - ((validLen - Recent) + 1)
  <2>1. i \in 0 .. 0 + Recent - 1 /\ i \in 0 .. Recent - 1 /\ (validLen - Recent) + 1 + i = p
    <3>1. Larger(0, validLen - Recent + 1) = (validLen - Recent) + 1
      BY <1>1, <1>2, SizesNat DEF Larger
    <3>2. p \in Int /\ p >= (validLen - Recent) + 1 /\ p <= validLen
      BY <1>1, <3>1, SizesNat
    <3> QED BY <1>1, <3>2, SizesNat
  <2>2. Cell("recent", i, shifted[i]) \in Part("recent", shifted, Recent - len, len)
    BY <1>6, <2>1 DEF Part
  <2>3. Cell("recent", i, shifted[i]).row = <<r, p>>
    BY <1>7, <2>1 DEF Cell
  <2> QED BY <1>3, <2>2, <2>3
<1> QED BY <1>0, <1>9, <1>10 DEF Own, Reaches

\* The first chunk attends to itself, which begins with the first token.
LEMMA FirstOwn ==
  ASSUME validLen = 0, NEW t \in Nat, t > 0, NEW k, k = Rows(Running, 0, t)
  PROVE  Own(ChunkRows(k, t)) /\ Reaches(ChunkRows(k, t))
<1>1. ASSUME NEW c \in ChunkRows(k, t) PROVE c.row[1] = Running
  <2>1. PICK i \in 0 .. 0 + t - 1 : c.row = k[i]
    BY DEF ChunkRows, Part, Cell
  <2> QED BY <2>1 DEF Rows
<1>2. ASSUME NEW p \in Larger(0, validLen - Recent + 1) .. validLen
      PROVE  \E c \in ChunkRows(k, t) : c.row = <<Running, p>>
  <2>1. p = 0
    BY SizesNat DEF Larger
  <2>2. Cell("chunk", 0, k[0]) \in ChunkRows(k, t)
    BY DEF ChunkRows, Part
  <2>3. Cell("chunk", 0, k[0]).row = <<Running, 0>>
    BY DEF Cell, Rows
  <2> QED BY <2>1, <2>2, <2>3
<1> QED BY <1>1, <1>2 DEF Own, Reaches

LEMMA StepAttendsOwn ==
  ASSUME IInv, Stored, cfg \in Configs, SparseNext, attended' # attended,
         FillsWindows(Running), ChunksAligned,
         attended'.kind \in {"first", "chunk"} \/ (PaddingProtected /\ Available > 0)
  PROVE  Own(attended'.cells) /\ Reaches(attended'.cells)
<1>1. CASE PrefillStep
  <2>1. /\ Running \in Requests /\ running # <<>> /\ pc = "run" /\ scheduled \in Nat
        /\ prompt[Running] \in Nat /\ cached[Running] \in Nat /\ validLen \in Nat
        /\ Prefilling(Running) /\ validLen = cached[Running] /\ prefillLen = cached[Running]
        /\ scheduled = NextChunk(Running)
    <3>1. pc = "run" /\ Prefilling(Running)
      BY <1>1 DEF PrefillStep
    <3>2. running # <<>>
      BY <3>1 DEF IInv, Counters, QueuesRight
    <3> QED BY <3>1, <3>2, StepFacts
  <2>2. scheduled > 0
    BY <2>1, SizesNat DEF NextChunk, Smaller, Prefilling
  <2>3. PICK k : k = Rows(Running, validLen, scheduled) /\
          (PrefillFirst(k, scheduled) \/ PrefillChunk(k, scheduled))
    BY <1>1, <2>1 DEF PrefillStep
  <2>4. CASE PrefillFirst(k, scheduled)
    <3>1. validLen = 0 /\ attended'.cells = ChunkRows(k, scheduled)
      BY <2>1, <2>4 DEF PrefillFirst
    <3> QED BY <2>1, <2>2, <2>3, <3>1, FirstOwn
  <2>5. CASE PrefillChunk(k, scheduled)
    <3>1. PICK ids \in Select(PrefillTopK) : attended'.cells = Packed(ids, k, scheduled)
      BY <2>5 DEF PrefillChunk
    <3>2. validLen > 0
      BY <2>1, <2>5 DEF PrefillChunk
    <3>3. ids \in SUBSET (0 .. nblocks - 1)
      BY <3>1, SelectSound, M12Assumption DEF Sound, Stored, HistoryTypes
    <3>4. FullBlocks(ids)
      BY <2>1, <3>3, FullWhilePrefilling DEF FullBlocks
    <3> QED BY <2>1, <2>2, <2>3, <3>1, <3>2, <3>3, <3>4, PackedOwn
  <2> QED BY <2>3, <2>4, <2>5
<1>2. CASE DecodeStep
  <2>1. attended'.kind = "decode"
    BY <1>2 DEF DecodeStep, Decode
  <2> QED BY <1>2, <2>1, DecodeOwn
<1>3. ASSUME NEW n \in 1 .. MaxQueries, NEW lossless \in BOOLEAN, Verify(n, lossless)
      PROVE  Own(attended'.cells) /\ Reaches(attended'.cells)
  <2>1. running # <<>> /\ ~Prefilling(Running) /\ n \in Nat /\ n > 0
    BY <1>3, SparseAssumption DEF Verify
  <2>2. /\ Running \in Requests /\ prompt[Running] \in Nat /\ prompt[Running] > 0
        /\ cached[Running] \in Nat /\ validLen \in Nat
    BY <2>1, RunningType DEF IInv, Counters, QueuesRight, TypeRight
  <2>3. cached[Running] > 0 /\ cached[Running] >= prompt[Running]
    BY <2>1, <2>2 DEF Prefilling
  <2>4. validLen = tokens[Running] - 1 /\ tokens[Running] = cached[Running] + 1
    BY <2>1, <2>2, <2>3 DEF IInv, Counters, LengthsAgree, CountsRight
  <2>5. validLen > 0
    BY <2>2, <2>3, <2>4
  <2>6. PICK k : k = Rows(Running, validLen, n) /\ VerifyTokens(k, n, lossless)
    BY <1>3, <2>4 DEF Verify
  <2>7. PICK ids : attended' = [kind |-> "verify", ids |-> ids, cells |-> Packed(ids, k, n)]
    BY <2>6 DEF VerifyTokens
  <2>8. PaddingProtected /\ Available > 0
    BY <2>7
  <2>9. ids \in SUBSET ((0 .. nblocks - 1) \ protected)
    BY <2>7, <2>8, StepSelects DEF Sound
  <2>10. ids \in SUBSET (0 .. nblocks - 1) /\ FullBlocks(ids)
    BY <2>1, <2>3, <2>8, <2>9, FullAfterPrompt
  <2> QED BY <2>1, <2>3, <2>5, <2>6, <2>7, <2>10, PackedOwn
<1> QED BY <1>1, <1>2, <1>3, AttendingSteps

\* No attention step of the sparse engine reads padding or a row of another
\* request, and none misses the last tokens, for any sizes, chunks, prompts that
\* fill the windows, selectors and rules.
THEOREM AttentionCorrect == SparseSpec => AttendsOwnTokens
<1>1. ASSUME IInv, Stored, cfg \in Configs, SparseNext,
             Attends, FillsWindows(Running), ChunksAligned,
             attended'.kind \in {"first", "chunk"} \/ (PaddingProtected /\ Available > 0),
             NEW rows, rows = {c.row : c \in attended'.cells}
      PROVE  /\ \A row \in rows : row[1] = Running
             /\ {<<Running, p>> : p \in Larger(0, validLen - Recent + 1) .. validLen}
                  \subseteq rows
  <2>1. Own(attended'.cells) /\ Reaches(attended'.cells)
    BY <1>1, StepAttendsOwn DEF Attends
  <2> QED BY <1>1, <2>1 DEF Own, Reaches
<1>2. IInv /\ Stored /\ cfg \in Configs /\ [SparseNext]_sparseVars =>
        [Attends /\ FillsWindows(Running) /\ ChunksAligned
           /\ (attended'.kind \in {"first", "chunk"} \/ (PaddingProtected /\ Available > 0)) =>
           LET rows == {c.row : c \in attended'.cells}
           IN  /\ \A row \in rows : row[1] = Running
               /\ {<<Running, p>> : p \in Larger(0, validLen - Recent + 1) .. validLen}
                    \subseteq rows]_sparseVars
  BY <1>1
<1> QED BY <1>2, StoredInvariance, ConfigKept, PTL DEF SparseSpec, AttendsOwnTokens

\* What ChunkCoversHistory says of the cells of a chunk.
Covers(cells, ids) ==
  LET seen == {c.row : c \in cells}
  IN  /\ Cardinality(seen) = Cardinality(cells)
      /\ \A p \in 0 .. validLen - 1 :
           \/ <<Running, p>> \in seen
           \/ p \div BlockSize \in (0 .. nblocks - 1) \ (protected \cup ids)

\* A chunk attends to each earlier token of its request at most once, and leaves
\* out only the blocks that could have been selected.
LEMMA ChunkCovers ==
  ASSUME IInv, Stored, running # <<>>, pc = "run", ChunksAligned, Prefilling(Running),
         Sink = BlockSize, Recent % BlockSize = 0, Chunk >= Sink, validLen > 0,
         validLen = cached[Running], prefillLen = cached[Running],
         NEW ids \in SUBSET ((0 .. nblocks - 1) \ protected),
         NEW t \in Nat, t > 0, NEW k, k = Rows(Running, validLen, t),
         NEW cells, cells = Packed(ids, k, t)
  PROVE  Covers(cells, ids)
<1> SUFFICES ASSUME NEW seen, seen = {c.row : c \in cells}
             PROVE  /\ Cardinality(seen) = Cardinality(cells)
                    /\ \A p \in 0 .. validLen - 1 :
                         \/ <<Running, p>> \in seen
                         \/ p \div BlockSize \in (0 .. nblocks - 1) \ (protected \cup ids)
  BY DEF Covers
<1> DEFINE sinkLen == Smaller(Sink, validLen)
           start == validLen - Smaller(Recent, validLen)
           first == Larger(sinkLen, start)
<1>1. /\ validLen \in Nat /\ prompt[Running] \in Nat /\ nblocks \in Nat
      /\ validLen <= prompt[Running] /\ FirstChunk(Running) >= Smaller(Sink, prompt[Running])
  BY RunningType, SizesNat
  DEF IInv, Counters, TypeRight, Stored, HistoryTypes, FirstChunk, Smaller, Prefilling
<1>2. nblocks * BlockSize = validLen /\ FullBlocks(0 .. nblocks - 1)
  BY FullWhilePrefilling
<1>3. nblocks >= 1 /\ validLen >= BlockSize /\ sinkLen = Sink
  <2>1. nblocks # 0
    BY <1>1, <1>2, BlockSizeNat
  <2>2. 1 * BlockSize <= nblocks * BlockSize
    BY <1>1, <2>1, BlockSizeNat, Products
  <2> QED BY <1>1, <1>2, <2>1, <2>2, BlockSizeNat DEF Smaller
<1>4. /\ start \in Nat /\ first \in Nat /\ start <= first /\ Sink <= first /\ first <= validLen
      /\ first = Sink \/ first = start
      /\ start = 0 \/ start = validLen - Recent
  BY <1>1, <1>3, SizesNat, BlockSizeNat DEF Smaller, Larger
<1>5. ASSUME NEW n \in start .. validLen - 1
      PROVE  recent[n - start] = <<Running, n>>
  <2>1. n - start \in 0 .. Smaller(Recent, validLen) - 1
    BY <1>1, <1>4, SizesNat DEF Smaller
  <2>2. \A m \in 0 .. Smaller(Recent, validLen) - 1 : recent[m] = <<Running, start + m>>
    BY <1>1, WindowsFollow DEF WindowsRight
  <2>3. recent[n - start] = <<Running, start + (n - start)>>
    BY <2>1, <2>2
  <2> QED BY <1>1, <1>4, <2>3
<1>6. ASSUME NEW n \in 0 .. Sink - 1
      PROVE  sink[n] = <<Running, n>>
  BY <1>1, <1>3, WindowsFollow DEF WindowsRight
<1>7. ASSUME NEW i \in 0 .. t - 1 PROVE k[i] = <<Running, validLen + i>>
  BY DEF Rows
\* Blocks that are not protected lie between the sink and the recent window.
<1>8. ASSUME NEW b \in 0 .. nblocks - 1
      PROVE  b \notin protected <=> b >= 1 /\ b * BlockSize + BlockSize <= validLen - Recent
  <2>1. PICK m \in Nat : Recent = m * BlockSize /\ Recent \div BlockSize = m
    BY BlockSizeNat, SizesNat, Multiple
  <2>2. b \notin protected <=> b >= 1 /\ b < nblocks - m
    BY <1>1, <1>3, <2>1, SizesNat DEF Stored, HistoryTypes, ProtectedTail, Larger
  <2>3. b \in Nat /\ m \in Nat /\ b + 1 \in Nat /\ BlockSize \in Nat /\ b + 1 + m \in Nat
        /\ nblocks \in Nat
    BY <1>1, <2>1, BlockSizeNat
  <2>4. (b + 1 + m) * BlockSize = b * BlockSize + BlockSize + m * BlockSize
    BY <2>3
  <2>5. b + 1 + m <= nblocks <=> (b + 1 + m) * BlockSize <= nblocks * BlockSize
    BY ONLY <2>3, BlockSizeNat, ProductOrder
  <2>6. b * BlockSize \in Nat /\ m * BlockSize \in Nat
    BY <2>3, Products
  <2>9. b + 1 + m <= nblocks <=> b * BlockSize + BlockSize <= validLen - Recent
    BY ONLY <1>1, <1>2, <2>1, <2>3, <2>4, <2>5, <2>6
  <2>10. b < nblocks - m <=> b + 1 + m <= nblocks
    BY <2>3
  <2> QED BY <2>2, <2>9, <2>10
<1> HIDE DEF sinkLen, start, first
<1>9. /\ SinkRows = Part("sink", sink, 0, Sink)
      /\ RecentSlice = Part("recent", recent, first - start, validLen - first)
  BY <1>3 DEF SinkRows, RecentSlice, sinkLen, start, first
\* What each part holds, and where.
<1>10. ASSUME NEW c \in SelectedRows(ids)
       PROVE  /\ c = Cell("history", c.at, <<Running, c.at>>)
              /\ c.at \in Nat /\ Sink <= c.at /\ c.at < start
  <2>1. PICK b \in ids, i \in 0 .. BlockSize - 1 :
          c = Cell("history", b * BlockSize + i, history[b][i])
    BY DEF SelectedRows
  <2>2. ids \in SUBSET (0 .. nblocks - 1) /\ FullBlocks(ids)
    BY <1>2 DEF FullBlocks
  <2>3. history[b][i] = <<Running, b * BlockSize + i>>
    BY <2>2, SelectedOwn
  <2>4. b \in 0 .. nblocks - 1 /\ b >= 1 /\ b * BlockSize + BlockSize <= validLen - Recent
    BY <1>8
  <2>5. b \in Nat /\ 1 * BlockSize <= b * BlockSize /\ b * BlockSize \in Nat
    BY <1>1, <2>4, BlockSizeNat, Products
  <2>6. start = validLen - Recent
    BY <1>1, <2>4, <2>5, SizesNat, BlockSizeNat DEF start, Smaller
  <2>7. c.at = b * BlockSize + i
    BY <2>1 DEF Cell
  <2>8. i \in Nat /\ i < BlockSize
    BY BlockSizeNat
  <2>9. c.at \in Nat /\ Sink <= c.at /\ c.at < start
    BY ONLY <1>1, <2>4, <2>5, <2>6, <2>7, <2>8, SizesNat, BlockSizeNat, Sink = BlockSize
  <2> QED BY <2>1, <2>3, <2>7, <2>9
<1>11. ASSUME NEW c \in SinkRows
       PROVE  c = Cell("sink", c.at, <<Running, c.at>>) /\ c.at \in Nat /\ c.at < Sink
  <2>1. PICK i \in 0 .. 0 + Sink - 1 : c = Cell("sink", i, sink[i])
    BY <1>9 DEF Part
  <2>2. c.at = i /\ i \in 0 .. Sink - 1
    BY <2>1, SizesNat DEF Cell
  <2> QED BY <1>6, <2>1, <2>2, SizesNat
<1>12. ASSUME NEW c \in RecentSlice
       PROVE  /\ c = Cell("recent", c.at, <<Running, start + c.at>>) /\ c.at \in Nat
              /\ first <= start + c.at /\ start + c.at < validLen
  <2>1. PICK i \in first - start .. (first - start) + (validLen - first) - 1 :
          c = Cell("recent", i, recent[i])
    BY <1>9 DEF Part
  <2>2. c.at = i /\ i \in Nat /\ first <= start + i /\ start + i < validLen
    BY <1>1, <1>4, <2>1 DEF Cell
  <2>3. start + i \in start .. validLen - 1 /\ (start + i) - start = i
    BY <1>1, <1>4, <2>2
  <2>4. recent[i] = <<Running, start + i>>
    BY <1>5, <2>3
  <2> QED BY <2>1, <2>2, <2>4
<1>13. ASSUME NEW c \in ChunkRows(k, t)
       PROVE  c = Cell("chunk", c.at, <<Running, validLen + c.at>>) /\ c.at \in Nat /\ c.at < t
  <2>1. PICK i \in 0 .. 0 + t - 1 : c = Cell("chunk", i, k[i])
    BY DEF ChunkRows, Part
  <2>2. c.at = i /\ i \in 0 .. t - 1
    BY <2>1 DEF Cell
  <2> QED BY <1>7, <2>1, <2>2
\* So a cell is found by the position of its row.
<1>14. \A c \in cells :
         \/ /\ c = Cell("history", c.at, <<Running, c.at>>)
            /\ c.at \in Nat /\ Sink <= c.at /\ c.at < start
         \/ c = Cell("sink", c.at, <<Running, c.at>>) /\ c.at \in Nat /\ c.at < Sink
         \/ /\ c = Cell("recent", c.at, <<Running, start + c.at>>) /\ c.at \in Nat
            /\ first <= start + c.at /\ start + c.at < validLen
         \/ c = Cell("chunk", c.at, <<Running, validLen + c.at>>) /\ c.at \in Nat /\ c.at < t
  BY <1>10, <1>11, <1>12, <1>13 DEF Packed
<1>15. ASSUME NEW c \in cells
       PROVE  c.row = <<Running, c.row[2]>> /\ c.row[2] \in 0 .. validLen + t - 1
  <2>1. CASE c = Cell("history", c.at, <<Running, c.at>>) /\ c.at \in Nat /\ c.at < start
    <3>1. c.row = <<Running, c.at>>
      BY <2>1 DEF Cell
    <3> QED BY <1>1, <1>4, <2>1, <3>1
  <2>2. CASE c = Cell("sink", c.at, <<Running, c.at>>) /\ c.at \in Nat /\ c.at < Sink
    <3>1. c.row = <<Running, c.at>>
      BY <2>2 DEF Cell
    <3> QED BY <1>1, <1>4, <2>2, <3>1, SizesNat
  <2>3. CASE /\ c = Cell("recent", c.at, <<Running, start + c.at>>) /\ c.at \in Nat
             /\ start + c.at < validLen
    <3>1. c.row = <<Running, start + c.at>>
      BY <2>3 DEF Cell
    <3> QED BY <1>1, <1>4, <2>3, <3>1
  <2>4. CASE c = Cell("chunk", c.at, <<Running, validLen + c.at>>) /\ c.at \in Nat /\ c.at < t
    <3>1. c.row = <<Running, validLen + c.at>>
      BY <2>4 DEF Cell
    <3> QED BY <1>1, <2>4, <3>1
  <2> QED BY <1>14, <2>1, <2>2, <2>3, <2>4
<1>16. ASSUME NEW c \in cells, NEW d \in cells, c.row[2] = d.row[2]
       PROVE  c = d
  <2> DEFINE n == c.row[2]
  <2>0. c.row[2] = n /\ d.row[2] = n
    BY <1>16
  <2> HIDE DEF n
  <2>1. ASSUME NEW e \in cells, e.row[2] = n
        PROVE  e = IF n < Sink THEN Cell("sink", n, <<Running, n>>)
                   ELSE IF n < start THEN Cell("history", n, <<Running, n>>)
                   ELSE IF n < validLen THEN Cell("recent", n - start, <<Running, n>>)
                   ELSE Cell("chunk", n - validLen, <<Running, n>>)
    <3>1. CASE /\ e = Cell("history", e.at, <<Running, e.at>>)
               /\ e.at \in Nat /\ Sink <= e.at /\ e.at < start
      <4>1. n = e.at
        BY <2>1, <3>1 DEF Cell
      <4> QED BY <3>1, <4>1, SizesNat
    <3>2. CASE e = Cell("sink", e.at, <<Running, e.at>>) /\ e.at \in Nat /\ e.at < Sink
      <4>1. n = e.at
        BY <2>1, <3>2 DEF Cell
      <4> QED BY <3>2, <4>1
    <3>3. CASE /\ e = Cell("recent", e.at, <<Running, start + e.at>>) /\ e.at \in Nat
               /\ first <= start + e.at /\ start + e.at < validLen
      <4>1. n = start + e.at
        BY <2>1, <3>3 DEF Cell
      <4>2. n - start = e.at /\ ~(n < Sink) /\ ~(n < start) /\ n < validLen
        BY <1>1, <1>4, <3>3, <4>1, SizesNat
      <4> QED BY <3>3, <4>1, <4>2
    <3>4. CASE e = Cell("chunk", e.at, <<Running, validLen + e.at>>) /\ e.at \in Nat /\ e.at < t
      <4>1. n = validLen + e.at
        BY <2>1, <3>4 DEF Cell
      <4>2. n - validLen = e.at /\ ~(n < Sink) /\ ~(n < start) /\ ~(n < validLen)
        BY <1>1, <1>4, <3>4, <4>1, SizesNat
      <4> QED BY <3>4, <4>1, <4>2
    <3> QED BY <1>14, <3>1, <3>2, <3>3, <3>4
  <2> QED BY <2>0, <2>1
<1>17. Cardinality(seen) = Cardinality(cells)
  <2> DEFINE f == [c \in cells |-> c.row[2]]
             g == [c \in cells |-> c.row]
  <2>1. f \in Injection(cells, 0 .. validLen + t - 1)
    BY <1>15, <1>16 DEF Injection, IsInjective
  <2>2. IsFiniteSet(cells)
    <3>1. validLen + t - 1 \in Int /\ 0 \in Int
      BY <1>1
    <3>2. IsFiniteSet(0 .. validLen + t - 1)
      BY <3>1, FS_Interval
    <3> QED BY <2>1, <3>2, FS_Injection
  <2>3. g \in Bijection(cells, seen)
    <3>1. \A c, d \in cells : g[c] = g[d] => c = d
      BY <1>16
    <3>2. g \in [cells -> seen] /\ \A x \in seen : \E c \in cells : g[c] = x
      OBVIOUS
    <3> QED BY <3>1, <3>2 DEF Bijection, Injection, Surjection, IsInjective
  <2> QED BY <2>2, <2>3, FS_Bijection DEF ExistsBijection
<1>18. ASSUME NEW p \in 0 .. validLen - 1
       PROVE  \/ <<Running, p>> \in seen
              \/ p \div BlockSize \in (0 .. nblocks - 1) \ (protected \cup ids)
  <2>1. CASE p < Sink
    <3>1. Cell("sink", p, sink[p]) \in SinkRows /\ p \in 0 .. Sink - 1
      BY <1>9, <2>1, SizesNat DEF Part
    <3>2. Cell("sink", p, sink[p]) \in cells /\ Cell("sink", p, sink[p]).row = <<Running, p>>
      BY <1>6, <3>1 DEF Cell, Packed
    <3> QED BY <3>2
  <2>2. CASE p >= Sink /\ p >= start
    <3> DEFINE c == Cell("recent", p - start, recent[p - start])
    <3>1. p - start \in first - start .. (first - start) + (validLen - first) - 1
      BY <1>1, <1>4, <2>2, SizesNat
    <3>2. c \in RecentSlice
      BY <1>9, <3>1 DEF Part
    <3>3. c \in cells /\ c.row = <<Running, p>>
      BY <1>1, <1>4, <1>5, <2>2, <3>2 DEF Cell, Packed
    <3> QED BY <3>3
  <2>3. CASE p >= Sink /\ p < start
    <3> DEFINE b == p \div BlockSize
               i == p % BlockSize
    <3>1. b \in Nat /\ i \in 0 .. BlockSize - 1 /\ p = b * BlockSize + i
      BY BlockSizeNat
    <3> HIDE DEF b, i
    <3>2. b < nblocks
      <4>1. nblocks \in Nat /\ b \in Nat /\ BlockSize \in Nat
            /\ (nblocks <= b => nblocks * BlockSize <= b * BlockSize)
        BY ONLY <1>1, <3>1, BlockSizeNat, Products
      <4> QED BY <1>1, <1>2, <3>1, <4>1
    <3>3. CASE b \notin ids
      <4>1. b >= 1
        BY <2>3, <3>1, BlockSizeNat
      <4>2. b * BlockSize + BlockSize <= validLen - Recent
        <5>1. PICK m \in Nat : Recent = m * BlockSize
          BY BlockSizeNat, SizesNat, Multiple
        <5>2. start = validLen - Recent
          BY <1>4, <2>3, SizesNat
        <5>3. nblocks \in Nat /\ b + 1 + m \in Nat /\ BlockSize \in Nat /\ b \in Nat
          BY <1>1, <3>1, BlockSizeNat
        <5>4. (b + m) * BlockSize < nblocks * BlockSize
          <6>1. (b + m) * BlockSize = b * BlockSize + m * BlockSize
            BY <3>1, <5>1, BlockSizeNat, Products
          <6>2. b * BlockSize \in Nat /\ m * BlockSize \in Nat
            BY <3>1, <5>1, BlockSizeNat, Products
          <6>3. p < validLen - Recent
            BY <2>3, <5>2
          <6>4. p \in Nat /\ i \in Nat /\ nblocks * BlockSize \in Nat /\ validLen \in Nat
                /\ validLen <= nblocks * BlockSize
            BY <1>1, <1>2, <3>1, <5>3, Products
          <6> QED BY ONLY <3>1, <5>1, <6>1, <6>2, <6>3, <6>4, BeforeWindow
        <5>5. b + m < nblocks
          <6>1. b + m \in Nat
            BY <3>1, <5>1
          <6>2. nblocks <= b + m => nblocks * BlockSize <= (b + m) * BlockSize
            BY ONLY <5>3, <6>1, Products
          <6>3. nblocks * BlockSize \in Nat /\ (b + m) * BlockSize \in Nat
            BY <5>3, <6>1, Products
          <6> QED BY <5>3, <5>4, <6>1, <6>2, <6>3
        <5>6. (b + 1 + m) * BlockSize <= nblocks * BlockSize
          <6>1. b + 1 + m <= nblocks
            BY <3>1, <5>1, <5>3, <5>5
          <6> QED BY ONLY <5>3, <6>1, Products
        <5>7. (b + 1 + m) * BlockSize = b * BlockSize + BlockSize + m * BlockSize
          BY <3>1, <5>1, <5>3
        <5>8. b * BlockSize \in Nat /\ m * BlockSize \in Nat
          BY <3>1, <5>1, BlockSizeNat, Products
        <5> QED BY ONLY <1>1, <1>2, <5>1, <5>3, <5>6, <5>7, <5>8
      <4>3. b \in 0 .. nblocks - 1 /\ b \notin protected
        BY <1>1, <1>8, <3>1, <3>2, <4>1, <4>2
      <4> QED BY <3>3, <4>3 DEF b
    <3>4. CASE b \in ids
      <4>1. ids \in SUBSET (0 .. nblocks - 1) /\ FullBlocks(ids)
        BY <1>2 DEF FullBlocks
      <4>2. history[b][i] = <<Running, p>>
        BY <3>1, <3>4, <4>1, SelectedOwn
      <4>3. Cell("history", b * BlockSize + i, history[b][i]) \in SelectedRows(ids)
        BY <3>1, <3>4 DEF SelectedRows
      <4>4. Cell("history", b * BlockSize + i, history[b][i]).row = <<Running, p>>
        BY <4>2 DEF Cell
      <4>5. Cell("history", b * BlockSize + i, history[b][i]) \in cells
        BY <4>3 DEF Packed
      <4> QED BY <4>4, <4>5
    <3> QED BY <3>3, <3>4
  <2> QED BY <1>1, <1>4, <2>1, <2>2, <2>3, SizesNat
<1> QED BY <1>17, <1>18

\* The protection of blocks hides no token from a later chunk and shows none
\* twice, for any sizes at which the sink is a block and the window is blocks.
THEOREM ChunksCorrect == SparseSpec => ChunkCoversHistory
<1>1. ASSUME IInv, Stored, SparseNext, Attends, attended'.kind = "chunk", ChunksAligned,
             Available > 0, Sink = BlockSize, Recent % BlockSize = 0, Chunk >= Sink,
             NEW seen, seen = {c.row : c \in attended'.cells},
             NEW unselected, unselected = (0 .. nblocks - 1) \ (protected \cup attended'.ids)
      PROVE  /\ Cardinality(seen) = Cardinality(attended'.cells)
             /\ \A p \in 0 .. validLen - 1 :
                  <<Running, p>> \in seen \/ p \div BlockSize \in unselected
  <2>1. PrefillStep
    <3>1. ~DecodeStep /\ ~\E n \in 1 .. MaxQueries, lossless \in BOOLEAN : Verify(n, lossless)
      BY <1>1 DEF DecodeStep, Decode, Verify, VerifyTokens
    <3> QED BY <1>1, <3>1, AttendingSteps DEF Attends
  <2>2. pc = "run" /\ Prefilling(Running)
    BY <2>1 DEF PrefillStep
  <2>3. running # <<>>
    BY <1>1, <2>2 DEF IInv, Counters, QueuesRight
  <2>4. /\ validLen = cached[Running] /\ prefillLen = cached[Running] /\ scheduled \in Nat
        /\ scheduled = NextChunk(Running) /\ prompt[Running] \in Nat /\ cached[Running] \in Nat
    BY <1>1, <2>2, StepFacts
  <2>5. scheduled > 0
    BY <2>2, <2>4, SizesNat DEF NextChunk, Smaller, Prefilling
  <2>6. PICK k : k = Rows(Running, validLen, scheduled) /\
          (PrefillFirst(k, scheduled) \/ PrefillChunk(k, scheduled))
    BY <2>1, <2>4 DEF PrefillStep
  <2>7. PrefillChunk(k, scheduled)
    BY <1>1, <2>6 DEF PrefillFirst
  <2>8. PICK ids \in Select(PrefillTopK) :
          attended' = [kind |-> "chunk", ids |-> ids, cells |-> Packed(ids, k, scheduled)]
    BY <2>7 DEF PrefillChunk
  <2>9. validLen > 0
    BY <2>4, <2>7 DEF PrefillChunk
  <2>10. ids \in SUBSET ((0 .. nblocks - 1) \ protected)
    BY <1>1, <2>8, SelectSound, M12Assumption DEF Sound, Stored, HistoryTypes
  <2>11. attended'.cells = Packed(ids, k, scheduled) /\ attended'.ids = ids
    BY <2>8
  <2>12. Covers(attended'.cells, ids)
    BY <1>1, <2>2, <2>3, <2>4, <2>5, <2>6, <2>9, <2>10, <2>11, ChunkCovers
  <2> QED BY <1>1, <2>11, <2>12 DEF Covers
<1>2. IInv /\ Stored /\ [SparseNext]_sparseVars =>
        [Attends /\ attended'.kind = "chunk" /\ ChunksAligned /\ Available > 0
           /\ Sink = BlockSize /\ Recent % BlockSize = 0 /\ Chunk >= Sink =>
           LET seen == {c.row : c \in attended'.cells}
               unselected == (0 .. nblocks - 1) \ (protected \cup attended'.ids)
           IN  /\ Cardinality(seen) = Cardinality(attended'.cells)
               /\ \A p \in 0 .. validLen - 1 :
                    <<Running, p>> \in seen \/ p \div BlockSize \in unselected]_sparseVars
  BY <1>1
<1> QED BY <1>2, StoredInvariance, PTL DEF SparseSpec, ChunkCoversHistory

=============================================================================
