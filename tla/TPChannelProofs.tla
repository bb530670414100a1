--------------------------- MODULE TPChannelProofs ---------------------------
(***************************************************************************)
(* Proofs about the command channel, for any number of ranks and calls.    *)
(* The invariant says for each worker which of two situations it is in: it *)
(* has executed all that was issued, or all but the last command, which    *)
(* then is on its way to it.                                               *)
(***************************************************************************)
EXTENDS TPChannel, TLAPS

Method == {"run", "exit"}

TPTypeOK ==
  /\ issued \in Seq(Nat \X Method)
  /\ pc0 \in {"idle", "length", "data", "events", "call", "barrier", "stopped"}
  /\ toNotify \subseteq Workers /\ event \subseteq Workers
  /\ pcw \in [Workers -> {"wait", "length", "data", "clear", "call", "barrier", "stopped"}]
  /\ executed \in [Workers -> Seq(Nat \X Method)]
  /\ seen = [w \in Workers |-> seen[w]] /\ got = [w \in Workers |-> got[w]]

\* w has done all that rank 0 has issued.
Done(w) ==
  /\ executed[w] = issued
  /\ w \notin event
  /\ pcw[w] \in {"wait", "barrier", "stopped"}
  /\ pcw[w] # "wait" => pc0 \in {"events", "barrier", "stopped"} /\ Command[2] = "exit"
  /\ pc0 = "events" => w \notin toNotify
  /\ pc0 \notin {"length", "data"}

\* The last command is still on its way to w.
Behind(w) ==
  /\ issued # <<>>
  /\ issued = Append(executed[w], Command)
  /\ pc0 \in {"length", "data", "events", "call", "barrier"}
  /\ pcw[w] \in {"wait", "length", "data", "clear", "call"}
  /\ pc0 \in {"length", "data"} => pcw[w] = "wait" /\ w \notin event
  /\ pc0 = "events" /\ w \in toNotify => pcw[w] = "wait" /\ w \notin event
  /\ pc0 \in {"events", "call", "barrier"} /\ (pc0 = "events" => w \notin toNotify) =>
       w \in event <=> pcw[w] # "call"
  /\ pcw[w] \in {"data", "clear", "call"} => seen[w] = Command
  /\ pcw[w] \in {"clear", "call"} => got[w] = Command

TPInv ==
  /\ TPTypeOK
  /\ pc0 \notin {"idle", "stopped"} => issued # <<>>
  /\ pc0 \in {"data", "events", "call", "barrier"} => length = Command
  /\ pc0 \in {"events", "call", "barrier"} => data = Command
  /\ pc0 = "call" => Command[2] = "run"
  /\ pc0 = "barrier" => Command[2] = "exit"
  /\ pc0 \in {"call", "barrier"} => toNotify = {}
  /\ \A w \in Workers : Done(w) \/ Behind(w)

-----------------------------------------------------------------------------
\* Nothing is issued at first.
LEMMA TPInitInv == TPInit => TPInv
BY DEF TPInit, TPInv, TPTypeOK, Done, Behind, NoCommand

\* A new call finds every worker done and leaves each behind by it.
LEMMA CallStep ==
  ASSUME TPInv, NEW method \in Method, Call(method)
  PROVE  TPInv'
<1>1. /\ issued' = Append(issued, <<Len(issued) + 1, method>>)
      /\ issued \in Seq(Nat \X Method) /\ <<Len(issued) + 1, method>> \in Nat \X Method
  BY DEF TPInv, TPTypeOK, Call
<1>2. /\ issued' \in Seq(Nat \X Method) /\ issued' # <<>>
      /\ Command' = <<Len(issued) + 1, method>>
  BY <1>1 DEF Command
<1>3. TPTypeOK'
  BY <1>2 DEF TPInv, TPTypeOK, Call, shm, worker
<1>4. ASSUME NEW w \in Workers PROVE Behind(w)'
  <2>1. Done(w) /\ pcw[w] = "wait"
    BY DEF TPInv, Behind, Done, Call
  <2> QED BY <1>1, <1>2, <2>1 DEF Behind, Done, Call, shm, worker
<1> QED BY <1>2, <1>3, <1>4 DEF TPInv, Call, shm

\* Writing and notifying change nothing for a worker but that the command
\* comes nearer.
LEMMA Rank0Step == TPInv /\ Rank0 => TPInv'
<1> SUFFICES ASSUME TPInv, Rank0 PROVE TPInv'
  OBVIOUS
<1> USE DEF TPInv, TPTypeOK, Done, Behind, shm, worker
<1>1. CASE WriteLength BY <1>1 DEF WriteLength, Command
<1>2. CASE WriteData BY <1>2 DEF WriteData, Command
<1>3. ASSUME NEW w \in Workers, SetEvent(w) PROVE TPInv'
  BY <1>3 DEF SetEvent, Command
<1>4. CASE EndWrite
  <2>1. Command[2] \in Method BY <1>4 DEF EndWrite, Command
  <2> QED BY <1>4, <2>1 DEF EndWrite, Command, Method
<1>5. CASE Return
  <2>1. ASSUME NEW w \in Workers PROVE Done(w)
    BY <1>5 DEF Return, Joined
  <2> QED BY <1>5, <2>1 DEF Return, Command
<1> QED BY <1>1, <1>2, <1>3, <1>4, <1>5 DEF Rank0

\* A worker reads what rank 0 wrote for it, executes it once and is done.
LEMMA WorkStep ==
  ASSUME TPInv, NEW w \in Workers, Work(w)
  PROVE  TPInv'
<1> USE DEF TPInv, TPTypeOK, Done, Behind, shm, rank0
<1>1. CASE Wake(w) BY <1>1 DEF Wake, Command
<1>2. CASE ReadLength(w) BY <1>2 DEF ReadLength, Command
<1>3. CASE ReadData(w) BY <1>3 DEF ReadData, Command
<1>4. CASE ClearEvent(w) BY <1>4 DEF ClearEvent, EventsWithout, Command
<1>5. CASE Execute(w)
  <2>1. Behind(w) /\ got[w] = Command /\ Command \in Nat \X Method
    BY <1>5 DEF Execute, Command
  <2>2. executed'[w] = issued' /\ executed' \in [Workers -> Seq(Nat \X Method)]
    BY <1>5, <2>1 DEF Execute
  <2> QED BY <1>5, <2>1, <2>2 DEF Execute, Command
<1> QED BY <1>1, <1>2, <1>3, <1>4, <1>5 DEF Work

\* The barrier is passed when all are done.
LEMMA BarrierStep == TPInv /\ Barrier => TPInv'
BY DEF TPInv, TPTypeOK, Done, Behind, shm, Barrier, Command

\* A worker that is done or behind by one has executed a prefix.
LEMMA InvFollowed == TPInv => CommandsFollowed
<1> SUFFICES ASSUME TPInv, NEW w \in Workers PROVE IsPrefix(executed[w], issued)
  BY DEF CommandsFollowed
<1>1. executed[w] \in Seq(Nat \X Method) /\ issued \in Seq(Nat \X Method)
  BY DEF TPInv, TPTypeOK
<1>2. CASE Done(w) BY <1>1, <1>2 DEF Done, IsPrefix
<1>3. CASE Behind(w)
  <2>1. issued = Append(executed[w], Command) /\ Command \in Nat \X Method
    BY <1>1, <1>3 DEF Behind, Command
  <2> QED BY <1>1, <2>1 DEF IsPrefix
<1> QED BY <1>2, <1>3 DEF TPInv

\* The workers execute exactly the commands of rank 0, each once and in order
\* (write_shm, read_shm), with one buffer and without acknowledgement.
THEOREM CommandsCorrect == TPSpec => []CommandsFollowed
<1>1. TPInv /\ [TPNext]_tpVars => TPInv'
  <2> SUFFICES ASSUME TPInv, [TPNext]_tpVars PROVE TPInv'
    OBVIOUS
  <2>1. ASSUME NEW method \in Method, Call(method) PROVE TPInv'
    BY <2>1, CallStep
  <2>2. CASE UNCHANGED tpVars
    BY <2>2 DEF tpVars, shm, rank0, worker, TPInv, TPTypeOK, Done, Behind, Command
  <2> QED
    BY <2>1, <2>2, Rank0Step, WorkStep, BarrierStep DEF TPNext, Method
<1> QED BY <1>1, TPInitInv, InvFollowed, PTL DEF TPSpec

=============================================================================
