------------------------------ MODULE TPChannel ------------------------------
(***************************************************************************)
(* The command channel of tensor parallelism (engine/model_runner.py):     *)
(* rank 0 writes a command into one shared buffer and sets an event per    *)
(* worker; a worker waits for its event, reads the buffer, clears the event*)
(* and executes.  Nobody acknowledges.                                     *)
(*                                                                         *)
(* The methods are those of an engine with several ranks: "run", a forward *)
(* pass, whose collective operations rank 0 cannot finish before every     *)
(* worker has joined them, and "exit", which ends in a barrier.  A method  *)
(* that involves no other rank would return at once and could overwrite    *)
(* the buffer unread.                                                      *)
(***************************************************************************)
EXTENDS Integers, Sequences, SequencesExt

CONSTANTS
  Workers,  \* ranks above 0
  MaxCalls  \* bound: calls before exit

VARIABLES
  length, data, \* the command whose length, and whose bytes, are in shm.buf
  event,        \* the workers whose event is set
  toNotify,     \* those whose event write_shm has yet to set
  pc0,          \* where rank 0 is in call()
  pcw,          \* where a worker is in loop()
  seen,         \* the command whose length a worker has read
  got,          \* the command whose bytes it has read
  issued,       \* history: the commands of rank 0
  executed      \* history: the commands of each worker

shm == <<length, data>>
rank0 == <<toNotify, pc0, issued>>
worker == <<pcw, seen, got, executed>>
tpVars == <<shm, event, rank0, worker>>

\* A command is its number and its method.
Command == issued[Len(issued)]
NoCommand == <<0, "none">>

TPInit ==
  /\ length = NoCommand /\ data = NoCommand
  /\ event = {} /\ toNotify = {}
  /\ pc0 = "idle" /\ issued = <<>>
  /\ pcw = [w \in Workers |-> "wait"]
  /\ seen = [w \in Workers |-> NoCommand]
  /\ got = [w \in Workers |-> NoCommand]
  /\ executed = [w \in Workers |-> <<>>]

-----------------------------------------------------------------------------
(* Rank 0: call(), write_shm() *)

Call(method) ==
  /\ pc0 = "idle"
  /\ Len(issued) < MaxCalls \/ method = "exit"
  /\ issued' = Append(issued, <<Len(issued) + 1, method>>)
  /\ pc0' = "length"
  /\ UNCHANGED <<shm, event, toNotify, worker>>

WriteLength ==
  /\ pc0 = "length"
  /\ length' = Command
  /\ pc0' = "data"
  /\ UNCHANGED <<data, event, toNotify, issued, worker>>

WriteData ==
  /\ pc0 = "data"
  /\ data' = Command
  /\ pc0' = "events" /\ toNotify' = Workers
  /\ UNCHANGED <<length, event, issued, worker>>

SetEvent(w) ==
  /\ pc0 = "events" /\ w \in toNotify
  /\ event' = event \cup {w}
  /\ toNotify' = toNotify \ {w}
  /\ UNCHANGED <<shm, pc0, issued, worker>>

EndWrite ==
  /\ pc0 = "events" /\ toNotify = {}
  /\ pc0' = IF Command[2] = "exit" THEN "barrier" ELSE "call"
  /\ UNCHANGED <<shm, event, toNotify, issued, worker>>

\* Mutated form: the result of a pass is not awaited.
JoinedNot(w) == TRUE

\* The worker has taken part in as many passes as rank 0.
Joined(w) == Len(executed[w]) >= Len(issued)

\* run() ends with the sampled tokens, which need every rank's part.
Return ==
  /\ pc0 = "call"
  /\ \A w \in Workers : Joined(w)
  /\ pc0' = "idle"
  /\ UNCHANGED <<shm, event, toNotify, issued, worker>>

-----------------------------------------------------------------------------
(* A worker: loop(), read_shm() *)

Wake(w) ==
  /\ pcw[w] = "wait" /\ w \in event
  /\ pcw' = [pcw EXCEPT ![w] = "length"]
  /\ UNCHANGED <<shm, event, rank0, seen, got, executed>>

ReadLength(w) ==
  /\ pcw[w] = "length"
  /\ seen' = [seen EXCEPT ![w] = length]
  /\ pcw' = [pcw EXCEPT ![w] = "data"]
  /\ UNCHANGED <<shm, event, rank0, got, executed>>

ReadData(w) ==
  /\ pcw[w] = "data"
  /\ got' = [got EXCEPT ![w] = data]
  /\ pcw' = [pcw EXCEPT ![w] = "clear"]
  /\ UNCHANGED <<shm, event, rank0, seen, executed>>

\* Mutated form: clear() is forgotten.
EventsWithoutKept(w) == event

EventsWithout(w) == event \ {w}

ClearEvent(w) ==
  /\ pcw[w] = "clear"
  /\ event' = EventsWithout(w)
  /\ pcw' = [pcw EXCEPT ![w] = "call"]
  /\ UNCHANGED <<shm, rank0, seen, got, executed>>

\* The method runs, if the bytes were those that the length was written for
\* (else pickle raises and the worker is gone).  A worker does not wait for
\* the results of a pass.
Execute(w) ==
  /\ pcw[w] = "call" /\ seen[w] = got[w]
  /\ executed' = [executed EXCEPT ![w] = Append(@, got[w])]
  /\ pcw' = [pcw EXCEPT ![w] = IF got[w][2] = "exit" THEN "barrier" ELSE "wait"]
  /\ UNCHANGED <<shm, event, rank0, seen, got>>

\* exit(): a barrier lets nobody pass before all have come.
Barrier ==
  /\ pc0 = "barrier" /\ \A w \in Workers : pcw[w] = "barrier"
  /\ pc0' = "stopped"
  /\ pcw' = [w \in Workers |-> "stopped"]
  /\ UNCHANGED <<shm, event, toNotify, issued, seen, got, executed>>

-----------------------------------------------------------------------------
Rank0 ==
  \/ WriteLength \/ WriteData
  \/ \E w \in Workers : SetEvent(w)
  \/ EndWrite \/ Return

Work(w) ==
  Wake(w) \/ ReadLength(w) \/ ReadData(w) \/ ClearEvent(w) \/ Execute(w)

TPNext ==
  \/ \E method \in {"run", "exit"} : Call(method)
  \/ Rank0 \/ Barrier
  \/ \E w \in Workers : Work(w)

TPSpec == TPInit /\ [][TPNext]_tpVars

\* Every process runs; only whether there is another call is left open.
TPFairSpec ==
  /\ TPSpec
  /\ WF_tpVars(Rank0) /\ WF_tpVars(Barrier)
  /\ \A w \in Workers : WF_tpVars(Work(w))

-----------------------------------------------------------------------------
(* Properties *)

\* Every worker executes the commands of rank 0, each once and in order,
\* although the buffer has room for one and nobody says when it was read: none
\* is overwritten unread, none is read twice, and clearing an event never
\* loses the one that announces the next command.
CommandsFollowed == \A w \in Workers : IsPrefix(executed[w], issued)

\* Every call returns, and exit stops every rank: nobody waits for an event
\* that was lost or a collective that another rank never joins.
CallsReturn ==
  (pc0 \notin {"idle", "stopped"}) ~>
    \/ pc0 = "idle"
    \/ pc0 = "stopped" /\ \A w \in Workers : pcw[w] = "stopped"

=============================================================================
