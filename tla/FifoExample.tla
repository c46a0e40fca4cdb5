----------------------------- MODULE FifoExample -----------------------------
(***************************************************************************)
(* example/FIFO/FIFO.h between a module that writes to its `producer' port *)
(* and one that reads from its `consumer' port.  The thread fsm() decides  *)
(* with peek() and poke() which blocking calls will not wait; the decision *)
(* and the calls are separate steps, other processes run whenever a call   *)
(* waits.  pc is the place of fsm() between two calls.                     *)
(*                                                                         *)
(* The environment writes 1, 2, ... MaxSent and reads, each as slowly as   *)
(* it likes.                                                               *)
(***************************************************************************)
EXTENDS BlockingChannel, Integers

CONSTANTS N,        \* size of the buffer, 3 in the source
          MaxSent   \* bound: the environment writes this many values

In == "producer"    \* the two ports of the module
Out == "consumer"

fifo == Reader[In]

ASSUME FifoAssumption == /\ N \in Nat \ {0} /\ MaxSent \in Nat
                         /\ Chan = {In, Out}
                         /\ Writer[Out] = fifo
                         /\ Data = 0 .. MaxSent

ASSUME CallsAssumption == \A p \in Proc : {"read", "write", "try_write", "pause"} \subseteq Ops[p]

VARIABLES pc, buffer, head, tail, is_full, is_empty, from_reset,
          sent,       \* history: how many values were written to `producer'
          received    \* history: the values read from `consumer'

state == << buffer, head, tail, is_full, is_empty, from_reset >>
fvars == << vars, pc, state, sent, received >>

value_in == out[In]

FifoInit == /\ Init
            /\ out = [c \in Chan |-> 0] /\ shared_data = [c \in Chan |-> 0]
            /\ pc = "reset_wait"
            /\ buffer = [i \in 0 .. N - 1 |-> 0]
            /\ head = 0 /\ tail = 0
            /\ is_full = FALSE /\ is_empty = TRUE
            /\ from_reset = FALSE
            /\ sent = 0 /\ received = << >>

(* fsm() runs and is at l; the call it made last has returned. *)
At(l) == current = fifo /\ ~ InCall(fifo) /\ pc = l

Goto(l) == pc' = l /\ UNCHANGED << sent, received >>

Read(c) == ReadNow(c) \/ ReadWait(c)

(* buffer[tail] = value_in; tail = (tail + 1) % N *)
Store == /\ buffer' = [buffer EXCEPT ![tail] = value_in]
         /\ tail' = (tail + 1) % N

(* value_out = buffer[head]; head = (head + 1) % N *)
value_out == buffer[head]
Fetch == head' = (head + 1) % N

-----------------------------------------------------------------------------
(* while(true): the reset part is passed once *)

ResetWait == /\ At("reset_wait")
             /\ ~ from_reset
             /\ ZeroWait(fifo, {})
             /\ Goto("reset_write")
             /\ UNCHANGED << channel, state >>

ResetWrite == /\ At("reset_write")
              /\ from_reset' = TRUE
              /\ TryWrite(Out, 0, "try_write")
              /\ Goto("poll")
              /\ UNCHANGED << buffer, head, tail, is_full, is_empty >>

AlwaysWritable == TRUE   \* mutant: poke() is not asked

can_read == peek(In)
can_write == poke(Out)

(* The branches of the if-else chain; each ends in its first call. *)
Both == /\ can_read /\ can_write /\ ~ is_full /\ ~ is_empty
        /\ Read(In) /\ Goto("both_write")
        /\ UNCHANGED state

BothFull == /\ can_read /\ can_write /\ is_full /\ ~ is_empty
            /\ Fetch
            /\ TryWrite(Out, value_out, "try_write")
            /\ Goto("full_read")
            /\ UNCHANGED << buffer, tail, is_full, is_empty, from_reset >>

BothEmpty == /\ can_read /\ can_write /\ ~ is_full /\ is_empty
             /\ Read(In) /\ Goto("empty_write")
             /\ UNCHANGED state

OnlyIn == /\ can_read /\ ~ is_full
          /\ ~ can_write
          /\ Read(In) /\ Goto("in_store")
          /\ UNCHANGED state

OnlyOut == /\ can_write /\ ~ is_empty
           /\ ~ can_read
           /\ Fetch
           /\ is_empty' = (IF tail = head' THEN TRUE ELSE is_empty)
           /\ is_full' = FALSE
           /\ Write(Out, value_out)
           /\ Goto("poll")
           /\ UNCHANGED << buffer, tail, from_reset >>

Neither == /\ ~ (can_read /\ ~ is_full)
           /\ ~ (can_write /\ ~ is_empty)
           /\ ZeroWait(fifo, {})
           /\ Goto("poll")
           /\ UNCHANGED << channel, state >>

Poll == At("poll") /\ (Both \/ BothFull \/ BothEmpty \/ OnlyIn \/ OnlyOut \/ Neither)

(* The rest of the branches, after the call has returned. *)
BothWrite == /\ At("both_write")
             /\ Store
             /\ Fetch
             /\ Write(Out, buffer'[head])
             /\ Goto("poll")
             /\ UNCHANGED << is_full, is_empty, from_reset >>

FullRead == /\ At("full_read")
            /\ Read(In) /\ Goto("full_store")
            /\ UNCHANGED state

FullStore == /\ At("full_store")
             /\ Store
             /\ Goto("poll")
             /\ UNCHANGED << vars, head, is_full, is_empty, from_reset >>

EmptyWrite == /\ At("empty_write")
              /\ TryWrite(Out, value_in, "try_write")
              /\ Goto("poll")
              /\ UNCHANGED state

(* Mutants: is_full is never set; the read ends the branch. *)
InStoreNotFull == /\ At("in_store")
                  /\ Store
                  /\ is_empty' = FALSE
                  /\ Goto("poll")
                  /\ UNCHANGED << vars, head, is_full, from_reset >>

InStoreStaysEmpty == /\ At("in_store")
                     /\ Store
                     /\ is_full' = (IF tail' = head THEN TRUE ELSE is_full)
                     /\ Goto("poll")
                     /\ UNCHANGED << vars, head, is_empty, from_reset >>

InStore == /\ At("in_store")
           /\ Store
           /\ is_full' = (IF tail' = head THEN TRUE ELSE is_full)
           /\ is_empty' = FALSE
           /\ Goto("poll")
           /\ UNCHANGED << vars, head, from_reset >>

(* A call of fsm() returns. *)
FifoResume == /\ \/ ReadResume(In) \/ WriteResume(Out) \/ TryWriteResume(Out)
              /\ UNCHANGED << pc, state, sent, received >>

(* The temporary of try_write(0) is gone once the call has returned, the    *)
(* channel still points to it.  Afterwards it points to value_out, which    *)
(* only changes together with the next write.                               *)
Garbage == /\ from_reset /\ wr[Out] = "idle" /\ received = << >>
           /\ available_data[Out]
           /\ shared_data' = [shared_data EXCEPT ![Out] = MaxSent]
           /\ UNCHANGED << kernel, available_data, writer_notify, reader_notify,
                           rd, wr, out, read_success, write_success, taken,
                           pc, state, sent, received >>

FifoStep == ResetWait \/ ResetWrite \/ Poll \/ BothWrite \/ FullRead
            \/ FullStore \/ EmptyWrite \/ InStore \/ FifoResume

-----------------------------------------------------------------------------
(* The modules at the other ends *)

Send == /\ \/ /\ sent < MaxSent
              /\ Write(In, sent + 1)
              /\ sent' = sent + 1
           \/ WriteResume(In) /\ UNCHANGED sent
        /\ UNCHANGED << pc, state, received >>

Receive == /\ \/ /\ ReadNow(Out) \/ ReadResume(Out)
                 /\ received' = Append(received, out'[Out])
              \/ ReadWait(Out) /\ UNCHANGED received
           /\ UNCHANGED << pc, state, sent >>

Idle == /\ \E p \in Proc \ {fifo} : Pause(p)
        /\ UNCHANGED << pc, state, sent, received >>

FifoNext == \/ FifoStep \/ Send \/ Receive \/ Idle \/ Garbage
            \/ Schedule /\ UNCHANGED << pc, state, sent, received >>

FifoSpec == FifoInit /\ [][FifoNext]_fvars

(* Every process the scheduler picks executes; the two environments do not  *)
(* stop calling.                                                            *)
FifoFairness ==
  /\ WF_fvars(Schedule /\ UNCHANGED << pc, state, sent, received >>)
  /\ \A p \in Proc : SF_fvars(Dispatch(p) /\ UNCHANGED << channel, pc, state, sent, received >>)
  /\ WF_fvars(FifoStep)
  /\ SF_fvars(Send)
  /\ SF_fvars(Receive)
  /\ WF_fvars(Idle)

FifoFairSpec == FifoSpec /\ FifoFairness

-----------------------------------------------------------------------------
(* Properties *)

Pending(c) == IF available_data[c] THEN << shared_data[c] >> ELSE << >>

(* The buffer counts the items with two flags: head = tail says nothing.    *)
(* Between the two halves of the `full' branch one slot is free already.    *)
Stored == IF is_full /\ pc \notin {"full_read", "full_store"} THEN N
          ELSE IF is_empty THEN 0 ELSE (tail - head) % N

Contents == [i \in 1 .. Stored |-> buffer[(head + i - 1) % N]]

(* What fsm() has read and not stored or passed on yet. *)
InHand == IF /\ pc \in {"both_write", "empty_write", "in_store", "full_store"}
             /\ rd[In] = "idle"
          THEN << value_in >> ELSE << >>

Reset == IF from_reset THEN 1 ELSE 0

(* First in, first out, nothing lost, duplicated or made up: what the sink  *)
(* has read, what is on its channel, the buffer, fsm()'s hand and the       *)
(* source's channel together are the reset value and then 1, 2, ... sent,   *)
(* in this order, in every state.                                           *)
NothingLost ==
  LET all == received \o Pending(Out) \o Contents \o InHand \o Pending(In)
  IN  /\ Len(all) = Reset + sent
      /\ \A i \in Reset + 1 .. Len(all) : all[i] = i - Reset

(* What peek() and poke() said is still so when the calls they guard are    *)
(* made: fsm() never waits for the source, and never overwrites a value     *)
(* that the sink has not read.                                              *)
PollHolds == /\ rd[In] = "idle"
             /\ pc \in {"both_write", "empty_write"} => poke(Out)
             /\ (pc = "full_read" /\ ~ InCall(fifo)) => peek(In)

(* Every value sent arrives, if the sink keeps reading.                     *)
Delivered == \A k \in 1 .. MaxSent : (sent >= k) ~> (Len(received) > k)

=============================================================================
