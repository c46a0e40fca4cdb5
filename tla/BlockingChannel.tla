--------------------------- MODULE BlockingChannel ---------------------------
(***************************************************************************)
(* The blocking channel of example/Interfaces/Blocking.hpp under the       *)
(* SystemC scheduler: the untimed handshake that every PPA a module is     *)
(* described with, and every operation DeSCAM derives from it, assumes.    *)
(*                                                                         *)
(* Each channel c has one reader and one writer process.  rd[c] and wr[c]  *)
(* say which call is suspended at either end.  A call that does not wait   *)
(* is one step; one that waits is a step up to the wait and one from it.   *)
(***************************************************************************)
EXTENDS ScKernel, Sequences

CONSTANTS Chan,    \* the channels
          Data,    \* the values a message can have
          Reader,  \* Reader[c] and Writer[c] are the processes bound to the
          Writer,  \*   two ports of c
          Ops      \* Ops[p] are the calls that process p uses

AllOps == {"read", "try_read", "write", "try_write", "try_write_success",
           "assign", "pause"}

ASSUME ChannelAssumption == /\ Reader \in [Chan -> Proc]
                            /\ Writer \in [Chan -> Proc]
                            /\ Ops \in [Proc -> SUBSET AllOps]

VARIABLES available_data,
          shared_data,    \* what the pointer of that name points to
          writer_notify,  \* the processes waiting on either event
          reader_notify,
          rd,             \* the call suspended at the reader's end, or "idle"
          wr,             \* the call suspended at the writer's end, or "idle"
          out,            \* `out' of the last call that read
          read_success,   \* `success' of the reader's last try_read
          write_success,  \* `success' of the writer's last try_write
          taken           \* history: the value last written has been read

channel == << available_data, shared_data, writer_notify, reader_notify,
              rd, wr, out, read_success, write_success, taken >>
vars == << kernel, channel >>

TypeOK == /\ KernelTypeOK
          /\ available_data \in [Chan -> BOOLEAN]
          /\ shared_data \in [Chan -> Data]
          /\ writer_notify \in [Chan -> SUBSET Proc]
          /\ reader_notify \in [Chan -> SUBSET Proc]
          /\ rd \in [Chan -> {"idle", "read", "try_read"}]
          /\ wr \in [Chan -> {"idle", "write", "try_write", "try_write_success"}]
          /\ out \in [Chan -> Data]
          /\ read_success \in [Chan -> BOOLEAN]
          /\ write_success \in [Chan -> BOOLEAN]
          /\ taken \in [Chan -> BOOLEAN]

(* The constructor; *shared_data and out start uninitialized. *)
ChannelInit == /\ available_data = [c \in Chan |-> FALSE]
               /\ shared_data \in [Chan -> Data]
               /\ writer_notify = [c \in Chan |-> {}]
               /\ reader_notify = [c \in Chan |-> {}]
               /\ rd = [c \in Chan |-> "idle"]
               /\ wr = [c \in Chan |-> "idle"]
               /\ out \in [Chan -> Data]
               /\ read_success = [c \in Chan |-> FALSE]
               /\ write_success = [c \in Chan |-> FALSE]
               /\ taken = [c \in Chan |-> FALSE]

Init == KernelInit /\ ChannelInit

InCall(p) == \E c \in Chan : \/ Reader[c] = p /\ rd[c] # "idle"
                             \/ Writer[c] = p /\ wr[c] # "idle"

(* p runs code of its own and makes the call op. *)
Calls(p, op) == /\ op \in Ops[p]
                /\ current = p
                /\ ~ InCall(p)

-----------------------------------------------------------------------------
(* Reading *)

peek(c) == available_data[c]
poke(c) == ~ available_data[c]

(* Mutants of Take: notify() or the reset of available_data is missing.     *)
TakeWithoutNotify(c) ==
  /\ out' = [out EXCEPT ![c] = shared_data[c]]
  /\ available_data' = [available_data EXCEPT ![c] = FALSE]
  /\ taken' = [taken EXCEPT ![c] = TRUE]
  /\ Notify({})
  /\ UNCHANGED << reader_notify, shared_data, writer_notify, wr, write_success >>

TakeKeepsData(c) ==
  /\ out' = [out EXCEPT ![c] = shared_data[c]]
  /\ taken' = [taken EXCEPT ![c] = TRUE]
  /\ Notify(reader_notify[c])
  /\ reader_notify' = [reader_notify EXCEPT ![c] = {}]
  /\ UNCHANGED << available_data, shared_data, writer_notify, wr, write_success >>

(* out = *shared_data; available_data = false; reader_notify.notify() *)
Take(c) == /\ out' = [out EXCEPT ![c] = shared_data[c]]
           /\ available_data' = [available_data EXCEPT ![c] = FALSE]
           /\ taken' = [taken EXCEPT ![c] = TRUE]
           /\ Notify(reader_notify[c])
           /\ reader_notify' = [reader_notify EXCEPT ![c] = {}]
           /\ UNCHANGED << shared_data, writer_notify, wr, write_success >>

ReadNow(c) == /\ Calls(Reader[c], "read")
              /\ available_data[c]
              /\ Take(c)
              /\ UNCHANGED << rd, read_success >>

ReadWait(c) == /\ Calls(Reader[c], "read")
               /\ ~ available_data[c]
               /\ Block({})
               /\ writer_notify' = [writer_notify EXCEPT ![c] = @ \cup {Reader[c]}]
               /\ rd' = [rd EXCEPT ![c] = "read"]
               /\ UNCHANGED << available_data, shared_data, reader_notify, wr,
                               out, read_success, write_success, taken >>

(* Mutant: the condition of the documented loop `while(!available_data)     *)
(* wait(SC_ZERO_TIME)' negated.                                             *)
ReadResumeNegated(c) == /\ current = Reader[c]
                        /\ rd[c] = "read"
                        /\ available_data[c]
                        /\ ZeroWait(Reader[c], {})
                        /\ UNCHANGED channel

(* assert(available_data) aborts the simulation, see AssertsHold. *)
ReadResume(c) == /\ current = Reader[c]
                 /\ rd[c] = "read"
                 /\ available_data[c]
                 /\ Take(c)
                 /\ rd' = [rd EXCEPT ![c] = "idle"]
                 /\ UNCHANGED read_success

(* The overload without `success' drops the flag that the other returns. *)
TryReadNow(c) == /\ Calls(Reader[c], "try_read")
                 /\ available_data[c]
                 /\ Take(c)
                 /\ read_success' = [read_success EXCEPT ![c] = TRUE]
                 /\ UNCHANGED rd

TryReadPause(c) == /\ Calls(Reader[c], "try_read")
                   /\ ~ available_data[c]
                   /\ ZeroWait(Reader[c], {})
                   /\ rd' = [rd EXCEPT ![c] = "try_read"]
                   /\ UNCHANGED << available_data, shared_data, writer_notify,
                                   reader_notify, wr, out, read_success,
                                   write_success, taken >>

TryReadResume(c) ==
  /\ current = Reader[c]
  /\ rd[c] = "try_read"
  /\ rd' = [rd EXCEPT ![c] = "idle"]
  /\ read_success' = [read_success EXCEPT ![c] = available_data[c]]
  /\ \/ available_data[c] /\ Take(c)
     \/ /\ ~ available_data[c]
        /\ UNCHANGED << kernel, available_data, shared_data, writer_notify,
                        reader_notify, wr, out, write_success, taken >>

-----------------------------------------------------------------------------
(* Writing *)

(* shared_data = &val; available_data = true; writer_notify.notify() *)
Offer(c, v, op) == /\ Calls(Writer[c], op)
                   /\ shared_data' = [shared_data EXCEPT ![c] = v]
                   /\ available_data' = [available_data EXCEPT ![c] = TRUE]
                   /\ taken' = [taken EXCEPT ![c] = FALSE]
                   /\ writer_notify' = [writer_notify EXCEPT ![c] = {}]
                   /\ wr' = [wr EXCEPT ![c] = op]
                   /\ UNCHANGED << rd, out, read_success, write_success >>

Write(c, v) == /\ Offer(c, v, "write")
               /\ Block(writer_notify[c])
               /\ reader_notify' = [reader_notify EXCEPT ![c] = @ \cup {Writer[c]}]

(* assert(!available_data) aborts the simulation, see AssertsHold. *)
WriteResume(c) == /\ current = Writer[c]
                  /\ wr[c] = "write"
                  /\ ~ available_data[c]
                  /\ wr' = [wr EXCEPT ![c] = "idle"]
                  /\ UNCHANGED << kernel, available_data, shared_data,
                                  writer_notify, reader_notify, rd, out,
                                  read_success, write_success, taken >>

(* try_write does not look at what is on the channel: it overwrites. *)
TryWrite(c, v, op) == /\ Offer(c, v, op)
                      /\ ZeroWait(Writer[c], writer_notify[c])
                      /\ UNCHANGED reader_notify

TryWriteResume(c) == /\ current = Writer[c]
                     /\ wr[c] = "try_write"
                     /\ wr' = [wr EXCEPT ![c] = "idle"]
                     /\ UNCHANGED << kernel, available_data, shared_data,
                                     writer_notify, reader_notify, rd, out,
                                     read_success, write_success, taken >>

(* Mutant: the offer is not withdrawn. *)
TryWriteKeepsOffer(c) ==
  /\ current = Writer[c]
  /\ wr[c] = "try_write_success"
  /\ wr' = [wr EXCEPT ![c] = "idle"]
  /\ write_success' = [write_success EXCEPT ![c] = ~ available_data[c]]
  /\ UNCHANGED << kernel, available_data, shared_data, writer_notify,
                  reader_notify, rd, out, read_success, taken >>

(* success = !available_data; available_data = false *)
TryWriteSuccessResume(c) ==
  /\ current = Writer[c]
  /\ wr[c] = "try_write_success"
  /\ wr' = [wr EXCEPT ![c] = "idle"]
  /\ write_success' = [write_success EXCEPT ![c] = ~ available_data[c]]
  /\ available_data' = [available_data EXCEPT ![c] = FALSE]
  /\ UNCHANGED << kernel, shared_data, writer_notify, reader_notify, rd, out,
                  read_success, taken >>

(* shared_data points into the writer's own variables (or at a temporary    *)
(* that is gone when the call returns): what is there may change whenever   *)
(* the writer runs outside a call.                                          *)
Reassign(c, v) == /\ Calls(Writer[c], "assign")
                  /\ shared_data' = [shared_data EXCEPT ![c] = v]
                  /\ UNCHANGED << kernel, available_data, writer_notify,
                                  reader_notify, rd, wr, out, read_success,
                                  write_success, taken >>

-----------------------------------------------------------------------------
(* insert_state() called by a process itself. *)
Pause(p) == /\ Calls(p, "pause")
            /\ ZeroWait(p, {})
            /\ UNCHANGED channel

ReaderStep(c) == \/ ReadNow(c) \/ ReadWait(c) \/ ReadResume(c)
                 \/ TryReadNow(c) \/ TryReadPause(c) \/ TryReadResume(c)

WriterStep(c) == \/ \E v \in Data : \/ Write(c, v)
                                    \/ TryWrite(c, v, "try_write")
                                    \/ TryWrite(c, v, "try_write_success")
                                    \/ Reassign(c, v)
                 \/ WriteResume(c) \/ TryWriteResume(c) \/ TryWriteSuccessResume(c)

Schedule == (DeltaCycle \/ \E p \in Proc : Dispatch(p)) /\ UNCHANGED channel

Next == \/ Schedule
        \/ \E c \in Chan : ReaderStep(c) \/ WriterStep(c)
        \/ \E p \in Proc : Pause(p)

Spec == Init /\ [][Next]_vars

(* The evaluation phase serves the runnable processes in turn, so none is   *)
(* passed over for ever; the process it picked executes and comes to a      *)
(* wait, or nobody else would ever run; a reader goes on reading.           *)
Fairness == /\ WF_vars(Schedule)
            /\ \A p \in Proc : SF_vars(Dispatch(p) /\ UNCHANGED channel)
            /\ \A c \in Chan : /\ SF_vars(ReaderStep(c))
                               /\ WF_vars(WriterStep(c))
                               /\ WF_vars(WriterStep(c) /\ current' # Writer[c])

FairSpec == Spec /\ Fairness

-----------------------------------------------------------------------------
(* Properties *)

(* The two assertions of the library, Blocking.hpp:63 and :202, never fail: *)
(* a process woken out of read() finds data on the channel, and one woken   *)
(* out of write() finds the channel empty, whatever ran in between.         *)
AssertsHold ==
  \A c \in Chan :
    /\ (current = Reader[c] /\ rd[c] = "read") => available_data[c]
    /\ (current = Writer[c] /\ wr[c] = "write") => ~ available_data[c]

(* No notification is lost, although notify() forgets whom it did not find  *)
(* waiting: nobody is left waiting on an event whose condition holds.       *)
NoLostNotification ==
  \A c \in Chan :
    /\ (rd[c] = "read" /\ available_data[c]) => Reader[c] \notin writer_notify[c]
    /\ (wr[c] = "write" /\ ~ available_data[c]) => Writer[c] \notin reader_notify[c]

(* The flag of try_write(val, success) tells the truth (the FIXME at        *)
(* Blocking.hpp:266 asks): success means that the reader took this value    *)
(* during the call, and failure that nobody took it nor can take it later.  *)
SuccessMeansTaken ==
  [][\A c \in Chan :
       (wr[c] = "try_write_success" /\ wr'[c] = "idle") =>
         /\ write_success'[c] = taken[c]
         /\ ~ available_data'[c]]_vars

(* A process is in one place at a time: running, runnable, in a zero-time   *)
(* wait, or waiting on one event of one channel.                            *)
Place(p) ==
  /\ p = current => p \notin runnable
  /\ p \in delta => p # current /\ p \notin runnable
  /\ \A c \in Chan : p \in writer_notify[c] \cup reader_notify[c] =>
       /\ p # current /\ p \notin runnable /\ p \notin delta
       /\ \A d \in Chan : /\ p \in writer_notify[c] => p \notin reader_notify[d]
                          /\ p \in writer_notify[d] \cup reader_notify[d] => c = d

OnePlace == \A p \in Proc : Place(p)

(* A process inside read() waits for data that is not there, or was woken   *)
(* because the data came; in the second case a writer that may withdraw     *)
(* the data is still in its zero-time wait.                                 *)
ReaderEnd(c) ==
  /\ writer_notify[c] \subseteq {Reader[c]}
  /\ rd[c] = "read" =>
       \/ Reader[c] \in writer_notify[c] /\ ~ available_data[c]
       \/ /\ Reader[c] \in runnable \cup {current}
          /\ available_data[c]
          /\ wr[c] = "try_write_success" => Writer[c] \in delta

(* A process inside write() waits for its value to be read, or was woken    *)
(* because it has been; `taken' follows available_data during the call.     *)
WriterEnd(c) ==
  /\ reader_notify[c] \subseteq {Writer[c]}
  /\ wr[c] = "write" =>
       \/ Writer[c] \in reader_notify[c] /\ available_data[c]
       \/ Writer[c] \in runnable \cup {current} /\ ~ available_data[c]
  /\ wr[c] \in {"write", "try_write_success"} => taken[c] = ~ available_data[c]

(* The inductive invariant of the proofs; it implies the ones above.        *)
IInv == /\ TypeOK
        /\ OnePlace
        /\ \A c \in Chan : ReaderEnd(c) /\ WriterEnd(c)

(* For the values of write() the channel is a rendezvous, whatever          *)
(* try_write left there before: none is overwritten, lost, read twice or    *)
(* read with other contents than those written, even though the channel     *)
(* keeps only a pointer into the writer's variables.                        *)
R == INSTANCE Rendezvous WITH
       slot <- [c \in Chan |-> IF available_data[c] THEN << shared_data[c] >>
                                                    ELSE << >>],
       firm <- [c \in Chan |-> wr[c] = "write" /\ available_data[c]]

ImplementsRendezvous == R!Spec

(* Messages keep passing through c: one write() after the other is read.    *)
Exchanging(c) == /\ []<>(wr[c] = "write" /\ available_data[c])
                 /\ []<>(~ available_data[c])

(* The zero-time wait of c's reader never ends: the processes of another    *)
(* channel wake each other, and the evaluation phase goes on for ever.      *)
Starved(c) == /\ <>[](Reader[c] \in delta)
              /\ \E d \in Chan \ {c} : Exchanging(d)

(* If its reader keeps reading, every write() returns, with one exception:  *)
(* the reader may be in a zero-time wait, that of try_read() or of          *)
(* insert_state(), when others begin to exchange blocking messages without  *)
(* a pause.  Nothing else starves it, and no wait for an event is starved.  *)
WriteReturns == \A c \in Chan : []<>(wr[c] # "write") \/ Starved(c)

=============================================================================
