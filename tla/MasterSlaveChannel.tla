-------------------------- MODULE MasterSlaveChannel --------------------------
(***************************************************************************)
(* The channel of example/Interfaces/MasterSlave.hpp: a master waits for   *)
(* the other end, a slave never waits.  register_port() decides during     *)
(* elaboration which kinds of ports may meet on a channel; the calls rely  *)
(* on it, as master_write() notifies nobody and master_read() does not     *)
(* check what it was woken for.                                            *)
(***************************************************************************)
EXTENDS ScKernel

CONSTANTS Chan, Data,
          Reader, Writer,   \* Reader[c] and Writer[c] are the two processes
          Ops               \* "assign", "pause": what else a writer does

ASSUME ChannelAssumption == /\ Reader \in [Chan -> Proc]
                            /\ Writer \in [Chan -> Proc]
                            /\ Ops \subseteq {"assign", "pause"}

VARIABLES phase,          \* "elaboration", then "simulation"
          reader_if,      \* the kind of port bound at either end, or "none"
          writer_if,
          available_data,
          shared_data,    \* what the pointer of that name points to
          writer_notify,  \* the processes waiting on either event
          reader_notify,
          rd, wr,         \* the call suspended at either end, or "idle"
          out             \* `out' of the last call that read

bindings == << phase, reader_if, writer_if >>
channel == << available_data, shared_data, writer_notify, reader_notify, rd, wr, out >>
vars == << kernel, bindings, channel >>

ReaderIfs == {"master_in", "slave_in"}
WriterIfs == {"master_out", "slave_out"}

TypeOK == /\ KernelTypeOK
          /\ phase \in {"elaboration", "simulation"}
          /\ reader_if \in [Chan -> ReaderIfs \cup {"none"}]
          /\ writer_if \in [Chan -> WriterIfs \cup {"none"}]
          /\ available_data \in [Chan -> BOOLEAN]
          /\ shared_data \in [Chan -> Data]
          /\ writer_notify \in [Chan -> SUBSET Proc]
          /\ reader_notify \in [Chan -> SUBSET Proc]
          /\ rd \in [Chan -> {"idle", "master_read"}]
          /\ wr \in [Chan -> {"idle", "master_write"}]
          /\ out \in [Chan -> Data]

(* The readers' variables hold some value before they are read into. *)
Unread == CHOOSE v \in Data : TRUE

(* The constructor; *shared_data (malloc) is uninitialized. *)
ChannelInit == /\ reader_if = [c \in Chan |-> "none"]
               /\ writer_if = [c \in Chan |-> "none"]
               /\ available_data = [c \in Chan |-> FALSE]
               /\ shared_data \in [Chan -> Data]
               /\ writer_notify = [c \in Chan |-> {}]
               /\ reader_notify = [c \in Chan |-> {}]
               /\ rd = [c \in Chan |-> "idle"]
               /\ wr = [c \in Chan |-> "idle"]
               /\ out = [c \in Chan |-> Unread]

Init == KernelInit /\ ChannelInit /\ phase = "elaboration"

-----------------------------------------------------------------------------
(* Elaboration.  A binding that is refused throws and there is no           *)
(* simulation; the ports of a channel register in any order.                *)

Registers == phase = "elaboration" /\ UNCHANGED << kernel, phase, channel >>

RegisterMasterIn(c) == /\ Registers
                       /\ reader_if[c] = "none"
                       /\ writer_if[c] \in {"none", "slave_out"}
                       /\ reader_if' = [reader_if EXCEPT ![c] = "master_in"]
                       /\ UNCHANGED writer_if

(* Mutant: the kind of the reader is not looked at. *)
RegisterMasterOutUnchecked(c) ==
  /\ Registers
  /\ writer_if[c] = "none"
  /\ writer_if' = [writer_if EXCEPT ![c] = "master_out"]
  /\ UNCHANGED reader_if

RegisterMasterOut(c) == /\ Registers
                        /\ writer_if[c] = "none"
                        /\ reader_if[c] \in {"none", "slave_in"}
                        /\ writer_if' = [writer_if EXCEPT ![c] = "master_out"]
                        /\ UNCHANGED reader_if

RegisterSlaveIn(c) == /\ Registers
                      /\ reader_if[c] = "none"
                      /\ reader_if' = [reader_if EXCEPT ![c] = "slave_in"]
                      /\ UNCHANGED writer_if

RegisterSlaveOut(c) == /\ Registers
                       /\ writer_if[c] = "none"
                       /\ writer_if' = [writer_if EXCEPT ![c] = "slave_out"]
                       /\ UNCHANGED reader_if

Register(c) == RegisterMasterIn(c) \/ RegisterMasterOut(c)
               \/ RegisterSlaveIn(c) \/ RegisterSlaveOut(c)

(* Unbound ports are refused by the SystemC library. *)
StartSimulation == /\ phase = "elaboration"
                   /\ \A c \in Chan : "none" \notin {reader_if[c], writer_if[c]}
                   /\ phase' = "simulation"
                   /\ UNCHANGED << kernel, reader_if, writer_if, channel >>

-----------------------------------------------------------------------------
(* Simulation *)

InCall(p) == \E c \in Chan : \/ Reader[c] = p /\ rd[c] # "idle"
                             \/ Writer[c] = p /\ wr[c] # "idle"

Calls(p) == phase = "simulation" /\ current = p /\ ~ InCall(p)

(* Mutant: available_data is not reset. *)
TakeKeepsData(c) == /\ out' = [out EXCEPT ![c] = shared_data[c]]
                    /\ Notify(reader_notify[c])
                    /\ reader_notify' = [reader_notify EXCEPT ![c] = {}]
                    /\ UNCHANGED << bindings, available_data, shared_data, writer_notify, wr >>

(* out = *shared_data; available_data = false; reader_notify.notify() *)
Take(c) == /\ out' = [out EXCEPT ![c] = shared_data[c]]
           /\ available_data' = [available_data EXCEPT ![c] = FALSE]
           /\ Notify(reader_notify[c])
           /\ reader_notify' = [reader_notify EXCEPT ![c] = {}]
           /\ UNCHANGED << bindings, shared_data, writer_notify, wr >>

MasterReadNow(c) == /\ Calls(Reader[c]) /\ reader_if[c] = "master_in"
                    /\ available_data[c]
                    /\ Take(c)
                    /\ UNCHANGED rd

MasterReadWait(c) == /\ Calls(Reader[c]) /\ reader_if[c] = "master_in"
                     /\ ~ available_data[c]
                     /\ Block({})
                     /\ writer_notify' = [writer_notify EXCEPT ![c] = @ \cup {Reader[c]}]
                     /\ rd' = [rd EXCEPT ![c] = "master_read"]
                     /\ UNCHANGED << bindings, available_data, shared_data,
                                     reader_notify, wr, out >>

(* Nothing is checked after the wait, see MasterCallsFind. *)
MasterReadResume(c) == /\ current = Reader[c]
                       /\ rd[c] = "master_read"
                       /\ Take(c)
                       /\ rd' = [rd EXCEPT ![c] = "idle"]

(* Both overloads: `success' says which branch it was. *)
SlaveRead(c) == /\ Calls(Reader[c]) /\ reader_if[c] = "slave_in"
                /\ \/ available_data[c] /\ Take(c)
                   \/ ~ available_data[c] /\ UNCHANGED << kernel, bindings, available_data,
                                   shared_data, writer_notify, reader_notify, wr, out >>
                /\ UNCHANGED rd

(* shared_data = &val; available_data = true *)
Offer(c, v) == /\ Calls(Writer[c])
               /\ shared_data' = [shared_data EXCEPT ![c] = v]
               /\ available_data' = [available_data EXCEPT ![c] = TRUE]
               /\ UNCHANGED << bindings, rd, out >>

MasterWrite(c, v) == /\ writer_if[c] = "master_out"
                     /\ Offer(c, v)
                     /\ Block({})
                     /\ reader_notify' = [reader_notify EXCEPT ![c] = @ \cup {Writer[c]}]
                     /\ wr' = [wr EXCEPT ![c] = "master_write"]
                     /\ UNCHANGED writer_notify

(* assert(!available_data) aborts the simulation, see MasterCallsFind. *)
MasterWriteResume(c) == /\ current = Writer[c]
                        /\ wr[c] = "master_write"
                        /\ ~ available_data[c]
                        /\ wr' = [wr EXCEPT ![c] = "idle"]
                        /\ UNCHANGED << kernel, bindings, available_data, shared_data,
                                        writer_notify, reader_notify, rd, out >>

(* Mutant: nobody is notified, as in master_write(). *)
SlaveWriteSilently(c, v) == /\ writer_if[c] = "slave_out"
                            /\ Offer(c, v)
                            /\ UNCHANGED << kernel, writer_notify, reader_notify, wr >>

SlaveWrite(c, v) == /\ writer_if[c] = "slave_out"
                    /\ Offer(c, v)
                    /\ Notify(writer_notify[c])
                    /\ writer_notify' = [writer_notify EXCEPT ![c] = {}]
                    /\ UNCHANGED << reader_notify, wr >>

(* The variable that was passed is the writer's own. *)
Reassign(c, v) == /\ "assign" \in Ops /\ Calls(Writer[c])
                  /\ shared_data' = [shared_data EXCEPT ![c] = v]
                  /\ UNCHANGED << kernel, bindings, available_data, writer_notify,
                                  reader_notify, rd, wr, out >>

(* Slaves do not wait in their calls: insert_state() hands over. *)
Pause(p) == /\ "pause" \in Ops /\ Calls(p)
            /\ ZeroWait(p, {})
            /\ UNCHANGED << bindings, channel >>

ReaderStep(c) == \/ MasterReadNow(c) \/ MasterReadWait(c) \/ MasterReadResume(c)
                 \/ SlaveRead(c)

WriterStep(c) == \/ \E v \in Data : MasterWrite(c, v) \/ SlaveWrite(c, v) \/ Reassign(c, v)
                 \/ MasterWriteResume(c)

Schedule == /\ phase = "simulation"
            /\ DeltaCycle \/ \E p \in Proc : Dispatch(p)
            /\ UNCHANGED << bindings, channel >>

Next == \/ StartSimulation
        \/ Schedule
        \/ \E c \in Chan : Register(c) \/ ReaderStep(c) \/ WriterStep(c)
        \/ \E p \in Proc : Pause(p)

Spec == Init /\ [][Next]_vars

(* The scheduler serves everybody; modules go on calling, and a slave both  *)
(* polls its port and hands over again and again.                           *)
Fairness == /\ WF_vars(StartSimulation)
            /\ WF_vars(Schedule)
            /\ \A p \in Proc : /\ SF_vars(Dispatch(p) /\ UNCHANGED << bindings, channel >>)
                               /\ SF_vars(Pause(p))
            /\ \A c \in Chan : /\ WF_vars(Register(c))
                               /\ SF_vars(ReaderStep(c))
                               /\ WF_vars(MasterWriteResume(c))
                               /\ SF_vars(\E v \in Data : SlaveWrite(c, v))

FairSpec == Spec /\ Fairness

-----------------------------------------------------------------------------
(* Properties *)

(* Only the pairings that the comment of register_port lists come up for    *)
(* simulation, in whatever order the ports register; two masters, who would *)
(* wait for each other, never meet.                                         *)
AllowedPairings ==
  phase = "simulation" =>
    \A c \in Chan : << reader_if[c], writer_if[c] >> \in
      {<<"master_in", "slave_out">>, <<"slave_in", "master_out">>, <<"slave_in", "slave_out">>}

(* A master finds what it was woken for: master_write() that its value is   *)
(* gone (the assertion at MasterSlave.hpp:57), master_read() that there is  *)
(* a new one, which the code relies on without an assertion.                *)
MasterCallsFind ==
  \A c \in Chan :
    /\ (current = Reader[c] /\ rd[c] = "master_read") => available_data[c]
    /\ (current = Writer[c] /\ wr[c] = "master_write") => ~ available_data[c]

(* No master waits on an event whose condition holds already, although      *)
(* master_write() notifies nobody.                                          *)
NoLostNotification ==
  \A c \in Chan :
    /\ (rd[c] = "master_read" /\ available_data[c]) => Reader[c] \notin writer_notify[c]
    /\ (wr[c] = "master_write" /\ ~ available_data[c]) => Writer[c] \notin reader_notify[c]

(* "Master write should definitely be read" (MasterSlave.hpp:22): at a      *)
(* master_out port every value stays as it was written until it is read,    *)
(* once, although the channel keeps only its address.                       *)
R == INSTANCE Rendezvous WITH
       slot <- [c \in Chan |-> IF writer_if[c] = "master_out" /\ available_data[c]
                               THEN << shared_data[c] >> ELSE << >>],
       firm <- [c \in Chan |-> writer_if[c] = "master_out" /\ available_data[c]],
       out <- [c \in Chan |-> IF writer_if[c] = "slave_out" THEN Unread ELSE out[c]]

MasterWriteIsRendezvous == R!Spec

(* A master's call returns as long as the slave at the other end keeps      *)
(* polling or writing.                                                      *)
MasterCallsReturn == \A c \in Chan : /\ (wr[c] = "master_write") ~> (wr[c] = "idle")
                                     /\ (rd[c] = "master_read") ~> (rd[c] = "idle")

=============================================================================
