----------------------- MODULE MasterSlaveChannel_proofs -----------------------
(***************************************************************************)
(* Proofs about MasterSlaveChannel for every set of processes, channels    *)
(* and values and every order in which ports are registered.               *)
(***************************************************************************)
EXTENDS MasterSlaveChannel, TLAPS

(* A process is in one place at a time: running, runnable, in a zero-time   *)
(* wait, or waiting on one event of one channel.                            *)
Place(p) ==
  /\ p = current => p \notin runnable
  /\ p \in delta => p # current /\ p \notin runnable
  /\ \A c \in Chan : p \in writer_notify[c] \cup reader_notify[c] =>
       /\ p # current /\ p \notin runnable /\ p \notin delta
       /\ \A d \in Chan : /\ p \in writer_notify[c] => p \notin reader_notify[d]
                          /\ p \in writer_notify[d] \cup reader_notify[d] => c = d

OnePlace == \A p \in Proc : Place(p)

(* Before the simulation starts nothing runs, and nothing has been offered. *)
Unstarted ==
  phase = "elaboration" =>
    current = NoProc /\ \A c \in Chan : ~ available_data[c] /\ out[c] = Unread

(* The ends that have registered so far may meet; in the simulation both    *)
(* have.                                                                    *)
Bound(c) ==
  /\ reader_if[c] = "master_in" => writer_if[c] # "master_out"
  /\ phase = "simulation" => reader_if[c] # "none" /\ writer_if[c] # "none"

(* A master that reads waits for data that is not there, or was woken       *)
(* because a slave wrote; nobody else takes the data.                       *)
ReaderEnd(c) ==
  /\ writer_notify[c] \subseteq {Reader[c]}
  /\ rd[c] = "master_read" =>
       /\ reader_if[c] = "master_in"
       /\ \/ Reader[c] \in writer_notify[c] /\ ~ available_data[c]
          \/ Reader[c] \in runnable \cup {current} /\ available_data[c]

(* A master that writes waits for its value to be read, or was woken        *)
(* because it has been; what a master offered is there during the call      *)
(* only.                                                                    *)
WriterEnd(c) ==
  /\ reader_notify[c] \subseteq {Writer[c]}
  /\ wr[c] = "master_write" =>
       /\ writer_if[c] = "master_out"
       /\ \/ Writer[c] \in reader_notify[c] /\ available_data[c]
          \/ Writer[c] \in runnable \cup {current} /\ ~ available_data[c]
  /\ writer_if[c] = "master_out" /\ available_data[c] => wr[c] = "master_write"

(* The inductive invariant. *)
IInv == /\ TypeOK
        /\ OnePlace
        /\ Unstarted
        /\ \A c \in Chan : Bound(c) /\ ReaderEnd(c) /\ WriterEnd(c)

(* Initially nobody waits, nothing is bound and no channel holds data.      *)
LEMMA InitIInv == Init => IInv
<1> SUFFICES ASSUME Init PROVE IInv
  OBVIOUS
<1> USE NoProcAssumption, ChannelAssumption DEF Init, KernelInit, ChannelInit
<1>1. TypeOK
  <2>1. ASSUME NEW c \in Chan PROVE Unread \in Data
    <3>1. shared_data[c] \in Data
      OBVIOUS
    <3> QED
      BY <3>1 DEF Unread
  <2>2. out \in [Chan -> Data]
    BY <2>1
  <2> QED
    BY <2>2 DEF TypeOK, KernelTypeOK
<1>2. OnePlace
  BY DEF OnePlace, Place
<1>3. Unstarted
  BY DEF Unstarted
<1>4. \A c \in Chan : Bound(c) /\ ReaderEnd(c) /\ WriterEnd(c)
  BY DEF Bound, ReaderEnd, WriterEnd
<1> QED
  BY <1>1, <1>2, <1>3, <1>4 DEF IInv

-----------------------------------------------------------------------------
(* Every step of a channel, of its binding or of the scheduler keeps the    *)
(* types.                                                                   *)
LEMMA TakeType ==
  ASSUME TypeOK, NEW c \in Chan, Take(c), rd' \in [Chan -> {"idle", "master_read"}]
  PROVE  TypeOK'
<1>1. KernelTypeOK'
  BY DEF Take, Notify, TypeOK, KernelTypeOK
<1>2. out' \in [Chan -> Data] /\ available_data' \in [Chan -> BOOLEAN]
  BY DEF Take, TypeOK
<1>3. reader_notify' \in [Chan -> SUBSET Proc]
  BY DEF Take, TypeOK
<1> QED
  BY <1>1, <1>2, <1>3 DEF Take, bindings, TypeOK

LEMMA OfferType ==
  ASSUME TypeOK, NEW c \in Chan, NEW v \in Data, Offer(c, v), KernelTypeOK',
         writer_notify' \in [Chan -> SUBSET Proc], reader_notify' \in [Chan -> SUBSET Proc],
         wr' \in [Chan -> {"idle", "master_write"}]
  PROVE  TypeOK'
<1>1. shared_data' \in [Chan -> Data]
  BY DEF Offer, TypeOK
<1>2. available_data' \in [Chan -> BOOLEAN]
  BY DEF Offer, TypeOK
<1> QED
  BY <1>1, <1>2 DEF Offer, bindings, TypeOK

LEMMA NextType == TypeOK /\ [Next]_vars => TypeOK'
<1> SUFFICES ASSUME TypeOK, [Next]_vars PROVE TypeOK'
  OBVIOUS
<1> USE NoProcAssumption, ChannelAssumption
<1>1. KernelTypeOK
  BY DEF TypeOK
<1>2. CASE UNCHANGED vars
  BY <1>2 DEF vars, kernel, bindings, channel, TypeOK, KernelTypeOK
<1>3. CASE StartSimulation
  BY <1>3 DEF StartSimulation, kernel, channel, TypeOK, KernelTypeOK
<1>4. CASE DeltaCycle /\ UNCHANGED << bindings, channel >>
  BY <1>4 DEF DeltaCycle, bindings, channel, TypeOK, KernelTypeOK
<1>5. ASSUME NEW p \in Proc, Dispatch(p), UNCHANGED << bindings, channel >> PROVE TypeOK'
  BY <1>5 DEF Dispatch, bindings, channel, TypeOK, KernelTypeOK
<1>6. ASSUME NEW p \in Proc, Pause(p) PROVE TypeOK'
  BY <1>6 DEF Pause, ZeroWait, bindings, channel, TypeOK, KernelTypeOK
<1>7. ASSUME NEW c \in Chan, Register(c) PROVE TypeOK'
  <2>1. /\ UNCHANGED << kernel, phase, channel >>
        /\ reader_if' \in [Chan -> ReaderIfs \cup {"none"}]
    BY <1>7 DEF Register, Registers, RegisterMasterIn, RegisterMasterOut, RegisterSlaveIn,
                RegisterSlaveOut, ReaderIfs, TypeOK
  <2>2. writer_if' \in [Chan -> WriterIfs \cup {"none"}]
    BY <1>7 DEF Register, RegisterMasterIn, RegisterMasterOut, RegisterSlaveIn,
                RegisterSlaveOut, WriterIfs, TypeOK
  <2> QED
    BY <2>1, <2>2 DEF kernel, channel, TypeOK, KernelTypeOK
<1>8. ASSUME NEW c \in Chan, MasterReadNow(c) PROVE TypeOK'
  BY <1>8, TakeType DEF MasterReadNow, TypeOK
<1>9. ASSUME NEW c \in Chan, MasterReadWait(c) PROVE TypeOK'
  <2>1. Reader[c] \in Proc
    OBVIOUS
  <2>2. KernelTypeOK'
    BY <1>1, <1>9 DEF MasterReadWait, Block, KernelTypeOK
  <2>3. writer_notify' \in [Chan -> SUBSET Proc]
    BY <1>9, <2>1 DEF MasterReadWait, TypeOK
  <2>4. rd' \in [Chan -> {"idle", "master_read"}]
    BY <1>9 DEF MasterReadWait, TypeOK
  <2> QED
    BY <1>9, <2>2, <2>3, <2>4 DEF MasterReadWait, bindings, TypeOK
<1>10. ASSUME NEW c \in Chan, MasterReadResume(c) PROVE TypeOK'
  <2>1. rd' \in [Chan -> {"idle", "master_read"}]
    BY <1>10 DEF MasterReadResume, TypeOK
  <2> QED
    BY <1>10, <2>1, TakeType DEF MasterReadResume
<1>11. ASSUME NEW c \in Chan, SlaveRead(c) PROVE TypeOK'
  <2>1. CASE Take(c)
    BY <1>11, <2>1, TakeType DEF SlaveRead, TypeOK
  <2>2. CASE ~ Take(c)
    BY <1>1, <1>11, <2>2 DEF SlaveRead, kernel, bindings, TypeOK, KernelTypeOK
  <2> QED
    BY <2>1, <2>2
<1>12. ASSUME NEW c \in Chan, NEW v \in Data, MasterWrite(c, v) PROVE TypeOK'
  <2>1. Writer[c] \in Proc
    OBVIOUS
  <2>2. KernelTypeOK'
    BY <1>1, <1>12 DEF MasterWrite, Block, KernelTypeOK
  <2>3. reader_notify' \in [Chan -> SUBSET Proc]
    BY <1>12, <2>1 DEF MasterWrite, TypeOK
  <2>4. wr' \in [Chan -> {"idle", "master_write"}]
    BY <1>12 DEF MasterWrite, TypeOK
  <2> QED
    BY <1>12, <2>2, <2>3, <2>4, OfferType DEF MasterWrite, TypeOK
<1>13. ASSUME NEW c \in Chan, NEW v \in Data, SlaveWrite(c, v) PROVE TypeOK'
  <2>1. KernelTypeOK'
    BY <1>1, <1>13 DEF SlaveWrite, Notify, TypeOK, KernelTypeOK
  <2>2. writer_notify' \in [Chan -> SUBSET Proc]
    BY <1>13 DEF SlaveWrite, TypeOK
  <2> QED
    BY <1>13, <2>1, <2>2, OfferType DEF SlaveWrite, TypeOK
<1>14. ASSUME NEW c \in Chan, NEW v \in Data, Reassign(c, v) PROVE TypeOK'
  BY <1>1, <1>14 DEF Reassign, kernel, bindings, TypeOK, KernelTypeOK
<1>15. ASSUME NEW c \in Chan, MasterWriteResume(c) PROVE TypeOK'
  BY <1>1, <1>15 DEF MasterWriteResume, kernel, bindings, TypeOK, KernelTypeOK
<1> QED
  BY <1>2, <1>3, <1>4, <1>5, <1>6, <1>7, <1>8, <1>9, <1>10, <1>11, <1>12, <1>13, <1>14, <1>15
     DEF Next, Schedule, ReaderStep, WriterStep

-----------------------------------------------------------------------------
(* No step puts a process in two places.                                    *)
LEMMA NextPlaces == TypeOK /\ OnePlace /\ [Next]_vars => OnePlace'
<1> SUFFICES ASSUME TypeOK, OnePlace, [Next]_vars, NEW p \in Proc PROVE Place(p)'
  BY DEF OnePlace
<1> USE NoProcAssumption, ChannelAssumption
<1>1. Place(p)
  BY DEF OnePlace
<1>2. CASE UNCHANGED << kernel, writer_notify, reader_notify >>
  BY <1>1, <1>2 DEF kernel, Place
<1>3. CASE DeltaCycle /\ UNCHANGED << bindings, channel >>
  BY <1>1, <1>3 DEF DeltaCycle, channel, Place, TypeOK, KernelTypeOK
<1>4. ASSUME NEW q \in Proc, Dispatch(q), UNCHANGED << bindings, channel >> PROVE Place(p)'
  BY <1>1, <1>4 DEF Dispatch, channel, Place
<1>5. ASSUME NEW q \in Proc, Pause(q) PROVE Place(p)'
  BY <1>1, <1>5 DEF Pause, Calls, ZeroWait, channel, Place
<1>6. ASSUME NEW c \in Chan, Take(c) PROVE Place(p)'
  <2>1. \A d \in Chan : /\ writer_notify'[d] = writer_notify[d]
                        /\ reader_notify'[d] = IF d = c THEN {} ELSE reader_notify[d]
    BY <1>6 DEF Take, TypeOK
  <2>2. current' = current /\ delta' = delta /\ runnable' = runnable \cup reader_notify[c]
    BY <1>6 DEF Take, Notify
  <2> QED
    BY <1>1, <2>1, <2>2 DEF Place
<1>7. ASSUME NEW c \in Chan, MasterReadWait(c) PROVE Place(p)'
  <2>1. /\ current = Reader[c] /\ current' = NoProc
        /\ runnable' = runnable /\ delta' = delta /\ reader_notify' = reader_notify
    BY <1>7 DEF MasterReadWait, Calls, Block
  <2>2. \A d \in Chan : writer_notify'[d] = IF d = c THEN writer_notify[d] \cup {current}
                                                     ELSE writer_notify[d]
    BY <1>7, <2>1 DEF MasterReadWait, TypeOK
  <2>3. CASE p = current
    BY <1>1, <2>1, <2>2, <2>3 DEF Place
  <2>4. CASE p # current
    <3>1. \A e \in Chan : p \in writer_notify'[e] => p \in writer_notify[e]
      BY <2>2, <2>4
    <3> QED
      BY <1>1, <2>1, <3>1 DEF Place
  <2> QED
    BY <2>3, <2>4
<1>8. ASSUME NEW c \in Chan, NEW v \in Data, MasterWrite(c, v) PROVE Place(p)'
  <2>1. /\ current = Writer[c] /\ current' = NoProc
        /\ runnable' = runnable /\ delta' = delta /\ writer_notify' = writer_notify
    BY <1>8 DEF MasterWrite, Offer, Calls, Block
  <2>2. \A d \in Chan : reader_notify'[d] = IF d = c THEN reader_notify[d] \cup {current}
                                                     ELSE reader_notify[d]
    BY <1>8, <2>1 DEF MasterWrite, TypeOK
  <2>3. CASE p = current
    BY <1>1, <2>1, <2>2, <2>3 DEF Place
  <2>4. CASE p # current
    <3>1. \A e \in Chan : p \in reader_notify'[e] => p \in reader_notify[e]
      BY <2>2, <2>4
    <3> QED
      BY <1>1, <2>1, <3>1 DEF Place
  <2> QED
    BY <2>3, <2>4
<1>9. ASSUME NEW c \in Chan, NEW v \in Data, SlaveWrite(c, v) PROVE Place(p)'
  <2>1. /\ current' = current /\ delta' = delta /\ reader_notify' = reader_notify
        /\ runnable' = runnable \cup writer_notify[c]
    BY <1>9 DEF SlaveWrite, Notify
  <2>2. \A d \in Chan : writer_notify'[d] = IF d = c THEN {} ELSE writer_notify[d]
    BY <1>9 DEF SlaveWrite, TypeOK
  <2> QED
    BY <1>1, <2>1, <2>2 DEF Place
<1>10. ASSUME NEW c \in Chan, ReaderStep(c) PROVE Place(p)'
  BY <1>2, <1>6, <1>7, <1>10
     DEF ReaderStep, MasterReadNow, MasterReadResume, SlaveRead
<1>11. ASSUME NEW c \in Chan, WriterStep(c) PROVE Place(p)'
  BY <1>2, <1>8, <1>9, <1>11 DEF WriterStep, Reassign, MasterWriteResume
<1>12. ASSUME NEW c \in Chan, Register(c) PROVE Place(p)'
  BY <1>2, <1>12 DEF Register, Registers, RegisterMasterIn, RegisterMasterOut, RegisterSlaveIn,
                     RegisterSlaveOut, channel
<1> QED
  BY <1>2, <1>3, <1>4, <1>5, <1>10, <1>11, <1>12
     DEF Next, StartSimulation, Schedule, vars, channel

-----------------------------------------------------------------------------
(* Before the simulation a step binds one port, or starts the simulation.   *)
LEMMA NextUnstarted == TypeOK /\ Unstarted /\ [Next]_vars => Unstarted'
<1> SUFFICES ASSUME TypeOK, Unstarted, [Next]_vars, phase' = "elaboration" PROVE Unstarted'
  BY DEF Unstarted
<1> USE NoProcAssumption, ChannelAssumption
<1>1. ASSUME UNCHANGED << kernel, phase, channel >> PROVE Unstarted'
  BY <1>1 DEF kernel, channel, Unstarted
<1>2. CASE UNCHANGED vars
  BY <1>1, <1>2 DEF vars, bindings
<1>3. CASE StartSimulation
  BY <1>3 DEF StartSimulation
<1>4. CASE Schedule
  BY <1>4 DEF Schedule, bindings
<1>5. ASSUME NEW c \in Chan, Register(c) PROVE Unstarted'
  BY <1>1, <1>5 DEF Register, Registers, RegisterMasterIn, RegisterMasterOut, RegisterSlaveIn,
                    RegisterSlaveOut
<1>6. ASSUME NEW p \in Proc, Pause(p) PROVE Unstarted'
  BY <1>6 DEF Pause, Calls, bindings
<1>7. ASSUME NEW c \in Chan, ReaderStep(c) \/ WriterStep(c) PROVE FALSE
  <2>1. phase' = phase
    BY <1>7 DEF ReaderStep, MasterReadNow, MasterReadWait, MasterReadResume, SlaveRead, Take,
                WriterStep, MasterWrite, SlaveWrite, Offer, Reassign, MasterWriteResume, bindings
  <2>2. current \in Proc
    BY <1>7 DEF ReaderStep, MasterReadNow, MasterReadWait, MasterReadResume, SlaveRead, Calls,
                WriterStep, MasterWrite, SlaveWrite, Offer, Reassign, MasterWriteResume
  <2> QED
    BY <2>1, <2>2 DEF Unstarted
<1> QED
  BY <1>2, <1>3, <1>4, <1>5, <1>6, <1>7 DEF Next

(* A calling process runs, so the simulation does.                          *)
LEMMA Simulating ==
  ASSUME TypeOK, Unstarted, current \in Proc
  PROVE  phase = "simulation"
BY NoProcAssumption DEF Unstarted, TypeOK

(* No port registers where it would make two masters meet, whichever came   *)
(* first.                                                                   *)
LEMMA NextBound ==
  ASSUME TypeOK, [Next]_vars, NEW d \in Chan, Bound(d)
  PROVE  Bound(d)'
<1>1. CASE UNCHANGED bindings
  BY <1>1 DEF bindings, Bound
<1>2. CASE StartSimulation
  BY <1>2 DEF StartSimulation, Bound
<1>3. ASSUME NEW c \in Chan, Register(c) PROVE Bound(d)'
  <2>1. phase' = phase /\ phase = "elaboration"
    BY <1>3 DEF Register, Registers, RegisterMasterIn, RegisterMasterOut, RegisterSlaveIn,
                RegisterSlaveOut
  <2>2. CASE RegisterMasterIn(c)
    BY <2>1, <2>2 DEF RegisterMasterIn, Bound, TypeOK
  <2>3. CASE RegisterMasterOut(c)
    BY <2>1, <2>3 DEF RegisterMasterOut, Bound, TypeOK
  <2>4. CASE RegisterSlaveIn(c)
    BY <2>1, <2>4 DEF RegisterSlaveIn, Bound, TypeOK
  <2>5. CASE RegisterSlaveOut(c)
    BY <2>1, <2>5 DEF RegisterSlaveOut, Bound, TypeOK
  <2> QED
    BY <1>3, <2>2, <2>3, <2>4, <2>5 DEF Register
<1>4. ASSUME NEW c \in Chan, ReaderStep(c) \/ WriterStep(c) PROVE UNCHANGED bindings
  BY <1>4 DEF ReaderStep, MasterReadNow, MasterReadWait, MasterReadResume, SlaveRead, Take,
              WriterStep, MasterWrite, SlaveWrite, Offer, Reassign, MasterWriteResume
<1> QED
  BY <1>1, <1>2, <1>3, <1>4 DEF Next, Schedule, Pause, vars

-----------------------------------------------------------------------------
(* A port that registers is not in use: the ends in use stay as they are.   *)
LEMMA RegisterEnds ==
  ASSUME IInv, NEW c \in Chan, Register(c), NEW d \in Chan
  PROVE  ReaderEnd(d)' /\ WriterEnd(d)'
<1>1. TypeOK /\ ReaderEnd(d) /\ WriterEnd(d) /\ ~ available_data[d]
  BY DEF IInv, Unstarted, Register, Registers, RegisterMasterIn, RegisterMasterOut,
         RegisterSlaveIn, RegisterSlaveOut
<1>2. UNCHANGED << kernel, channel >>
  BY DEF Register, Registers, RegisterMasterIn, RegisterMasterOut, RegisterSlaveIn,
         RegisterSlaveOut
<1>3. /\ reader_if[d] = "master_in" => reader_if'[d] = "master_in"
      /\ writer_if[d] = "master_out" => writer_if'[d] = "master_out"
  BY <1>1 DEF Register, RegisterMasterIn, RegisterMasterOut, RegisterSlaveIn, RegisterSlaveOut,
              TypeOK
<1>4. ReaderEnd(d)'
  BY <1>1, <1>2, <1>3 DEF kernel, channel, ReaderEnd
<1>5. WriterEnd(d)'
  BY <1>1, <1>2, <1>3 DEF kernel, channel, WriterEnd
<1> QED
  BY <1>4, <1>5

(* Reading wakes the master that waits for it.                              *)
LEMMA TakeEnds ==
  ASSUME IInv, NEW c \in Chan, Take(c), current = Reader[c], rd'[c] = "idle",
         \A d \in Chan \ {c} : rd'[d] = rd[d], NEW d \in Chan
  PROVE  ReaderEnd(d)' /\ WriterEnd(d)'
<1>1. TypeOK /\ ReaderEnd(d) /\ WriterEnd(d)
  BY DEF IInv
<1>2. /\ current' = current /\ wr' = wr /\ writer_notify' = writer_notify
      /\ UNCHANGED << reader_if, writer_if >>
      /\ runnable' = runnable \cup reader_notify[c]
  BY DEF Take, Notify, bindings
<1>3. /\ available_data'[d] = IF d = c THEN FALSE ELSE available_data[d]
      /\ reader_notify'[d] = IF d = c THEN {} ELSE reader_notify[d]
  BY <1>1 DEF Take, TypeOK
<1>4. ReaderEnd(d)'
  BY <1>1, <1>2, <1>3 DEF ReaderEnd
<1>5. WriterEnd(d)'
  BY <1>1, <1>2, <1>3 DEF WriterEnd
<1> QED
  BY <1>4, <1>5

(* Every step keeps the two ends of every channel consistent.               *)
LEMMA NextEnds ==
  ASSUME IInv, [Next]_vars, NEW d \in Chan
  PROVE  ReaderEnd(d)' /\ WriterEnd(d)'
<1> USE NoProcAssumption, ChannelAssumption
<1>1. TypeOK /\ OnePlace /\ Unstarted /\ Bound(d) /\ ReaderEnd(d) /\ WriterEnd(d)
  BY DEF IInv
<1>2. CASE UNCHANGED << kernel, reader_if, writer_if, available_data, writer_notify,
                        reader_notify, rd, wr >>
  BY <1>1, <1>2 DEF kernel, ReaderEnd, WriterEnd
<1>3. CASE DeltaCycle /\ UNCHANGED << bindings, channel >>
  BY <1>1, <1>3 DEF DeltaCycle, bindings, channel, ReaderEnd, WriterEnd
<1>4. ASSUME NEW p \in Proc, Dispatch(p), UNCHANGED << bindings, channel >>
      PROVE ReaderEnd(d)' /\ WriterEnd(d)'
  BY <1>1, <1>4 DEF Dispatch, bindings, channel, ReaderEnd, WriterEnd
<1>5. ASSUME NEW p \in Proc, Pause(p) PROVE ReaderEnd(d)' /\ WriterEnd(d)'
  <2>1. /\ rd[d] = "master_read" => Reader[d] # current
        /\ wr[d] = "master_write" => Writer[d] # current
    BY <1>5 DEF Pause, Calls, InCall
  <2> QED
    BY <1>1, <1>5, <2>1 DEF Pause, ZeroWait, bindings, channel, ReaderEnd, WriterEnd
<1>6. ASSUME NEW c \in Chan, Take(c), current = Reader[c], ~ InCall(current), rd' = rd
      PROVE ReaderEnd(d)' /\ WriterEnd(d)'
  <2>1. rd[c] = "idle"
    BY <1>6 DEF InCall
  <2> QED
    BY <1>6, <2>1, TakeEnds
<1>7. ASSUME NEW c \in Chan, MasterReadNow(c) \/ SlaveRead(c) PROVE ReaderEnd(d)' /\ WriterEnd(d)'
  BY <1>2, <1>6, <1>7 DEF MasterReadNow, SlaveRead, Calls, bindings
<1>8. ASSUME NEW c \in Chan, MasterReadResume(c) PROVE ReaderEnd(d)' /\ WriterEnd(d)'
  <2>1. rd'[c] = "idle" /\ \A e \in Chan \ {c} : rd'[e] = rd[e]
    BY <1>1, <1>8 DEF MasterReadResume, TypeOK
  <2> QED
    BY <1>8, <2>1, TakeEnds DEF MasterReadResume
<1>9. ASSUME NEW c \in Chan, MasterReadWait(c) PROVE ReaderEnd(d)' /\ WriterEnd(d)'
  <2>1. /\ current = Reader[c] /\ ~ InCall(current) /\ ~ available_data[c]
        /\ reader_if[c] = "master_in" /\ current' = NoProc /\ runnable' = runnable
        /\ UNCHANGED << reader_if, writer_if, available_data, reader_notify, wr >>
    BY <1>9 DEF MasterReadWait, Calls, Block, bindings
  <2>2. /\ rd[d] = "master_read" => Reader[d] # current
        /\ wr[d] = "master_write" => Writer[d] # current
    BY <2>1 DEF InCall
  <2>3. /\ writer_notify'[d] = IF d = c THEN writer_notify[d] \cup {current} ELSE writer_notify[d]
        /\ rd'[d] = IF d = c THEN "master_read" ELSE rd[d]
    BY <1>1, <1>9, <2>1 DEF MasterReadWait, TypeOK
  <2>4. ReaderEnd(d)'
    BY <1>1, <2>1, <2>2, <2>3 DEF ReaderEnd
  <2>5. WriterEnd(d)'
    BY <1>1, <2>1, <2>2 DEF WriterEnd
  <2> QED
    BY <2>4, <2>5
<1>10. ASSUME NEW c \in Chan, NEW v \in Data, MasterWrite(c, v)
       PROVE ReaderEnd(d)' /\ WriterEnd(d)'
  <2>1. /\ current = Writer[c] /\ ~ InCall(current) /\ writer_if[c] = "master_out"
        /\ current' = NoProc /\ runnable' = runnable
        /\ UNCHANGED << reader_if, writer_if, writer_notify, rd >>
    BY <1>10 DEF MasterWrite, Offer, Calls, Block, bindings
  <2>2. /\ rd[d] = "master_read" => Reader[d] # current
        /\ wr[d] = "master_write" => Writer[d] # current
    BY <2>1 DEF InCall
  <2>3. /\ available_data'[d] = IF d = c THEN TRUE ELSE available_data[d]
        /\ reader_notify'[d] = IF d = c THEN reader_notify[d] \cup {current} ELSE reader_notify[d]
        /\ wr'[d] = IF d = c THEN "master_write" ELSE wr[d]
    BY <1>1, <1>10, <2>1 DEF MasterWrite, Offer, TypeOK
  <2>4. d = c => rd[d] # "master_read"
    BY <1>1, <2>1 DEF Bound, ReaderEnd
  <2>5. ReaderEnd(d)'
    BY <1>1, <2>1, <2>2, <2>3, <2>4 DEF ReaderEnd
  <2>6. WriterEnd(d)'
    BY <1>1, <2>1, <2>2, <2>3 DEF WriterEnd
  <2> QED
    BY <2>5, <2>6
<1>11. ASSUME NEW c \in Chan, NEW v \in Data, SlaveWrite(c, v)
       PROVE ReaderEnd(d)' /\ WriterEnd(d)'
  <2>1. /\ current = Writer[c] /\ current' = current /\ writer_if[c] = "slave_out"
        /\ runnable' = runnable \cup writer_notify[c]
        /\ UNCHANGED << reader_if, writer_if, reader_notify, rd, wr >>
    BY <1>11 DEF SlaveWrite, Offer, Calls, Notify, bindings
  <2>2. /\ available_data'[d] = IF d = c THEN TRUE ELSE available_data[d]
        /\ writer_notify'[d] = IF d = c THEN {} ELSE writer_notify[d]
    BY <1>1, <1>11 DEF SlaveWrite, Offer, TypeOK
  <2>3. ReaderEnd(d)'
    BY <1>1, <2>1, <2>2 DEF ReaderEnd
  <2>4. WriterEnd(d)'
    BY <1>1, <2>1, <2>2 DEF WriterEnd
  <2> QED
    BY <2>3, <2>4
<1>12. ASSUME NEW c \in Chan, NEW v \in Data, Reassign(c, v)
       PROVE ReaderEnd(d)' /\ WriterEnd(d)'
  BY <1>2, <1>12 DEF Reassign, bindings
<1>13. ASSUME NEW c \in Chan, MasterWriteResume(c) PROVE ReaderEnd(d)' /\ WriterEnd(d)'
  <2>1. wr'[d] = wr[d] \/ (wr'[d] = "idle" /\ ~ available_data[d])
    BY <1>1, <1>13 DEF MasterWriteResume, TypeOK
  <2> QED
    BY <1>1, <1>13, <2>1 DEF MasterWriteResume, kernel, bindings, ReaderEnd, WriterEnd
<1>14. CASE StartSimulation
  BY <1>2, <1>14 DEF StartSimulation, channel
<1> QED
  BY <1>2, <1>3, <1>4, <1>5, <1>7, <1>8, <1>9, <1>10, <1>11, <1>12, <1>13, <1>14, RegisterEnds
     DEF Next, Schedule, ReaderStep, WriterStep, vars, bindings, channel

-----------------------------------------------------------------------------
LEMMA NextIInv == IInv /\ [Next]_vars => IInv'
BY NextType, NextPlaces, NextUnstarted, NextBound, NextEnds DEF IInv

(* The inductive invariant.                                                 *)
THEOREM Invariance == Spec => []IInv
BY InitIInv, NextIInv, PTL DEF Spec

(* The variables keep their types.                                          *)
THEOREM TypeCorrect == Spec => []TypeOK
<1>1. IInv => TypeOK
  BY DEF IInv
<1> QED
  BY <1>1, Invariance, PTL

(* Two masters never meet, however the ports register.                      *)
THEOREM MastersMeetSlaves == Spec => []AllowedPairings
<1>1. IInv => AllowedPairings
  BY DEF IInv, Bound, AllowedPairings, TypeOK, ReaderIfs, WriterIfs
<1> QED
  BY <1>1, Invariance, PTL

(* The assertion of master_write() never fails, and master_read() reads     *)
(* nothing that is not there.                                               *)
THEOREM MastersFind == Spec => []MasterCallsFind
<1>1. IInv => MasterCallsFind
  BY ChannelAssumption DEF IInv, OnePlace, Place, ReaderEnd, WriterEnd, MasterCallsFind
<1> QED
  BY <1>1, Invariance, PTL

(* No master is left waiting for what has already happened.                 *)
THEOREM NotificationsArrive == Spec => []NoLostNotification
<1>1. IInv => NoLostNotification
  BY ChannelAssumption DEF IInv, OnePlace, Place, ReaderEnd, WriterEnd, NoLostNotification
<1> QED
  BY <1>1, Invariance, PTL

-----------------------------------------------------------------------------
(* What the mapping to Rendezvous makes of a state, channel by channel: the *)
(* offer and what was read at a channel whose writer is a master.           *)
Firm(c) == writer_if[c] = "master_out" /\ available_data[c]
Slot(c) == IF writer_if[c] = "master_out" /\ available_data[c] THEN << shared_data[c] >> ELSE << >>
Read(c) == IF writer_if[c] = "slave_out" THEN Unread ELSE out[c]
firms == [c \in Chan |-> Firm(c)]
slots == [c \in Chan |-> Slot(c)]
reads == [c \in Chan |-> Read(c)]

(* A step that changes nothing Rendezvous sees.                             *)
LEMMA Stutter ==
  ASSUME \A c \in Chan : Slot(c)' = Slot(c) /\ Firm(c)' = Firm(c) /\ Read(c)' = Read(c)
  PROVE  UNCHANGED R!vars
<1>1. slots' = slots
  BY DEF slots
<1>2. firms' = firms
  BY DEF firms
<1>3. reads' = reads
  BY DEF reads
<1> QED
  BY <1>1, <1>2, <1>3 DEF R!vars, slots, firms, reads, Slot, Firm, Read

(* Taking what a master wrote is Get(c); what a slave wrote is not seen.    *)
LEMMA TakeMaps ==
  ASSUME TypeOK, NEW c \in Chan, Take(c), available_data[c], writer_if[c] # "none"
  PROVE  R!Get(c) \/ UNCHANGED R!vars
<1>1. \A d \in Chan : /\ available_data'[d] = IF d = c THEN FALSE ELSE available_data[d]
                      /\ shared_data'[d] = shared_data[d] /\ writer_if'[d] = writer_if[d]
                      /\ out'[d] = IF d = c THEN shared_data[c] ELSE out[d]
  BY DEF Take, bindings, TypeOK
<1>2. \A d \in Chan \ {c} : Slot(d)' = Slot(d) /\ Firm(d)' = Firm(d) /\ Read(d)' = Read(d)
  BY <1>1 DEF Slot, Firm, Read
<1>3. CASE writer_if[c] = "slave_out"
  <2>1. Slot(c)' = Slot(c) /\ Read(c)' = Read(c)
    BY <1>1, <1>3 DEF Slot, Read
  <2>2. Firm(c)' = Firm(c)
    BY <1>1, <1>3 DEF Firm
  <2> QED
    BY <1>2, <2>1, <2>2, Stutter
<1>4. CASE writer_if[c] = "master_out"
  <2>1. Slot(c) = << shared_data[c] >> /\ Slot(c)' = << >> /\ Read(c)' = shared_data[c]
    BY <1>1, <1>4 DEF Slot, Read
  <2>2. Firm(c)' = FALSE
    BY <1>1 DEF Firm
  <2>3. slots' = [slots EXCEPT ![c] = << >>]
    BY <1>2, <2>1 DEF slots
  <2>4. firms' = [firms EXCEPT ![c] = FALSE]
    BY <1>2, <2>2 DEF firms
  <2>5. slots[c] = << shared_data[c] >>
    BY <2>1 DEF slots
  <2>6. slots[c] # << >> /\ slots[c][1] = shared_data[c]
    BY <2>5
  <2>7. reads' = [reads EXCEPT ![c] = slots[c][1]]
    BY <1>2, <2>1, <2>6 DEF reads
  <2> QED
    BY <2>3, <2>4, <2>6, <2>7 DEF R!Get, slots, firms, reads, Slot, Firm, Read
<1> QED
  BY <1>3, <1>4 DEF TypeOK, WriterIfs

(* A master writes only when its last value is gone.                        *)
LEMMA MasterWriteIsPut ==
  ASSUME IInv, NEW c \in Chan, NEW v \in Data, MasterWrite(c, v)
  PROVE  R!Put(c, v)
<1>1. /\ TypeOK /\ WriterEnd(c) /\ writer_if[c] = "master_out"
      /\ ~ InCall(Writer[c]) /\ UNCHANGED << writer_if, out >>
  BY DEF IInv, MasterWrite, Offer, Calls, bindings
<1>2. ~ available_data[c]
  BY <1>1 DEF InCall, WriterEnd
<1>3. \A d \in Chan : /\ available_data'[d] = IF d = c THEN TRUE ELSE available_data[d]
                      /\ shared_data'[d] = IF d = c THEN v ELSE shared_data[d]
  BY <1>1 DEF MasterWrite, Offer, TypeOK
<1>4. Slot(c)' = << v >>
  BY <1>1, <1>3 DEF Slot
<1>5. Firm(c)' = TRUE /\ Firm(c) = FALSE
  BY <1>1, <1>2, <1>3 DEF Firm
<1>6. \A d \in Chan \ {c} : Slot(d)' = Slot(d) /\ Firm(d)' = Firm(d)
  BY <1>1, <1>3 DEF Slot, Firm
<1>7. slots' = [slots EXCEPT ![c] = << v >>]
  BY <1>4, <1>6 DEF slots
<1>8. firms' = [firms EXCEPT ![c] = TRUE] /\ ~ firms[c]
  BY <1>5, <1>6 DEF firms
<1>9. reads' = reads
  BY <1>1 DEF reads, Read
<1> QED
  BY <1>7, <1>8, <1>9 DEF R!Put, slots, firms, reads, Slot, Firm, Read

(* What a slave writes is not seen.                                         *)
LEMMA SlaveWriteStutters ==
  ASSUME TypeOK, NEW c \in Chan, NEW v \in Data, SlaveWrite(c, v)
  PROVE  UNCHANGED R!vars
<1>1. writer_if[c] = "slave_out" /\ UNCHANGED << writer_if, out >>
  BY DEF SlaveWrite, Offer, bindings
<1>2. \A d \in Chan \ {c} : available_data'[d] = available_data[d] /\ shared_data'[d] = shared_data[d]
  BY DEF SlaveWrite, Offer, TypeOK
<1>3. \A d \in Chan : Slot(d)' = Slot(d) /\ Read(d)' = Read(d)
  BY <1>1, <1>2 DEF Slot, Read
<1>4. Firm(c)' = Firm(c)
  BY <1>1 DEF Firm
<1>5. \A d \in Chan : Firm(d)' = Firm(d)
  BY <1>1, <1>2, <1>4 DEF Firm
<1> QED
  BY <1>3, <1>5, Stutter

(* A master's variable does not change while its value is on the channel:   *)
(* the master waits.                                                        *)
LEMMA ReassignStutters ==
  ASSUME IInv, NEW c \in Chan, NEW v \in Data, Reassign(c, v)
  PROVE  UNCHANGED R!vars
<1>1. /\ TypeOK /\ WriterEnd(c) /\ ~ InCall(Writer[c])
      /\ UNCHANGED << writer_if, available_data, out >>
  BY DEF IInv, Reassign, Calls, bindings
<1>2. writer_if[c] = "master_out" => ~ available_data[c]
  BY <1>1 DEF InCall, WriterEnd
<1>3. \A d \in Chan \ {c} : shared_data'[d] = shared_data[d]
  BY <1>1 DEF Reassign, TypeOK
<1>4. \A d \in Chan : Slot(d)' = Slot(d) /\ Read(d)' = Read(d)
  BY <1>1, <1>2, <1>3 DEF Slot, Read
<1>5. \A d \in Chan : Firm(d)' = Firm(d)
  BY <1>1 DEF Firm
<1> QED
  BY <1>4, <1>5, Stutter

(* Nothing is on the channel when its ports register.                       *)
LEMMA RegisterStutters ==
  ASSUME IInv, NEW c \in Chan, Register(c)
  PROVE  UNCHANGED R!vars
<1>1. TypeOK /\ \A d \in Chan : ~ available_data[d] /\ out[d] = Unread
  BY DEF IInv, Unstarted, Register, Registers, RegisterMasterIn, RegisterMasterOut,
         RegisterSlaveIn, RegisterSlaveOut
<1>2. UNCHANGED << available_data, out >>
  BY DEF Register, Registers, RegisterMasterIn, RegisterMasterOut, RegisterSlaveIn,
         RegisterSlaveOut, channel
<1>3. \A d \in Chan : Slot(d)' = Slot(d) /\ Read(d)' = Read(d)
  BY <1>1, <1>2 DEF Slot, Read
<1>4. \A d \in Chan : Firm(d)' = Firm(d)
  BY <1>1, <1>2 DEF Firm
<1> QED
  BY <1>3, <1>4, Stutter

LEMMA InitMaps == Init => R!Init
<1> SUFFICES ASSUME Init PROVE R!Init
  OBVIOUS
<1>1. IInv
  BY InitIInv
<1>2. \A c \in Chan : Slot(c) = << >> /\ Read(c) = Unread /\ Unread \in Data
  BY <1>1 DEF Init, ChannelInit, Slot, Read, IInv, TypeOK
<1>3. \A c \in Chan : Firm(c) = FALSE
  BY DEF Init, ChannelInit, Firm
<1>4. slots = [c \in Chan |-> << >>] /\ reads \in [Chan -> Data]
  BY <1>2 DEF slots, reads
<1>5. firms = [c \in Chan |-> FALSE]
  BY <1>3 DEF firms
<1> QED
  BY <1>4, <1>5 DEF R!Init, slots, firms, reads, Slot, Firm, Read

(* Every step is a step of Rendezvous, or none.                             *)
LEMMA NextMaps == IInv /\ [Next]_vars => [R!Next]_(R!vars)
<1> SUFFICES ASSUME IInv, [Next]_vars PROVE [R!Next]_(R!vars)
  OBVIOUS
<1> USE NoProcAssumption, ChannelAssumption
<1>1. CASE UNCHANGED << writer_if, available_data, shared_data, out >>
  <2>1. \A c \in Chan : Slot(c)' = Slot(c) /\ Read(c)' = Read(c)
    BY <1>1 DEF Slot, Read
  <2>2. \A c \in Chan : Firm(c)' = Firm(c)
    BY <1>1 DEF Firm
  <2> QED
    BY <2>1, <2>2, Stutter
<1>2. ASSUME NEW c \in Chan, Take(c), available_data[c], current = Reader[c]
      PROVE [R!Next]_(R!vars)
  <2>1. TypeOK /\ phase = "simulation" /\ Bound(c)
    BY <1>2, Simulating DEF IInv
  <2>2. writer_if[c] # "none"
    BY <2>1 DEF Bound
  <2> QED
    BY <1>2, <2>1, <2>2, TakeMaps DEF R!Next
<1>3. ASSUME NEW c \in Chan, MasterReadResume(c) PROVE [R!Next]_(R!vars)
  <2>1. available_data[c]
    BY <1>3 DEF IInv, OnePlace, Place, ReaderEnd, MasterReadResume
  <2> QED
    BY <1>2, <1>3, <2>1 DEF MasterReadResume
<1>4. ASSUME NEW c \in Chan, ReaderStep(c) PROVE [R!Next]_(R!vars)
  BY <1>1, <1>2, <1>3, <1>4
     DEF ReaderStep, MasterReadNow, MasterReadWait, SlaveRead, Calls, bindings
<1>5. ASSUME NEW c \in Chan, NEW v \in Data, MasterWrite(c, v) PROVE R!Next
  BY <1>5, MasterWriteIsPut DEF R!Next
<1>6. ASSUME NEW c \in Chan, WriterStep(c) PROVE [R!Next]_(R!vars)
  <2>1. CASE MasterWriteResume(c)
    BY <1>1, <2>1 DEF MasterWriteResume, bindings
  <2>2. ASSUME NEW v \in Data, SlaveWrite(c, v) \/ Reassign(c, v) PROVE UNCHANGED R!vars
    BY <2>2, SlaveWriteStutters, ReassignStutters DEF IInv
  <2> QED
    BY <1>5, <1>6, <2>1, <2>2 DEF WriterStep
<1> QED
  BY <1>1, <1>4, <1>6, RegisterStutters
     DEF Next, StartSimulation, Schedule, Pause, vars, bindings, channel

(* What a master writes stays as it was written until it is read, once.     *)
THEOREM RendezvousImplemented == Spec => MasterWriteIsRendezvous
BY Invariance, InitMaps, NextMaps, PTL DEF Spec, MasterWriteIsRendezvous, R!Spec
=============================================================================
