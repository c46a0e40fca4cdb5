------------------------ MODULE BlockingChannel_proofs ------------------------
(***************************************************************************)
(* Proofs about BlockingChannel for every set of processes, channels and   *)
(* values, every binding of ports and every set of calls in use.           *)
(***************************************************************************)
EXTENDS BlockingChannel, TLAPS

(* Initially nobody waits and no channel holds data.                       *)
LEMMA InitIInv == Init => IInv
<1> SUFFICES ASSUME Init PROVE IInv
  OBVIOUS
<1> USE NoProcAssumption, ChannelAssumption DEF Init, KernelInit, ChannelInit
<1>1. TypeOK
  BY DEF TypeOK, KernelTypeOK
<1>2. OnePlace
  BY DEF OnePlace, Place
<1>3. \A c \in Chan : ReaderEnd(c) /\ WriterEnd(c)
  BY DEF ReaderEnd, WriterEnd
<1> QED
  BY <1>1, <1>2, <1>3 DEF IInv

-----------------------------------------------------------------------------
(* Taking the data is the common part of the three calls that read.        *)
LEMMA TakeType ==
  ASSUME TypeOK, NEW c \in Chan, Take(c)
  PROVE  /\ KernelTypeOK'
         /\ available_data' \in [Chan -> BOOLEAN]
         /\ shared_data' \in [Chan -> Data]
         /\ writer_notify' \in [Chan -> SUBSET Proc]
         /\ reader_notify' \in [Chan -> SUBSET Proc]
         /\ wr' = wr
         /\ out' \in [Chan -> Data]
         /\ write_success' = write_success
         /\ taken' \in [Chan -> BOOLEAN]
<1> USE DEF Take, Notify, TypeOK, KernelTypeOK
<1>1. KernelTypeOK'
  OBVIOUS
<1>2. out' \in [Chan -> Data]
  OBVIOUS
<1>3. available_data' \in [Chan -> BOOLEAN] /\ taken' \in [Chan -> BOOLEAN]
  OBVIOUS
<1>4. reader_notify' \in [Chan -> SUBSET Proc]
  OBVIOUS
<1> QED
  BY <1>1, <1>2, <1>3, <1>4

(* Every step of a channel or of the scheduler keeps the types.            *)
LEMMA NextType == TypeOK /\ [Next]_vars => TypeOK'
<1> SUFFICES ASSUME TypeOK, [Next]_vars PROVE TypeOK'
  OBVIOUS
<1> USE NoProcAssumption, ChannelAssumption
<1>1. KernelTypeOK
  BY DEF TypeOK
<1>2. CASE UNCHANGED vars
  BY <1>2 DEF vars, kernel, channel, TypeOK, KernelTypeOK
<1>3. CASE DeltaCycle /\ UNCHANGED channel
  BY <1>3 DEF DeltaCycle, channel, TypeOK, KernelTypeOK
<1>4. ASSUME NEW p \in Proc, Dispatch(p), UNCHANGED channel PROVE TypeOK'
  BY <1>4 DEF Dispatch, channel, TypeOK, KernelTypeOK
<1>5. ASSUME NEW p \in Proc, Pause(p) PROVE TypeOK'
  BY <1>5 DEF Pause, ZeroWait, channel, TypeOK, KernelTypeOK
<1>6. ASSUME NEW c \in Chan, ReadNow(c) PROVE TypeOK'
  BY <1>6, TakeType DEF ReadNow, TypeOK
<1>7. ASSUME NEW c \in Chan, ReadWait(c) PROVE TypeOK'
  <2>1. Reader[c] \in Proc
    OBVIOUS
  <2>2. KernelTypeOK'
    BY <1>1, <1>7 DEF ReadWait, Block, KernelTypeOK
  <2>3. writer_notify' \in [Chan -> SUBSET Proc]
    BY <1>7, <2>1 DEF ReadWait, TypeOK
  <2>4. rd' \in [Chan -> {"idle", "read", "try_read"}]
    BY <1>7 DEF ReadWait, TypeOK
  <2> QED
    BY <1>7, <2>2, <2>3, <2>4 DEF ReadWait, TypeOK
<1>8. ASSUME NEW c \in Chan, ReadResume(c) PROVE TypeOK'
  <2>1. rd' \in [Chan -> {"idle", "read", "try_read"}]
    BY <1>8 DEF ReadResume, TypeOK
  <2> QED
    BY <1>8, <2>1, TakeType DEF ReadResume, TypeOK
<1>9. ASSUME NEW c \in Chan, TryReadNow(c) PROVE TypeOK'
  <2>1. read_success' \in [Chan -> BOOLEAN]
    BY <1>9 DEF TryReadNow, TypeOK
  <2> QED
    BY <1>9, <2>1, TakeType DEF TryReadNow, TypeOK
<1>10. ASSUME NEW c \in Chan, TryReadPause(c) PROVE TypeOK'
  <2>1. KernelTypeOK'
    BY <1>1, <1>10 DEF TryReadPause, ZeroWait, KernelTypeOK
  <2>2. rd' \in [Chan -> {"idle", "read", "try_read"}]
    BY <1>10 DEF TryReadPause, TypeOK
  <2> QED
    BY <1>10, <2>1, <2>2 DEF TryReadPause, TypeOK
<1>11. ASSUME NEW c \in Chan, TryReadResume(c) PROVE TypeOK'
  <2>1. rd' \in [Chan -> {"idle", "read", "try_read"}]
    BY <1>11 DEF TryReadResume, TypeOK
  <2>2. read_success' \in [Chan -> BOOLEAN]
    BY <1>11 DEF TryReadResume, TypeOK
  <2>3. CASE Take(c)
    BY <2>1, <2>2, <2>3, TakeType DEF TypeOK
  <2>4. CASE UNCHANGED << kernel, available_data, shared_data, writer_notify,
                          reader_notify, wr, out, write_success, taken >>
    BY <1>1, <2>1, <2>2, <2>4 DEF kernel, TypeOK, KernelTypeOK
  <2> QED
    BY <1>11, <2>3, <2>4 DEF TryReadResume
<1>12. ASSUME NEW c \in Chan, NEW v \in Data, NEW op \in {"write", "try_write", "try_write_success"},
              Offer(c, v, op), KernelTypeOK', reader_notify' \in [Chan -> SUBSET Proc]
       PROVE  TypeOK'
  <2>1. shared_data' \in [Chan -> Data]
    BY <1>12 DEF Offer, TypeOK
  <2>2. available_data' \in [Chan -> BOOLEAN] /\ taken' \in [Chan -> BOOLEAN]
    BY <1>12 DEF Offer, TypeOK
  <2>3. writer_notify' \in [Chan -> SUBSET Proc]
    BY <1>12 DEF Offer, TypeOK
  <2>4. wr' \in [Chan -> {"idle", "write", "try_write", "try_write_success"}]
    BY <1>12 DEF Offer, TypeOK
  <2> QED
    BY <1>12, <2>1, <2>2, <2>3, <2>4 DEF Offer, TypeOK
<1>13. ASSUME NEW c \in Chan, NEW v \in Data, Write(c, v) PROVE TypeOK'
  <2>1. KernelTypeOK'
    BY <1>1, <1>13 DEF Write, Block, TypeOK, KernelTypeOK
  <2>2. Writer[c] \in Proc
    OBVIOUS
  <2>3. reader_notify' \in [Chan -> SUBSET Proc]
    BY <1>13, <2>2 DEF Write, TypeOK
  <2> QED
    BY <1>12, <1>13, <2>1, <2>3 DEF Write
<1>14. ASSUME NEW c \in Chan, NEW v \in Data,
              NEW op \in {"try_write", "try_write_success"}, TryWrite(c, v, op)
       PROVE TypeOK'
  <2>1. /\ Offer(c, v, op)
        /\ ZeroWait(Writer[c], writer_notify[c])
        /\ UNCHANGED reader_notify
    BY <1>14 DEF TryWrite
  <2>2. KernelTypeOK'
    BY <1>1, <2>1 DEF ZeroWait, TypeOK, KernelTypeOK
  <2>3. reader_notify' \in [Chan -> SUBSET Proc]
    BY <2>1 DEF TypeOK
  <2> QED
    BY <1>12, <2>1, <2>2, <2>3
<1>15. ASSUME NEW c \in Chan, NEW v \in Data, Reassign(c, v) PROVE TypeOK'
  BY <1>1, <1>15 DEF Reassign, kernel, TypeOK, KernelTypeOK
<1>16. ASSUME NEW c \in Chan, WriteResume(c) \/ TryWriteResume(c) PROVE TypeOK'
  BY <1>1, <1>16 DEF WriteResume, TryWriteResume, kernel, TypeOK, KernelTypeOK
<1>17. ASSUME NEW c \in Chan, TryWriteSuccessResume(c) PROVE TypeOK'
  BY <1>1, <1>17 DEF TryWriteSuccessResume, kernel, TypeOK, KernelTypeOK
<1> QED
  BY <1>2, <1>3, <1>4, <1>5, <1>6, <1>7, <1>8, <1>9, <1>10, <1>11, <1>13, <1>14,
     <1>15, <1>16, <1>17 DEF Next, Schedule, ReaderStep, WriterStep

-----------------------------------------------------------------------------
(* What the places become when the current process waits on an event.      *)
LEMMA NotifyPlaces ==
  ASSUME TypeOK, OnePlace, NEW c \in Chan, Take(c) PROVE OnePlace'
<1> SUFFICES ASSUME NEW p \in Proc PROVE Place(p)'
  BY DEF OnePlace
<1>1. Place(p)
  BY DEF OnePlace
<1>2. \A d \in Chan : /\ writer_notify'[d] = writer_notify[d]
                      /\ reader_notify'[d] = IF d = c THEN {} ELSE reader_notify[d]
  BY DEF Take, TypeOK
<1>3. current' = current /\ delta' = delta /\ runnable' = runnable \cup reader_notify[c]
  BY DEF Take, Notify
<1> QED
  BY <1>1, <1>2, <1>3 DEF Place

LEMMA ZeroWaitPlaces ==
  ASSUME TypeOK, OnePlace, current \in Proc, ZeroWait(current, {}),
         UNCHANGED << writer_notify, reader_notify >>
  PROVE  OnePlace'
BY NoProcAssumption DEF OnePlace, Place, ZeroWait

(* No step puts a process in two places.                                   *)
LEMMA NextPlaces == TypeOK /\ OnePlace /\ [Next]_vars => OnePlace'
<1> SUFFICES ASSUME TypeOK, OnePlace, [Next]_vars PROVE OnePlace'
  OBVIOUS
<1> USE NoProcAssumption, ChannelAssumption
<1>1. CASE UNCHANGED << kernel, writer_notify, reader_notify >>
  BY <1>1 DEF kernel, OnePlace, Place
<1>2. CASE DeltaCycle /\ UNCHANGED channel
  BY <1>2 DEF DeltaCycle, channel, OnePlace, Place, TypeOK, KernelTypeOK
<1>3. ASSUME NEW p \in Proc, Dispatch(p), UNCHANGED channel PROVE OnePlace'
  BY <1>3 DEF Dispatch, channel, OnePlace, Place
<1>4. ASSUME NEW p \in Proc, Pause(p) PROVE OnePlace'
  BY <1>4, ZeroWaitPlaces DEF Pause, Calls, channel
<1>5. ASSUME NEW c \in Chan, TryReadPause(c) PROVE OnePlace'
  BY <1>5, ZeroWaitPlaces DEF TryReadPause, Calls
<1>6. ASSUME NEW c \in Chan, ReadWait(c) PROVE OnePlace'
  <2> SUFFICES ASSUME NEW p \in Proc PROVE Place(p)'
    BY DEF OnePlace
  <2>1. Place(p)
    BY DEF OnePlace
  <2>2. /\ current = Reader[c] /\ current' = NoProc
        /\ runnable' = runnable /\ delta' = delta /\ reader_notify' = reader_notify
    BY <1>6 DEF ReadWait, Calls, Block
  <2>3. \A d \in Chan : writer_notify'[d] = IF d = c THEN writer_notify[d] \cup {current}
                                                     ELSE writer_notify[d]
    BY <1>6, <2>2 DEF ReadWait, TypeOK
  <2>4. p # current'
    BY <2>2
  <2>5. ASSUME NEW d \in Chan, p \in writer_notify'[d] \cup reader_notify'[d]
        PROVE  /\ p \notin runnable' /\ p \notin delta'
               /\ \A e \in Chan : /\ p \in writer_notify'[d] => p \notin reader_notify'[e]
                                  /\ p \in writer_notify'[e] \cup reader_notify'[e] => d = e
    <3>1. CASE p = current
      BY <2>1, <2>2, <2>3, <2>5, <3>1 DEF Place
    <3>2. CASE p # current
      <4>1. \A e \in Chan : p \in writer_notify'[e] => p \in writer_notify[e]
        BY <2>3, <3>2
      <4> QED
        BY <2>1, <2>2, <2>5, <4>1 DEF Place
    <3> QED
      BY <3>1, <3>2
  <2> QED
    BY <2>1, <2>2, <2>4, <2>5 DEF Place
<1>7. ASSUME NEW c \in Chan, NEW v \in Data, Write(c, v) PROVE OnePlace'
  <2> SUFFICES ASSUME NEW p \in Proc PROVE Place(p)'
    BY DEF OnePlace
  <2>1. Place(p)
    BY DEF OnePlace
  <2>2. /\ current = Writer[c] /\ current' = NoProc /\ delta' = delta
        /\ runnable' = runnable \cup writer_notify[c]
    BY <1>7 DEF Write, Offer, Calls, Block
  <2>3. \A d \in Chan : writer_notify'[d] = IF d = c THEN {} ELSE writer_notify[d]
    BY <1>7 DEF Write, Offer, TypeOK
  <2>4. \A d \in Chan : reader_notify'[d] = IF d = c THEN reader_notify[d] \cup {current}
                                                     ELSE reader_notify[d]
    BY <1>7, <2>2 DEF Write, TypeOK
  <2>5. p # current'
    BY <2>2
  <2>6. ASSUME NEW d \in Chan, p \in writer_notify'[d] \cup reader_notify'[d]
        PROVE  /\ p \notin runnable' /\ p \notin delta'
               /\ \A e \in Chan : /\ p \in writer_notify'[d] => p \notin reader_notify'[e]
                                  /\ p \in writer_notify'[e] \cup reader_notify'[e] => d = e
    <3>1. CASE p = current
      BY <2>1, <2>2, <2>3, <2>4, <2>6, <3>1 DEF Place
    <3>2. CASE p # current
      <4>1. \A e \in Chan : /\ p \in writer_notify'[e] => p \in writer_notify[e]
                            /\ p \in reader_notify'[e] => p \in reader_notify[e]
        BY <2>3, <2>4, <3>2
      <4>2. p \notin writer_notify[c]
        BY <2>1, <2>3, <2>6, <4>1 DEF Place
      <4> QED
        BY <2>1, <2>2, <2>6, <4>1, <4>2 DEF Place
    <3> QED
      BY <3>1, <3>2
  <2> QED
    BY <2>1, <2>2, <2>5, <2>6 DEF Place
<1>8. ASSUME NEW c \in Chan, NEW v \in Data,
              NEW op \in {"try_write", "try_write_success"}, TryWrite(c, v, op)
       PROVE OnePlace'
  <2> SUFFICES ASSUME NEW p \in Proc PROVE Place(p)'
    BY DEF OnePlace
  <2>1. Place(p)
    BY DEF OnePlace
  <2>2. /\ current = Writer[c] /\ current' = NoProc /\ delta' = delta \cup {current}
        /\ runnable' = runnable \cup writer_notify[c]
        /\ reader_notify' = reader_notify
    BY <1>8 DEF TryWrite, Offer, Calls, ZeroWait
  <2>3. \A d \in Chan : writer_notify'[d] = IF d = c THEN {} ELSE writer_notify[d]
    BY <1>8 DEF TryWrite, Offer, TypeOK
  <2> QED
    BY <2>1, <2>2, <2>3 DEF Place
<1>9. ASSUME NEW c \in Chan, Take(c) PROVE OnePlace'
  BY <1>9, NotifyPlaces
<1>10. ASSUME NEW c \in Chan, ReaderStep(c) PROVE OnePlace'
  BY <1>1, <1>5, <1>6, <1>9, <1>10
     DEF ReaderStep, ReadNow, ReadResume, TryReadNow, TryReadResume
<1>11. ASSUME NEW c \in Chan, WriterStep(c) PROVE OnePlace'
  BY <1>1, <1>7, <1>8, <1>11
     DEF WriterStep, Reassign, WriteResume, TryWriteResume, TryWriteSuccessResume
<1> QED
  BY <1>1, <1>2, <1>3, <1>4, <1>10, <1>11 DEF Next, Schedule, vars, channel

-----------------------------------------------------------------------------
(* Reading wakes the writer that waits, so its end stays consistent; the   *)
(* reader's own end is idle after it.                                      *)
LEMMA TakeEnds ==
  ASSUME IInv, NEW c \in Chan, Take(c), current = Reader[c], rd'[c] = "idle",
         \A d \in Chan \ {c} : rd'[d] = rd[d],
         NEW d \in Chan
  PROVE  ReaderEnd(d)' /\ WriterEnd(d)'
<1>1. TypeOK /\ ReaderEnd(d) /\ WriterEnd(d)
  BY DEF IInv
<1>2. /\ current' = current /\ delta' = delta /\ wr' = wr
      /\ writer_notify' = writer_notify
      /\ runnable' = runnable \cup reader_notify[c]
  BY DEF Take, Notify
<1>3. /\ available_data'[d] = IF d = c THEN FALSE ELSE available_data[d]
      /\ taken'[d] = IF d = c THEN TRUE ELSE taken[d]
      /\ reader_notify'[d] = IF d = c THEN {} ELSE reader_notify[d]
  BY <1>1 DEF Take, TypeOK
<1>4. ReaderEnd(d)'
  BY <1>1, <1>2, <1>3 DEF ReaderEnd
<1>5. WriterEnd(d)'
  BY <1>1, <1>2, <1>3 DEF WriterEnd
<1> QED
  BY <1>4, <1>5

(* A write wakes the reader that waits for it; the writer is not inside    *)
(* another call, and, when it is to withdraw the data, it is in a          *)
(* zero-time wait from here on.                                            *)
LEMMA OfferEnds ==
  ASSUME IInv, NEW c \in Chan, NEW v \in Data,
         NEW op \in {"write", "try_write", "try_write_success"}, Offer(c, v, op),
         current' = NoProc, runnable' = runnable \cup writer_notify[c],
         delta \subseteq delta', op = "try_write_success" => current \in delta',
         \A e \in Chan : reader_notify[e] \subseteq reader_notify'[e],
         \A e \in Chan : reader_notify'[e] \subseteq {Writer[e]},
         op = "write" => current \in reader_notify'[c],
         NEW d \in Chan
  PROVE  ReaderEnd(d)' /\ WriterEnd(d)'
<1>1. TypeOK /\ ReaderEnd(d) /\ WriterEnd(d)
  BY DEF IInv
<1>2. current = Writer[c] /\ rd' = rd /\ ~ InCall(current)
  BY DEF Offer, Calls
<1>3. rd[d] = "read" => Reader[d] # current
  BY <1>2 DEF InCall
<1>4. wr[d] # "idle" => Writer[d] # current
  BY <1>2 DEF InCall
<1>5. /\ available_data'[d] = IF d = c THEN TRUE ELSE available_data[d]
      /\ taken'[d] = IF d = c THEN FALSE ELSE taken[d]
      /\ writer_notify'[d] = IF d = c THEN {} ELSE writer_notify[d]
      /\ wr'[d] = IF d = c THEN op ELSE wr[d]
  BY <1>1 DEF Offer, TypeOK
<1>6. ReaderEnd(d)'
  BY <1>1, <1>2, <1>3, <1>5 DEF ReaderEnd
<1>7. WriterEnd(d)'
  BY <1>1, <1>2, <1>4, <1>5 DEF WriterEnd
<1> QED
  BY <1>6, <1>7

(* The current process waits for zero time and changes no end but for      *)
(* being inside try_read.                                                  *)
LEMMA ZeroWaitEnds ==
  ASSUME IInv, current \in Proc, ~ InCall(current), ZeroWait(current, {}),
         UNCHANGED << writer_notify, reader_notify, available_data, wr, taken >>,
         NEW d \in Chan, rd'[d] = "read" => rd'[d] = rd[d]
  PROVE  ReaderEnd(d)' /\ WriterEnd(d)'
<1>1. ReaderEnd(d) /\ WriterEnd(d)
  BY DEF IInv
<1>2. /\ rd[d] = "read" => Reader[d] # current
      /\ wr[d] = "write" => Writer[d] # current
  BY DEF InCall
<1>3. ReaderEnd(d)'
  BY <1>1, <1>2 DEF ReaderEnd, ZeroWait
<1>4. WriterEnd(d)'
  BY <1>1, <1>2 DEF WriterEnd, ZeroWait
<1> QED
  BY <1>3, <1>4

(* Every step keeps the two ends of every channel consistent.              *)
LEMMA NextEnds ==
  ASSUME IInv, [Next]_vars, NEW d \in Chan
  PROVE  ReaderEnd(d)' /\ WriterEnd(d)'
<1> USE NoProcAssumption, ChannelAssumption
<1>1. TypeOK /\ OnePlace /\ ReaderEnd(d) /\ WriterEnd(d)
  BY DEF IInv
<1>2. CASE UNCHANGED << kernel, available_data, writer_notify, reader_notify, rd, wr, taken >>
  BY <1>1, <1>2 DEF kernel, ReaderEnd, WriterEnd
<1>3. CASE DeltaCycle /\ UNCHANGED channel
  BY <1>1, <1>3 DEF DeltaCycle, channel, ReaderEnd, WriterEnd
<1>4. ASSUME NEW p \in Proc, Dispatch(p), UNCHANGED channel
      PROVE ReaderEnd(d)' /\ WriterEnd(d)'
  BY <1>1, <1>4 DEF Dispatch, channel, ReaderEnd, WriterEnd
<1>5. ASSUME NEW p \in Proc, Pause(p) PROVE ReaderEnd(d)' /\ WriterEnd(d)'
  BY <1>5, ZeroWaitEnds DEF Pause, Calls, channel
<1>6. ASSUME NEW c \in Chan, ReadNow(c) \/ TryReadNow(c)
      PROVE ReaderEnd(d)' /\ WriterEnd(d)'
  <2>1. Take(c) /\ current = Reader[c] /\ ~ InCall(current) /\ rd' = rd
    BY <1>6 DEF ReadNow, TryReadNow, Calls
  <2>2. rd[c] = "idle"
    BY <2>1 DEF InCall
  <2> QED
    BY <2>1, <2>2, TakeEnds
<1>7. ASSUME NEW c \in Chan, ReadResume(c) \/ TryReadResume(c)
      PROVE ReaderEnd(d)' /\ WriterEnd(d)'
  <2>1. current = Reader[c] /\ rd' = [rd EXCEPT ![c] = "idle"]
    BY <1>7 DEF ReadResume, TryReadResume
  <2>2. rd'[c] = "idle" /\ \A e \in Chan \ {c} : rd'[e] = rd[e]
    BY <1>1, <2>1 DEF TypeOK
  <2>3. CASE Take(c)
    BY <2>1, <2>2, <2>3, TakeEnds
  <2>4. CASE UNCHANGED << kernel, available_data, shared_data, writer_notify,
                          reader_notify, wr, out, write_success, taken >>
    BY <1>1, <2>2, <2>4 DEF kernel, ReaderEnd, WriterEnd
  <2> QED
    BY <1>7, <2>3, <2>4 DEF ReadResume, TryReadResume
<1>8. ASSUME NEW c \in Chan, TryReadPause(c) PROVE ReaderEnd(d)' /\ WriterEnd(d)'
  <2>1. rd'[d] = "read" => rd'[d] = rd[d]
    BY <1>1, <1>8 DEF TryReadPause, TypeOK
  <2> QED
    BY <1>8, <2>1, ZeroWaitEnds DEF TryReadPause, Calls
<1>9. ASSUME NEW c \in Chan, ReadWait(c) PROVE ReaderEnd(d)' /\ WriterEnd(d)'
  <2>1. /\ current = Reader[c] /\ ~ InCall(current) /\ ~ available_data[c]
        /\ current' = NoProc /\ runnable' = runnable /\ delta' = delta
        /\ UNCHANGED << available_data, reader_notify, wr, taken >>
    BY <1>9 DEF ReadWait, Calls, Block
  <2>2. /\ rd[d] = "read" => Reader[d] # current
        /\ wr[d] = "write" => Writer[d] # current
    BY <2>1 DEF InCall
  <2>3. /\ writer_notify'[d] = IF d = c THEN writer_notify[d] \cup {current} ELSE writer_notify[d]
        /\ rd'[d] = IF d = c THEN "read" ELSE rd[d]
    BY <1>1, <1>9, <2>1 DEF ReadWait, TypeOK
  <2>4. ReaderEnd(d)'
    BY <1>1, <2>1, <2>2, <2>3 DEF ReaderEnd
  <2>5. WriterEnd(d)'
    BY <1>1, <2>1, <2>2 DEF WriterEnd
  <2> QED
    BY <2>4, <2>5
<1>10. ASSUME NEW c \in Chan, NEW v \in Data, Write(c, v)
       PROVE ReaderEnd(d)' /\ WriterEnd(d)'
  <2>1. Offer(c, v, "write") /\ current = Writer[c]
    BY <1>10 DEF Write, Offer, Calls
  <2>2. /\ current' = NoProc /\ runnable' = runnable \cup writer_notify[c]
        /\ delta' = delta
    BY <1>10 DEF Write, Block
  <2>3. \A e \in Chan : reader_notify'[e] = IF e = c THEN reader_notify[e] \cup {Writer[c]}
                                                     ELSE reader_notify[e]
    BY <1>1, <1>10 DEF Write, TypeOK
  <2>4. \A e \in Chan : reader_notify[e] \subseteq {Writer[e]}
    BY DEF IInv, WriterEnd
  <2> QED
    BY <2>1, <2>2, <2>3, <2>4, OfferEnds
<1>11. ASSUME NEW c \in Chan, NEW v \in Data,
              NEW op \in {"try_write", "try_write_success"}, TryWrite(c, v, op)
       PROVE ReaderEnd(d)' /\ WriterEnd(d)'
  <2>1. /\ Offer(c, v, op)
        /\ ZeroWait(Writer[c], writer_notify[c])
        /\ UNCHANGED reader_notify
    BY <1>11 DEF TryWrite
  <2>2. current = Writer[c]
    BY <2>1 DEF Offer, Calls
  <2>3. \A e \in Chan : reader_notify[e] \subseteq {Writer[e]}
    BY DEF IInv, WriterEnd
  <2> QED
    BY <2>1, <2>2, <2>3, OfferEnds DEF ZeroWait
<1>12. ASSUME NEW c \in Chan, WriteResume(c) \/ TryWriteResume(c)
       PROVE ReaderEnd(d)' /\ WriterEnd(d)'
  <2>1. wr'[d] = wr[d] \/ wr'[d] = "idle"
    BY <1>1, <1>12 DEF WriteResume, TryWriteResume, TypeOK
  <2> QED
    BY <1>1, <1>12, <2>1 DEF WriteResume, TryWriteResume, kernel, ReaderEnd, WriterEnd
<1>13. ASSUME NEW c \in Chan, TryWriteSuccessResume(c)
       PROVE ReaderEnd(d)' /\ WriterEnd(d)'
  <2>1. /\ current = Writer[c] /\ wr[c] = "try_write_success"
        /\ UNCHANGED << kernel, writer_notify, reader_notify, rd, taken >>
    BY <1>13 DEF TryWriteSuccessResume
  <2>2. Writer[c] \notin delta
    BY <1>1, <2>1 DEF OnePlace, Place
  <2>3. /\ wr'[d] = IF d = c THEN "idle" ELSE wr[d]
        /\ available_data'[d] = IF d = c THEN FALSE ELSE available_data[d]
    BY <1>1, <1>13 DEF TryWriteSuccessResume, TypeOK
  <2> QED
    BY <1>1, <2>1, <2>2, <2>3 DEF kernel, ReaderEnd, WriterEnd
<1>14. ASSUME NEW c \in Chan, NEW v \in Data, Reassign(c, v)
       PROVE ReaderEnd(d)' /\ WriterEnd(d)'
  BY <1>2, <1>14 DEF Reassign
<1> QED
  BY <1>2, <1>3, <1>4, <1>5, <1>6, <1>7, <1>8, <1>9, <1>10, <1>11, <1>12, <1>13,
     <1>14 DEF Next, Schedule, ReaderStep, WriterStep, vars, channel

-----------------------------------------------------------------------------
LEMMA NextIInv == IInv /\ [Next]_vars => IInv'
BY NextType, NextPlaces, NextEnds DEF IInv

(* The inductive invariant.                                                *)
THEOREM Invariance == Spec => []IInv
BY InitIInv, NextIInv, PTL DEF Spec

(* The variables keep their types.                                         *)
THEOREM TypeCorrect == Spec => []TypeOK
<1>1. IInv => TypeOK
  BY DEF IInv
<1> QED
  BY <1>1, Invariance, PTL

(* The assertions at Blocking.hpp:63 and :202 never fail.                  *)
THEOREM AssertionsHold == Spec => []AssertsHold
<1>1. IInv => AssertsHold
  BY ChannelAssumption DEF IInv, OnePlace, Place, ReaderEnd, WriterEnd, AssertsHold
<1> QED
  BY <1>1, Invariance, PTL

(* Nobody is left waiting for what has already happened.                   *)
THEOREM NotificationsArrive == Spec => []NoLostNotification
<1>1. IInv => NoLostNotification
  BY ChannelAssumption DEF IInv, OnePlace, Place, ReaderEnd, WriterEnd, NoLostNotification
<1> QED
  BY <1>1, Invariance, PTL

-----------------------------------------------------------------------------
(* The channel implements Rendezvous.                                      *)

(* What the mapping makes of a state, channel by channel.                  *)
Slot(c) == IF available_data[c] THEN << shared_data[c] >> ELSE << >>
Firm(c) == wr[c] = "write" /\ available_data[c]
slots == [c \in Chan |-> Slot(c)]
firms == [c \in Chan |-> Firm(c)]

(* A step that changes neither end of any channel as Rendezvous sees them. *)
LEMMA Stutter ==
  ASSUME out' = out, \A c \in Chan : Slot(c)' = Slot(c) /\ Firm(c)' = Firm(c)
  PROVE  UNCHANGED R!vars
<1>1. slots' = slots
  BY DEF slots
<1>2. firms' = firms
  BY DEF firms
<1> QED
  BY <1>1, <1>2 DEF R!vars, slots, firms, Slot, Firm

(* A step that changes one channel c and keeps what was last read.         *)
LEMMA OneChannel ==
  ASSUME NEW c \in Chan, \A d \in Chan \ {c} : Slot(d)' = Slot(d) /\ Firm(d)' = Firm(d)
  PROVE  /\ slots' = [slots EXCEPT ![c] = Slot(c)']
         /\ firms' = [firms EXCEPT ![c] = Firm(c)']
<1>1. slots' = [slots EXCEPT ![c] = Slot(c)']
  BY DEF slots
<1>2. firms' = [firms EXCEPT ![c] = Firm(c)']
  BY DEF firms
<1> QED
  BY <1>1, <1>2

(* Taking the data of c is Get(c).                                         *)
LEMMA TakeIsGet ==
  ASSUME TypeOK, NEW c \in Chan, Take(c), available_data[c]
  PROVE  R!Get(c)
<1>1. \A d \in Chan : /\ available_data'[d] = IF d = c THEN FALSE ELSE available_data[d]
                      /\ shared_data'[d] = shared_data[d] /\ wr'[d] = wr[d]
  BY DEF Take, TypeOK
<1>2. Slot(c) = << shared_data[c] >> /\ Slot(c)' = << >> /\ Firm(c)' = FALSE
  BY <1>1 DEF Slot, Firm
<1>3. \A d \in Chan \ {c} : Slot(d)' = Slot(d) /\ Firm(d)' = Firm(d)
  BY <1>1 DEF Slot, Firm
<1>4. slots' = [slots EXCEPT ![c] = << >>] /\ firms' = [firms EXCEPT ![c] = FALSE]
  BY <1>2, <1>3, OneChannel
<1>5. slots[c] = << shared_data[c] >>
  BY <1>2 DEF slots
<1>6. slots[c] # << >> /\ slots[c][1] = shared_data[c]
  BY <1>5
<1>7. out' = [out EXCEPT ![c] = slots[c][1]]
  BY <1>6 DEF Take
<1> QED
  BY <1>4, <1>6, <1>7 DEF R!Get, slots, firms, Slot, Firm

(* A call that offers v on c finds no firm offer there, since its writer is *)
(* in no other call; what is offered by write() is firm.                   *)
LEMMA OfferIsPut ==
  ASSUME TypeOK, NEW c \in Chan, NEW v \in Data, NEW op \in AllOps, Offer(c, v, op)
  PROVE  R!Put(c, v) \/ R!Loose(c, v)
<1>1. current = Writer[c] /\ ~ InCall(current) /\ out' = out
  BY DEF Offer, Calls
<1>2. wr[c] = "idle"
  BY <1>1 DEF InCall
<1>3. \A d \in Chan : /\ available_data'[d] = IF d = c THEN TRUE ELSE available_data[d]
                      /\ shared_data'[d] = IF d = c THEN v ELSE shared_data[d]
                      /\ wr'[d] = IF d = c THEN op ELSE wr[d]
  BY DEF Offer, TypeOK
<1>4. Slot(c)' = << v >> /\ Firm(c) = FALSE /\ Firm(c)' = (op = "write")
  BY <1>2, <1>3 DEF Slot, Firm
<1>5. \A d \in Chan \ {c} : Slot(d)' = Slot(d) /\ Firm(d)' = Firm(d)
  BY <1>3 DEF Slot, Firm
<1>6. slots' = [slots EXCEPT ![c] = << v >>] /\ firms' = [firms EXCEPT ![c] = (op = "write")]
  BY <1>4, <1>5, OneChannel
<1>7. ~ firms[c]
  BY <1>4 DEF firms
<1>8. CASE op = "write"
  <2>1. firms' = [firms EXCEPT ![c] = TRUE]
    BY <1>6, <1>8
  <2> QED
    BY <1>1, <1>6, <1>7, <2>1 DEF R!Put, slots, firms, Slot, Firm
<1>9. CASE op # "write"
  <2>1. firms' = firms
    BY <1>4, <1>5, <1>9 DEF firms
  <2> QED
    BY <1>1, <1>6, <1>7, <2>1 DEF R!Loose, slots, firms, Slot, Firm
<1> QED
  BY <1>8, <1>9

(* Withdrawing the offer of a try_write withdraws no firm offer.           *)
LEMMA WithdrawIsWithdraw ==
  ASSUME TypeOK, NEW c \in Chan, TryWriteSuccessResume(c)
  PROVE  R!Withdraw(c)
<1>1. \A d \in Chan : /\ available_data'[d] = IF d = c THEN FALSE ELSE available_data[d]
                      /\ shared_data'[d] = shared_data[d]
                      /\ wr'[d] = IF d = c THEN "idle" ELSE wr[d]
  BY DEF TryWriteSuccessResume, TypeOK
<1>2. wr[c] = "try_write_success" /\ out' = out
  BY DEF TryWriteSuccessResume
<1>3. Slot(c)' = << >> /\ Firm(c) = FALSE /\ Firm(c)' = FALSE
  BY <1>1, <1>2 DEF Slot, Firm
<1>4. \A d \in Chan \ {c} : Slot(d)' = Slot(d) /\ Firm(d)' = Firm(d)
  BY <1>1 DEF Slot, Firm
<1>5. slots' = [slots EXCEPT ![c] = << >>]
  BY <1>3, <1>4, OneChannel
<1>6. firms' = firms /\ ~ firms[c]
  BY <1>3, <1>4 DEF firms
<1> QED
  BY <1>2, <1>5, <1>6 DEF R!Withdraw, slots, firms, Slot, Firm

(* The writer changes what the pointer points to only when its offer, if   *)
(* there is one, is loose.                                                 *)
LEMMA ReassignIsLoose ==
  ASSUME TypeOK, NEW c \in Chan, NEW v \in Data, Reassign(c, v)
  PROVE  R!Loose(c, v) \/ UNCHANGED R!vars
<1>1. /\ UNCHANGED << available_data, wr, out >>
      /\ current = Writer[c] /\ ~ InCall(current)
  BY DEF Reassign, Calls
<1>2. wr[c] = "idle"
  BY <1>1 DEF InCall
<1>3. \A d \in Chan : shared_data'[d] = IF d = c THEN v ELSE shared_data[d]
  BY DEF Reassign, TypeOK
<1>4. \A d \in Chan : Firm(d)' = Firm(d)
  BY <1>1 DEF Firm
<1>5. \A d \in Chan \ {c} : Slot(d)' = Slot(d)
  BY <1>1, <1>3 DEF Slot
<1>6. CASE available_data[c]
  <2>1. Slot(c)' = << v >>
    BY <1>1, <1>3, <1>6 DEF Slot
  <2>2. slots' = [slots EXCEPT ![c] = << v >>]
    BY <1>4, <1>5, <2>1, OneChannel
  <2>3. firms' = firms
    BY <1>4 DEF firms
  <2>4. ~ firms[c]
    BY <1>2 DEF firms, Firm
  <2> QED
    BY <1>1, <2>2, <2>3, <2>4 DEF R!Loose, slots, firms, Slot, Firm
<1>7. CASE ~ available_data[c]
  <2>1. Slot(c)' = Slot(c)
    BY <1>1, <1>7 DEF Slot
  <2> QED
    BY <1>1, <1>4, <1>5, <2>1, Stutter
<1> QED
  BY <1>6, <1>7

(* The end of a call that moves nothing.                                   *)
LEMMA ReturnStutters ==
  ASSUME TypeOK, NEW c \in Chan, WriteResume(c) \/ TryWriteResume(c)
  PROVE  UNCHANGED R!vars
<1>1. UNCHANGED << available_data, shared_data, out >>
  BY DEF WriteResume, TryWriteResume
<1>2. \A d \in Chan : wr'[d] = IF d = c THEN "idle" ELSE wr[d]
  BY DEF WriteResume, TryWriteResume, TypeOK
<1>3. Firm(c) = FALSE
  BY DEF WriteResume, TryWriteResume, Firm
<1>4. Firm(c)' = FALSE
  BY <1>2 DEF Firm
<1>5. \A d \in Chan : Slot(d)' = Slot(d) /\ Firm(d)' = Firm(d)
  BY <1>1, <1>2, <1>3, <1>4 DEF Slot, Firm
<1> QED
  BY <1>1, <1>5, Stutter

-----------------------------------------------------------------------------
LEMMA InitMaps == Init => R!Init
<1> SUFFICES ASSUME Init PROVE R!Init
  OBVIOUS
<1>1. \A c \in Chan : Slot(c) = << >> /\ Firm(c) = FALSE
  BY DEF Init, ChannelInit, Slot, Firm
<1>2. slots = [c \in Chan |-> << >>]
  BY <1>1 DEF slots
<1>3. firms = [c \in Chan |-> FALSE]
  BY <1>1 DEF firms
<1>4. out \in [Chan -> Data]
  BY DEF Init, ChannelInit
<1> QED
  BY <1>2, <1>3, <1>4 DEF R!Init, slots, firms, Slot, Firm

(* Every step is a step of Rendezvous, or none.                            *)
LEMMA NextMaps == TypeOK /\ [Next]_vars => [R!Next]_(R!vars)
<1> SUFFICES ASSUME TypeOK, [Next]_vars PROVE [R!Next]_(R!vars)
  OBVIOUS
<1>1. CASE UNCHANGED << available_data, shared_data, wr, out >>
  <2>1. \A c \in Chan : Slot(c)' = Slot(c) /\ Firm(c)' = Firm(c)
    BY <1>1 DEF Slot, Firm
  <2> QED
    BY <1>1, <2>1, Stutter
<1>2. ASSUME NEW c \in Chan, Take(c), available_data[c] PROVE R!Next
  BY <1>2, TakeIsGet DEF R!Next
<1>3. ASSUME NEW c \in Chan, NEW v \in Data, NEW op \in AllOps, Offer(c, v, op) PROVE R!Next
  BY <1>3, OfferIsPut DEF R!Next
<1>4. ASSUME NEW c \in Chan, ReaderStep(c) PROVE [R!Next]_(R!vars)
  BY <1>1, <1>2, <1>4 DEF ReaderStep, ReadNow, ReadWait, ReadResume, TryReadNow, TryReadPause,
                          TryReadResume
<1>5. ASSUME NEW c \in Chan, WriterStep(c) PROVE [R!Next]_(R!vars)
  <2>1. ASSUME NEW v \in Data,
               Write(c, v) \/ TryWrite(c, v, "try_write") \/ TryWrite(c, v, "try_write_success")
        PROVE  R!Next
    <3>1. Offer(c, v, "write") \/ Offer(c, v, "try_write") \/ Offer(c, v, "try_write_success")
      BY <2>1 DEF Write, TryWrite
    <3> QED
      BY <1>3, <3>1 DEF AllOps
  <2>2. ASSUME NEW v \in Data, Reassign(c, v) PROVE [R!Next]_(R!vars)
    BY <2>2, ReassignIsLoose DEF R!Next
  <2>3. CASE WriteResume(c) \/ TryWriteResume(c)
    BY <2>3, ReturnStutters
  <2>4. CASE TryWriteSuccessResume(c)
    BY <2>4, WithdrawIsWithdraw DEF R!Next
  <2> QED
    BY <1>5, <2>1, <2>2, <2>3, <2>4 DEF WriterStep
<1> QED
  BY <1>1, <1>4, <1>5 DEF Next, Schedule, Pause, vars, channel

(* Whatever try_write leaves on the channel, what is given to write() is   *)
(* neither overwritten nor changed before it is read, and is read once.    *)
THEOREM RendezvousImplemented == Spec => ImplementsRendezvous
<1>1. TypeOK /\ [Next]_vars => [R!Next]_(R!vars)
  BY NextMaps
<1> QED
  BY <1>1, InitMaps, TypeCorrect, PTL DEF Spec, ImplementsRendezvous, R!Spec

-----------------------------------------------------------------------------
(* The flag of try_write(val, success) says whether this value was read.   *)
THEOREM SuccessIsTrue == Spec => SuccessMeansTaken
<1>1. IInv /\ [Next]_vars =>
        [\A c \in Chan : (wr[c] = "try_write_success" /\ wr'[c] = "idle") =>
           /\ write_success'[c] = taken[c]
           /\ ~ available_data'[c]]_vars
  <2> SUFFICES ASSUME IInv, Next, NEW c \in Chan, wr[c] = "try_write_success", wr'[c] = "idle"
               PROVE  write_success'[c] = taken[c] /\ ~ available_data'[c]
    OBVIOUS
  <2>1. TypeOK /\ taken[c] = ~ available_data[c]
    BY DEF IInv, WriterEnd
  <2>2. wr # wr'
    OBVIOUS
  <2>3. ASSUME NEW d \in Chan, TryWriteSuccessResume(d)
        PROVE  write_success'[c] = taken[c] /\ ~ available_data'[c]
    <3>1. d = c
      BY <2>1, <2>3 DEF TryWriteSuccessResume, TypeOK
    <3>2. write_success'[c] = ~ available_data[c] /\ available_data'[c] = FALSE
      BY <2>1, <2>3, <3>1 DEF TryWriteSuccessResume, TypeOK
    <3> QED
      BY <2>1, <3>2
  <2>4. ASSUME NEW d \in Chan, WriteResume(d) \/ TryWriteResume(d) PROVE FALSE
    <3>1. wr[d] # "try_write_success" /\ wr' = [wr EXCEPT ![d] = "idle"]
      BY <2>4 DEF WriteResume, TryWriteResume
    <3> QED
      BY <2>1, <3>1 DEF TypeOK
  <2>5. ASSUME NEW d \in Chan, NEW v \in Data, NEW op \in AllOps, Offer(d, v, op) PROVE d # c
    BY <2>5 DEF Offer, Calls, InCall
  <2>6. ASSUME NEW d \in Chan, NEW v \in Data, NEW op \in AllOps, Offer(d, v, op) PROVE FALSE
    <3>1. wr' = [wr EXCEPT ![d] = op] /\ d # c
      BY <2>5, <2>6 DEF Offer
    <3> QED
      BY <2>1, <3>1 DEF TypeOK
  <2>7. ASSUME NEW d \in Chan, WriterStep(d)
        PROVE  write_success'[c] = taken[c] /\ ~ available_data'[c]
    <3>1. ASSUME NEW v \in Data,
                 Write(d, v) \/ TryWrite(d, v, "try_write") \/ TryWrite(d, v, "try_write_success")
          PROVE  FALSE
      <4>1. Offer(d, v, "write") \/ Offer(d, v, "try_write") \/ Offer(d, v, "try_write_success")
        BY <3>1 DEF Write, TryWrite
      <4> QED
        BY <2>6, <4>1 DEF AllOps
    <3> QED
      BY <2>2, <2>3, <2>4, <2>7, <3>1 DEF WriterStep, Reassign
  <2>8. ASSUME NEW d \in Chan, ReaderStep(d) PROVE FALSE
    BY <2>2, <2>8 DEF ReaderStep, ReadNow, ReadWait, ReadResume, TryReadNow, TryReadPause,
                      TryReadResume, Take
  <2> QED
    BY <2>2, <2>7, <2>8 DEF Next, Schedule, Pause, channel
<1> QED
  BY <1>1, Invariance, PTL DEF Spec, SuccessMeansTaken

=============================================================================
