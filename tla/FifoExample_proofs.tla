------------------------- MODULE FifoExample_proofs -------------------------
(***************************************************************************)
(* The FIFO example passes every value on in order, for every size of its  *)
(* buffer and every number of values.                                      *)
(***************************************************************************)
EXTENDS FifoExample, BlockingChannel_proofs

(* The types of fsm()'s variables.                                         *)
FifoTypes == /\ pc \in {"reset_wait", "reset_write", "poll", "both_write", "full_read",
                        "full_store", "empty_write", "in_store"}
             /\ buffer \in [0 .. N - 1 -> Data]
             /\ head \in 0 .. N - 1 /\ tail \in 0 .. N - 1
             /\ is_full \in BOOLEAN /\ is_empty \in BOOLEAN /\ from_reset \in BOOLEAN
             /\ sent \in 0 .. MaxSent
             /\ received \in Seq(Data)

(* Where fsm() is says what it found when it polled.                       *)
Polled == /\ rd[In] = "idle"
          /\ available_data[In] => wr[In] = "write"
          /\ pc \in {"both_write", "empty_write"} => ~ available_data[Out]
          /\ pc = "full_read" => available_data[In]
          /\ ~ from_reset <=> pc \in {"reset_wait", "reset_write"}
          /\ ~ from_reset => received = << >> /\ ~ available_data[Out] /\ is_empty

(* One slot of a full buffer has been given away already.                  *)
Free == pc \in {"full_read", "full_store"}

(* The two flags and the two indices.                                      *)
Flags == /\ is_empty => ~ is_full /\ head = tail
         /\ is_full /\ ~ Free => head = tail
         /\ ~ is_empty /\ ~ is_full => head # tail
         /\ Free => is_full /\ head = (tail + 1) % N
         /\ pc = "both_write" => ~ is_full /\ ~ is_empty
         /\ pc = "in_store" => ~ is_full
         /\ pc = "empty_write" => is_empty

(* The values on a channel and in fsm()'s hand.                            *)
Count(c) == IF available_data[c] THEN 1 ELSE 0
Hand == IF pc \in {"both_write", "empty_write", "in_store", "full_store"} THEN 1 ELSE 0

(* How many values, the reset value apart, have gone out of fsm().         *)
Passed == Len(received) + Count(Out) - Reset

(* b holds s values from h on, starting with f.                            *)
Holds(b, h, s, f) == \A j \in 0 .. s - 1 : b[(h + j) % N] = f + j

(* Wherever a value is, it is the one whose turn it is there.              *)
Values == /\ Passed >= 0
          /\ \A i \in Reset + 1 .. Len(received) : received[i] = i - Reset
          /\ available_data[Out] /\ Passed > 0 => shared_data[Out] = Passed
          /\ Holds(buffer, head, Stored, Passed + 1)
          /\ Hand = 1 => value_in = Passed + Stored + 1
          /\ available_data[In] => shared_data[In] = sent
          /\ Passed + Stored + Hand + Count(In) = sent

(* The inductive invariant: that of the channels, and these four.          *)
FInv == IInv /\ FifoTypes /\ Polled /\ Flags /\ Values

-----------------------------------------------------------------------------
(* The ring.  Indices are taken modulo n, and no index is further than one *)
(* round away.                                                             *)
LEMMA ModSmall ==
  ASSUME NEW n \in Nat \ {0}, NEW x \in 0 .. n - 1
  PROVE  x % n = x
OBVIOUS

(* One round ahead.                                                        *)
LEMMA ModHigh ==
  ASSUME NEW n \in Nat \ {0}, NEW x \in n .. 2 * n - 1
  PROVE  x % n = x - n
OBVIOUS

(* Less than one round behind.                                             *)
LEMMA ModLow ==
  ASSUME NEW n \in Nat \ {0}, NEW x \in (- n) .. (- 1)
  PROVE  x % n = x + n
OBVIOUS

(* The slot i behind h.                                                    *)
LEMMA Slots ==
  ASSUME NEW h \in 0 .. N - 1, NEW i \in 0 .. N
  PROVE  (h + i) % N = (IF h + i < N THEN h + i ELSE h + i - N)
<1>1. N \in Nat \ {0}
  BY FifoAssumption
<1>2. CASE h + i < N
  <2>1. h + i \in 0 .. N - 1
    BY <1>1, <1>2
  <2> QED
    BY <1>1, <1>2, <2>1, ModSmall
<1>3. CASE ~ (h + i < N)
  <2>1. h + i \in N .. 2 * N - 1
    BY <1>1, <1>3
  <2> QED
    BY <1>1, <1>3, <2>1, ModHigh
<1> QED
  BY <1>2, <1>3

(* How far t is behind h.                                                  *)
LEMMA Distance ==
  ASSUME NEW h \in 0 .. N - 1, NEW t \in 0 .. N - 1
  PROVE  (t - h) % N = (IF h <= t THEN t - h ELSE t - h + N)
<1>1. N \in Nat \ {0}
  BY FifoAssumption
<1>2. CASE h <= t
  <2>1. t - h \in 0 .. N - 1
    BY <1>1, <1>2
  <2> QED
    BY <1>1, <1>2, <2>1, ModSmall
<1>3. CASE ~ (h <= t)
  <2>1. t - h \in (- N) .. (- 1)
    BY <1>1, <1>3
  <2> QED
    BY <1>1, <1>3, <2>1, ModLow
<1> QED
  BY <1>2, <1>3

(* Both indices one further; the rear index one further.                   *)
LEMMA NextDistance ==
  ASSUME NEW h \in 0 .. N - 1, NEW t \in 0 .. N - 1, NEW u, u = (t + 1) % N
  PROVE  /\ (u - ((h + 1) % N)) % N = (t - h) % N
         /\ u = h => (t - h) % N = N - 1
         /\ u # h => (u - h) % N = ((t - h) % N) + 1
<1> DEFINE g == (h + 1) % N
<1>1. /\ g = (IF h + 1 < N THEN h + 1 ELSE h + 1 - N)
      /\ u = (IF t + 1 < N THEN t + 1 ELSE t + 1 - N)
  BY FifoAssumption, Slots
<1>2. g \in 0 .. N - 1 /\ u \in 0 .. N - 1
  BY <1>1, FifoAssumption
<1>3. /\ (t - h) % N = (IF h <= t THEN t - h ELSE t - h + N)
      /\ (u - g) % N = (IF g <= u THEN u - g ELSE u - g + N)
      /\ (u - h) % N = (IF h <= u THEN u - h ELSE u - h + N)
  <2> HIDE DEF g
  <2> QED
    BY <1>2, Distance
<1>4. /\ (IF g <= u THEN u - g ELSE u - g + N) = (IF h <= t THEN t - h ELSE t - h + N)
      /\ u = h => (IF h <= t THEN t - h ELSE t - h + N) = N - 1
      /\ u # h => (IF h <= u THEN u - h ELSE u - h + N) = (IF h <= t THEN t - h ELSE t - h + N) + 1
  <2> HIDE DEF g
  <2> QED
    BY <1>1, FifoAssumption
<1> QED
  BY <1>3, <1>4

(* A value stored behind the s values that are there.                      *)
LEMMA StoreHolds ==
  ASSUME NEW b \in [0 .. N - 1 -> Data], NEW h \in 0 .. N - 1, NEW s \in 0 .. N - 1,
         NEW f \in Int, Holds(b, h, s, f), NEW b2,
         b2 = [b EXCEPT ![(h + s) % N] = f + s]
  PROVE  Holds(b2, h, s + 1, f)
<1>1. N \in Nat \ {0}
  BY FifoAssumption
<1> SUFFICES ASSUME NEW j \in 0 .. s PROVE b2[(h + j) % N] = f + j
  BY <1>1 DEF Holds
<1>2. /\ (h + j) % N = (IF h + j < N THEN h + j ELSE h + j - N)
      /\ (h + s) % N = (IF h + s < N THEN h + s ELSE h + s - N)
  BY <1>1, Slots
<1>3. (h + j) % N \in 0 .. N - 1 /\ (h + s) % N \in 0 .. N - 1
  BY <1>1, <1>2
<1>4. CASE j = s
  <2>1. b2[(h + s) % N] = f + s
    BY <1>3
  <2> QED
    BY <1>4, <2>1
<1>5. CASE j # s
  <2>1. (IF h + j < N THEN h + j ELSE h + j - N) # (IF h + s < N THEN h + s ELSE h + s - N)
    BY <1>1, <1>5
  <2>2. b[(h + j) % N] = f + j
    BY <1>1, <1>5 DEF Holds
  <2> QED
    BY <1>2, <1>3, <2>1, <2>2
<1> QED
  BY <1>4, <1>5

(* The first value, and those behind it.                                   *)
LEMMA FetchHolds ==
  ASSUME NEW b, NEW h \in 0 .. N - 1, NEW s \in 1 .. N, NEW f \in Int, Holds(b, h, s, f)
  PROVE  b[h] = f /\ Holds(b, (h + 1) % N, s - 1, f + 1)
<1>1. N \in Nat \ {0}
  BY FifoAssumption
<1>2. b[h] = f
  <2>1. h + 0 = h /\ f + 0 = f /\ 0 \in 0 .. s - 1
    BY <1>1
  <2>2. b[(h + 0) % N] = f + 0
    BY <2>1, Zenon DEF Holds
  <2> QED
    BY <1>1, <2>1, <2>2, ModSmall
<1>3. ASSUME NEW j \in 0 .. (s - 1) - 1 PROVE b[(((h + 1) % N) + j) % N] = f + 1 + j
  <2>1. (h + 1) % N = (IF h + 1 < N THEN h + 1 ELSE h + 1 - N)
    BY <1>1, Slots
  <2>2. /\ (h + 1) % N \in 0 .. N - 1
        /\ j \in 0 .. N /\ j + 1 \in 0 .. N
    BY <1>1, <2>1
  <2>3. (h + (j + 1)) % N = (IF h + (j + 1) < N THEN h + (j + 1) ELSE h + (j + 1) - N)
    BY <2>2, Slots
  <2>4. (((h + 1) % N) + j) % N = (IF ((h + 1) % N) + j < N THEN ((h + 1) % N) + j ELSE ((h + 1) % N) + j - N)
    BY <2>2, Slots
  <2>5. (((h + 1) % N) + j) % N = (h + (j + 1)) % N
    BY <1>1, <2>1, <2>3, <2>4
  <2>6. j + 1 \in 0 .. s - 1 /\ f + (j + 1) = f + 1 + j
    BY <1>1
  <2>7. b[(h + (j + 1)) % N] = f + (j + 1)
    BY <2>6, Zenon DEF Holds
  <2> QED
    BY <2>5, <2>6, <2>7
<1> QED
  BY <1>2, <1>3 DEF Holds

-----------------------------------------------------------------------------
(* What the calls do to the two channels, value by value.                  *)
LEMMA Names == In \in Chan /\ Out \in Chan /\ In # Out
BY FifoAssumption DEF In, Out

(* Taking empties one channel and leaves the other.                        *)
LEMMA Takes ==
  ASSUME TypeOK, NEW c \in Chan, Take(c), NEW d \in Chan
  PROVE  /\ available_data'[d] = (IF d = c THEN FALSE ELSE available_data[d])
         /\ out'[d] = (IF d = c THEN shared_data[d] ELSE out[d])
         /\ shared_data' = shared_data /\ wr' = wr
BY DEF Take, TypeOK

(* An offer fills one channel and leaves the other.                        *)
LEMMA Offers ==
  ASSUME TypeOK, NEW c \in Chan, NEW v \in Data, NEW op, Offer(c, v, op), NEW d \in Chan
  PROVE  /\ available_data'[d] = (IF d = c THEN TRUE ELSE available_data[d])
         /\ shared_data'[d] = (IF d = c THEN v ELSE shared_data[d])
         /\ wr'[d] = (IF d = c THEN op ELSE wr[d])
         /\ rd' = rd /\ out' = out
BY DEF Offer, TypeOK

(* fsm() calls read() only when the value is there.                        *)
LEMMA ReadsNow ==
  ASSUME TypeOK, Polled, Read(In), available_data[In]
  PROVE  /\ ReadNow(In)
         /\ available_data'[In] = FALSE /\ available_data'[Out] = available_data[Out]
         /\ out'[In] = shared_data[In] /\ shared_data' = shared_data
         /\ wr' = wr /\ rd' = rd
<1>1. ReadNow(In)
  BY DEF Read, ReadWait
<1>2. Take(In) /\ rd' = rd
  BY <1>1 DEF ReadNow
<1> QED
  BY <1>1, <1>2, Names, Takes

(* How many values are stored.                                             *)
LEMMA StoredRange ==
  ASSUME FifoTypes, Flags
  PROVE  /\ Stored \in 0 .. N
         /\ tail = (head + Stored) % N
         /\ is_full /\ ~ Free => Stored = N
         /\ ~ is_full \/ Free => Stored = (tail - head) % N /\ Stored < N
         /\ is_empty => Stored = 0
         /\ ~ is_empty /\ ~ is_full => Stored > 0
<1> USE FifoAssumption DEF FifoTypes, Flags, Stored, Free
<1>1. (tail - head) % N = (IF head <= tail THEN tail - head ELSE tail - head + N)
  BY Distance
<1>2. /\ (head + 1) % N = (IF head + 1 < N THEN head + 1 ELSE head + 1 - N)
      /\ (tail + 1) % N = (IF tail + 1 < N THEN tail + 1 ELSE tail + 1 - N)
  BY Slots
<1>3. /\ (tail - head) % N \in 0 .. N - 1
      /\ head # tail => (tail - head) % N > 0
      /\ head = tail => (tail - head) % N = 0
  BY <1>1
<1>4. /\ Stored \in 0 .. N
      /\ is_full /\ ~ Free => Stored = N
      /\ ~ is_full \/ Free => Stored = (tail - head) % N /\ Stored < N
      /\ is_empty => Stored = 0
      /\ ~ is_empty /\ ~ is_full => Stored > 0
  BY <1>3
<1>5. (head + Stored) % N = (IF head + Stored < N THEN head + Stored ELSE head + Stored - N)
  BY <1>4, Slots
<1>6. tail = (IF head + Stored < N THEN head + Stored ELSE head + Stored - N)
  BY <1>1, <1>4
<1> QED
  BY <1>4, <1>5, <1>6

-----------------------------------------------------------------------------
(* Nothing has been sent and nothing has arrived.                          *)
LEMMA FifoInitFInv == FifoInit => FInv
<1> SUFFICES ASSUME FifoInit PROVE FInv
  OBVIOUS
<1> USE FifoAssumption DEF FifoInit
<1>1. IInv
  BY InitIInv
<1>2. FifoTypes
  <2>1. 0 \in 0 .. N - 1 /\ 0 \in 0 .. MaxSent /\ 0 \in Data
    OBVIOUS
  <2>2. buffer \in [0 .. N - 1 -> Data] /\ received \in Seq(Data)
    BY <2>1
  <2> QED
    BY <2>1, <2>2 DEF FifoTypes
<1>3. /\ rd[In] = "idle" /\ ~ available_data[In] /\ ~ available_data[Out]
  BY Names DEF Init, ChannelInit
<1>4. Polled
  BY <1>3 DEF Polled
<1>5. Flags
  BY DEF Flags, Free
<1>6. /\ Passed = 0 /\ Stored = 0 /\ Hand = 0 /\ Count(In) = 0 /\ Reset = 0
  BY <1>3 DEF Passed, Count, Reset, Hand, Stored
<1>7. Values
  BY <1>3, <1>6 DEF Values, Holds
<1> QED
  BY <1>1, <1>2, <1>4, <1>5, <1>7 DEF FInv

(* Every step but one is a step of the channels; the other lets            *)
(* shared_data of `consumer' point to something else.                      *)
LEMMA ChannelSteps ==
  ASSUME TypeOK, FifoTypes, [FifoNext]_fvars PROVE [Next]_vars \/ Garbage
<1> USE FifoAssumption, Names
<1>1. CASE UNCHANGED fvars
  BY <1>1 DEF fvars
<1>2. /\ 0 \in Data /\ value_out \in Data /\ value_in \in Data
      /\ sent < MaxSent => sent + 1 \in Data
  BY DEF TypeOK, FifoTypes, value_out, value_in
<1>3. CASE FifoStep
  <2>1. CASE ResetWait \/ (At("poll") /\ Neither)
    <3>1. fifo \in Proc
      BY ChannelAssumption DEF fifo
    <3>2. Pause(fifo)
      BY <2>1, <3>1, CallsAssumption DEF ResetWait, Neither, At, Calls, Pause
    <3> QED
      BY <3>1, <3>2 DEF Next
  <2>2. CASE ReadNow(In) \/ ReadWait(In) \/ ReadResume(In) \/ WriteResume(Out) \/ TryWriteResume(Out)
    BY <2>2 DEF Next, ReaderStep, WriterStep
  <2>3. ASSUME NEW v \in Data, Write(Out, v) \/ TryWrite(Out, v, "try_write") PROVE Next
    BY <2>3 DEF Next, WriterStep
  <2>4. CASE FullStore \/ InStore
    BY <2>4 DEF FullStore, InStore
  <2>5. CASE ResetWrite \/ BothFull \/ OnlyOut
    BY <1>2, <2>3, <2>5 DEF ResetWrite, BothFull, OnlyOut
  <2>6. CASE EmptyWrite
    BY <1>2, <2>3, <2>6 DEF EmptyWrite
  <2>7. CASE BothWrite
    <3>1. buffer'[head] \in Data
      BY <1>2, <2>7 DEF BothWrite, Store, FifoTypes
    <3> QED
      BY <2>3, <2>7, <3>1 DEF BothWrite
  <2>8. CASE FullRead \/ (At("poll") /\ (Both \/ BothEmpty \/ OnlyIn))
    BY <2>2, <2>8 DEF Both, BothEmpty, OnlyIn, FullRead, Read
  <2>9. CASE Poll
    BY <2>1, <2>5, <2>8, <2>9 DEF Poll
  <2>10. CASE FifoResume
    BY <2>2, <2>10 DEF FifoResume
  <2> QED
    BY <1>3, <2>1, <2>4, <2>5, <2>6, <2>7, <2>8, <2>9, <2>10 DEF FifoStep
<1>4. CASE Send
  BY <1>2, <1>4 DEF Send, Next, WriterStep
<1>5. CASE Receive
  BY <1>5 DEF Receive, Next, ReaderStep
<1>6. CASE Idle
  BY <1>6 DEF Idle, Next
<1>7. CASE Schedule
  BY <1>7 DEF Next
<1> QED
  BY <1>1, <1>3, <1>4, <1>5, <1>6, <1>7 DEF FifoNext

(* What a channel's pointer points to plays no part in who waits for what. *)
LEMMA GarbageIInv ==
  ASSUME IInv, Garbage PROVE IInv'
<1>1. /\ UNCHANGED << kernel, available_data, writer_notify, reader_notify, rd, wr, out,
                      read_success, write_success, taken >>
      /\ shared_data' = [shared_data EXCEPT ![Out] = MaxSent]
  BY DEF Garbage
<1>2. TypeOK'
  BY <1>1, FifoAssumption DEF IInv, TypeOK, KernelTypeOK, kernel
<1>3. OnePlace'
  BY <1>1 DEF IInv, OnePlace, Place, kernel
<1>4. \A c \in Chan : ReaderEnd(c)' /\ WriterEnd(c)'
  BY <1>1 DEF IInv, ReaderEnd, WriterEnd, kernel
<1> QED
  BY <1>2, <1>3, <1>4 DEF IInv

(* The channels keep their invariant under the FIFO and its neighbours.    *)
LEMMA NextFifoIInv ==
  ASSUME IInv, FifoTypes, [FifoNext]_fvars PROVE IInv'
<1>1. TypeOK
  BY DEF IInv
<1> QED
  BY <1>1, ChannelSteps, GarbageIInv, NextIInv

(* Indices stay inside the buffer, and it holds what was sent.             *)
LEMMA NextFifoTypes ==
  ASSUME TypeOK, FifoTypes, [FifoNext]_fvars PROVE FifoTypes'
<1> USE FifoAssumption
<1>1. value_in \in Data /\ \A c \in Chan : shared_data[c] \in Data
  BY Names DEF TypeOK, value_in
<1>2. \A i \in 0 .. N - 1 : (i + 1) % N \in 0 .. N - 1
  BY Slots
<1>3. CASE UNCHANGED << pc, state, sent, received >>
  BY <1>3 DEF FifoTypes, state
<1>4. ASSUME Goto("reset_write") \/ Goto("poll") \/ Goto("both_write") \/ Goto("full_read")
             \/ Goto("full_store") \/ Goto("empty_write") \/ Goto("in_store"),
             buffer' = buffer \/ Store, tail' = tail \/ Store, head' = head \/ Fetch,
             is_full' \in BOOLEAN, is_empty' \in BOOLEAN, from_reset' \in BOOLEAN
      PROVE  FifoTypes'
  <2>1. /\ pc' \in {"reset_write", "poll", "both_write", "full_read", "full_store",
                    "empty_write", "in_store"}
        /\ sent' = sent /\ received' = received
    BY <1>4 DEF Goto
  <2>2. buffer' \in [0 .. N - 1 -> Data]
    BY <1>1, <1>4 DEF FifoTypes, Store
  <2>3. head' \in 0 .. N - 1 /\ tail' \in 0 .. N - 1
    BY <1>2, <1>4 DEF FifoTypes, Store, Fetch
  <2> QED
    BY <1>4, <2>1, <2>2, <2>3 DEF FifoTypes
<1>5. CASE FifoStep
  <2> USE <1>3, <1>4 DEF FifoTypes
  <2>1. CASE ResetWait \/ Neither
    BY <2>1 DEF ResetWait, Neither, state
  <2>2. CASE ResetWrite
    BY <2>2 DEF ResetWrite
  <2>3. CASE Both \/ BothEmpty \/ OnlyIn \/ FullRead
    BY <2>3 DEF Both, BothEmpty, OnlyIn, FullRead, state
  <2>4. CASE BothFull
    BY <2>4 DEF BothFull
  <2>5. CASE OnlyOut
    BY <2>5 DEF OnlyOut
  <2>6. CASE BothWrite
    BY <2>6 DEF BothWrite
  <2>7. CASE FullStore \/ InStore
    BY <2>7 DEF FullStore, InStore
  <2>8. CASE EmptyWrite
    BY <2>8 DEF EmptyWrite, state
  <2>9. CASE FifoResume
    BY <2>9 DEF FifoResume
  <2> QED
    BY <1>5, <2>1, <2>2, <2>3, <2>4, <2>5, <2>6, <2>7, <2>8, <2>9 DEF FifoStep, Poll
<1>6. CASE Send
  BY <1>6 DEF Send, FifoTypes, state
<1>7. CASE Receive
  <2>1. CASE UNCHANGED received
    BY <1>7, <2>1 DEF Receive, FifoTypes, state
  <2>2. ASSUME Take(Out), received' = Append(received, out'[Out]), UNCHANGED << pc, state, sent >>
        PROVE  FifoTypes'
    <3>1. out'[Out] \in Data
      BY <1>1, <2>2, Names, Takes
    <3> QED
      BY <2>2, <3>1 DEF FifoTypes, state
  <2> QED
    BY <1>7, <2>1, <2>2 DEF Receive, ReadNow, ReadResume
<1>8. CASE Idle \/ (Schedule /\ UNCHANGED << pc, state, sent, received >>) \/ Garbage
  BY <1>3, <1>8 DEF Idle, Garbage
<1>9. CASE UNCHANGED fvars
  BY <1>3, <1>9 DEF fvars
<1> QED
  BY <1>5, <1>6, <1>7, <1>8, <1>9 DEF FifoNext

-----------------------------------------------------------------------------
(* fsm() offers v, after it found that the sink has read.                  *)
LEMMA WritesOut ==
  ASSUME TypeOK, NEW v \in Data, Write(Out, v) \/ TryWrite(Out, v, "try_write")
  PROVE  /\ available_data'[In] = available_data[In] /\ available_data'[Out] = TRUE
         /\ shared_data'[In] = shared_data[In] /\ shared_data'[Out] = v
         /\ wr'[In] = wr[In] /\ rd' = rd /\ out' = out
<1>1. Offer(Out, v, "write") \/ Offer(Out, v, "try_write")
  BY DEF Write, TryWrite
<1>2. ASSUME NEW op, Offer(Out, v, op)
      PROVE  /\ available_data'[In] = available_data[In] /\ available_data'[Out] = TRUE
             /\ shared_data'[In] = shared_data[In] /\ shared_data'[Out] = v
             /\ wr'[In] = wr[In] /\ rd' = rd /\ out' = out
  BY <1>2, Names DEF Offer, TypeOK
<1> QED
  BY <1>1, <1>2

(* The source offers its next value when the last one has been read.       *)
LEMMA WritesIn ==
  ASSUME TypeOK, NEW v \in Data, Write(In, v)
  PROVE  /\ available_data'[Out] = available_data[Out] /\ available_data'[In] = TRUE
         /\ shared_data'[Out] = shared_data[Out] /\ shared_data'[In] = v
         /\ wr[In] = "idle" /\ wr'[In] = "write" /\ rd' = rd /\ out' = out
<1>1. Offer(In, v, "write")
  BY DEF Write
<1>2. current = Writer[In] /\ ~ InCall(current)
  BY <1>1 DEF Offer, Calls
<1>3. wr[In] = "idle"
  BY <1>2, Names DEF InCall
<1>4. /\ available_data'[In] = TRUE /\ shared_data'[In] = v /\ wr'[In] = "write"
      /\ rd' = rd /\ out' = out
  BY <1>1, Names DEF Offer, TypeOK
<1>5. available_data'[Out] = available_data[Out] /\ shared_data'[Out] = shared_data[Out]
  BY <1>1, Names, Offers
<1> QED
  BY <1>3, <1>4, <1>5

(* A call returns that has nothing to take from the channel.               *)
LEMMA Returns ==
  ASSUME TypeOK, Polled, FifoResume
  PROVE  /\ UNCHANGED << available_data, shared_data, rd, out >>
         /\ wr'[In] = wr[In]
         /\ UNCHANGED << pc, state, sent, received >>
<1>1. WriteResume(Out) \/ TryWriteResume(Out)
  BY DEF FifoResume, ReadResume, Polled
<1> QED
  BY <1>1, Names DEF FifoResume, WriteResume, TryWriteResume, TypeOK

(* The sink takes the value, or goes to wait for one.                      *)
LEMMA Receives ==
  ASSUME TypeOK, Polled, Receive
  PROVE  /\ available_data'[In] = available_data[In]
         /\ shared_data' = shared_data
         /\ wr' = wr /\ rd'[In] = rd[In] /\ out'[In] = out[In]
         /\ UNCHANGED << pc, state, sent >>
         /\ \/ available_data'[Out] = available_data[Out] /\ received' = received
            \/ /\ available_data[Out] /\ available_data'[Out] = FALSE
               /\ received' = Append(received, shared_data[Out])
<1>1. CASE ReadWait(Out)
  <2>1. received' = received /\ UNCHANGED << available_data, shared_data, wr, out >>
    BY <1>1 DEF Receive, ReadWait, ReadNow, ReadResume, TypeOK, Block, Calls, InCall
  <2>2. rd'[In] = rd[In]
    BY <1>1, Names DEF ReadWait, TypeOK
  <2> QED
    BY <2>1, <2>2 DEF Receive
<1>2. CASE ReadNow(Out) \/ ReadResume(Out)
  <2>1. Take(Out) /\ available_data[Out]
    BY <1>2 DEF ReadNow, ReadResume
  <2>2. rd'[In] = rd[In]
    BY <1>2, Names DEF ReadNow, ReadResume, TypeOK
  <2>3. received' = Append(received, out'[Out])
    BY <1>2, <2>1 DEF Receive, ReadWait
  <2> QED
    BY <2>1, <2>2, <2>3, Names, Takes DEF Receive
<1> QED
  BY <1>1, <1>2 DEF Receive

(* Only fsm() takes from `producer' and only fsm() fills `consumer', so what *)
(* it found when it polled stays so.                                       *)
LEMMA NextPolled ==
  ASSUME TypeOK, FifoTypes, Polled, [FifoNext]_fvars PROVE Polled'
<1> USE FifoAssumption, Names DEF Polled
<1>1. CASE UNCHANGED << available_data, wr, rd, pc, from_reset, received, is_empty >>
  BY <1>1
<1>2. /\ 0 \in Data /\ value_out \in Data /\ value_in \in Data
      /\ sent < MaxSent => sent + 1 \in Data
  BY DEF TypeOK, FifoTypes, value_out, value_in
<1>3. CASE FifoStep
  <2> USE DEF Goto, At, can_read, can_write, peek, poke, state
  <2>1. CASE ResetWait \/ (At("poll") /\ Neither)
    BY <2>1 DEF ResetWait, Neither, channel
  <2>2. CASE ResetWrite
    BY <1>2, <2>2, WritesOut DEF ResetWrite
  <2>3. CASE At("poll") /\ (Both \/ BothEmpty \/ OnlyIn)
    <3>1. /\ Read(In) /\ available_data[In]
          /\ pc' \in {"both_write", "empty_write", "in_store"}
          /\ pc' # "in_store" => ~ available_data[Out]
          /\ UNCHANGED << from_reset, received, is_empty >>
      BY <2>3 DEF Both, BothEmpty, OnlyIn
    <3>2. /\ ReadNow(In)
          /\ available_data'[In] = FALSE /\ available_data'[Out] = available_data[Out]
          /\ wr' = wr /\ rd' = rd
      BY <3>1, ReadsNow
    <3> QED
      BY <2>3, <3>1, <3>2
  <2>4. CASE At("poll") /\ (BothFull \/ OnlyOut)
    <3>1. Write(Out, value_out) \/ TryWrite(Out, value_out, "try_write")
      BY <2>4 DEF BothFull, OnlyOut
    <3>2. /\ pc' = "full_read" => available_data[In]
          /\ pc' \in {"poll", "full_read"}
          /\ UNCHANGED << from_reset, received >>
      BY <2>4 DEF BothFull, OnlyOut
    <3>3. /\ available_data'[In] = available_data[In]
          /\ wr'[In] = wr[In] /\ rd' = rd
      BY <1>2, <3>1, WritesOut
    <3> QED
      BY <2>4, <3>2, <3>3
  <2>5. CASE BothWrite
    <3>1. buffer'[head] \in Data
      BY <1>2, <2>5 DEF BothWrite, Store, FifoTypes
    <3> QED
      BY <2>5, <3>1, WritesOut DEF BothWrite
  <2>6. CASE FullRead
    BY <2>6, ReadsNow DEF FullRead
  <2>7. CASE FullStore \/ InStore
    BY <2>7 DEF FullStore, InStore, vars, channel
  <2>8. CASE EmptyWrite
    BY <1>2, <2>8, WritesOut DEF EmptyWrite
  <2>9. CASE FifoResume
    BY <2>9, Returns
  <2> QED
    BY <1>3, <2>1, <2>2, <2>3, <2>4, <2>5, <2>6, <2>7, <2>8, <2>9 DEF FifoStep, Poll
<1>4. CASE Send
  <2>1. CASE WriteResume(In)
    BY <1>4, <2>1 DEF Send, WriteResume, state, TypeOK
  <2>2. CASE ~ WriteResume(In)
    BY <1>2, <1>4, <2>2, WritesIn DEF Send, state
  <2> QED
    BY <2>1, <2>2
<1>5. CASE Receive
  <2>1. /\ available_data'[In] = available_data[In] /\ wr' = wr /\ rd'[In] = rd[In]
        /\ UNCHANGED << pc, from_reset, is_empty >>
        /\ available_data[Out] \/ (available_data'[Out] = available_data[Out] /\ received' = received)
        /\ available_data'[Out] => available_data[Out]
    BY <1>5, Receives DEF state
  <2> QED
    BY <2>1
<1>6. CASE Idle \/ (Schedule /\ UNCHANGED << pc, state, sent, received >>) \/ Garbage
  BY <1>1, <1>6 DEF Idle, Pause, Schedule, Garbage, state, channel
<1>7. CASE UNCHANGED fvars
  BY <1>1, <1>7 DEF fvars, vars, channel, state
<1> QED
  BY <1>3, <1>4, <1>5, <1>6, <1>7 DEF FifoNext

(* The flags follow the indices.                                           *)
LEMMA NextFlags ==
  ASSUME FifoTypes, Polled, Flags, [FifoNext]_fvars PROVE Flags'
<1> USE FifoAssumption DEF Flags, Free
<1>1. CASE UNCHANGED << pc, state >>
  BY <1>1 DEF state
<1>2. \A i \in 0 .. N - 1 : /\ (i + 1) % N = (IF i + 1 < N THEN i + 1 ELSE i + 1 - N)
                           /\ (i + 1) % N \in 0 .. N - 1
  BY Slots
<1>3. CASE FifoStep
  <2> USE DEF Goto, At, state, FifoTypes
  <2>1. CASE ResetWait \/ ResetWrite \/ (At("poll") /\ Neither)
    BY <2>1 DEF ResetWait, ResetWrite, Neither, Polled
  <2>2. CASE At("poll") /\ (Both \/ BothEmpty \/ OnlyIn)
    BY <2>2 DEF Both, BothEmpty, OnlyIn
  <2>3. CASE At("poll") /\ BothFull
    BY <1>2, <2>3 DEF BothFull, Fetch
  <2>4. CASE At("poll") /\ OnlyOut
    BY <1>2, <2>4 DEF OnlyOut, Fetch
  <2>5. CASE BothWrite
    <3>1. /\ head' = (head + 1) % N /\ tail' = (tail + 1) % N
          /\ pc' = "poll" /\ is_full' = FALSE /\ is_empty' = FALSE /\ head # tail
      BY <2>5 DEF BothWrite, Store, Fetch
    <3>2. /\ head' = (IF head + 1 < N THEN head + 1 ELSE head + 1 - N)
          /\ tail' = (IF tail + 1 < N THEN tail + 1 ELSE tail + 1 - N)
      BY <1>2, <3>1
    <3>3. head' # tail'
      BY <3>1, <3>2
    <3> QED
      BY <3>1, <3>3
  <2>6. CASE FullRead
    BY <2>6 DEF FullRead
  <2>7. CASE FullStore
    BY <1>2, <2>7 DEF FullStore, Store
  <2>8. CASE InStore
    BY <1>2, <2>8 DEF InStore, Store
  <2>9. CASE EmptyWrite
    BY <2>9 DEF EmptyWrite
  <2>10. CASE FifoResume
    BY <1>1, <2>10 DEF FifoResume
  <2> QED
    BY <1>3, <2>1, <2>2, <2>3, <2>4, <2>5, <2>6, <2>7, <2>8, <2>9, <2>10 DEF FifoStep, Poll
<1>4. CASE Send \/ Receive \/ Idle \/ (Schedule /\ UNCHANGED << pc, state, sent, received >>)
           \/ Garbage \/ UNCHANGED fvars
  BY <1>1, <1>4 DEF Send, Receive, Idle, Garbage, fvars
<1> QED
  BY <1>3, <1>4 DEF FifoNext

-----------------------------------------------------------------------------
(* The values, one kind of step at a time.                                 *)
LEMMA Numbers ==
  ASSUME TypeOK, FifoTypes, Flags
  PROVE  /\ Stored \in 0 .. N /\ Len(received) \in Nat /\ sent \in Nat
         /\ Count(In) \in {0, 1} /\ Count(Out) \in {0, 1} /\ Hand \in {0, 1} /\ Reset \in {0, 1}
         /\ Passed \in Int
         /\ value_in \in Int /\ \A c \in Chan : shared_data[c] \in Int
<1>1. Len(received) \in Nat /\ sent \in Nat
  BY FifoAssumption DEF FifoTypes
<1>2. Data \subseteq Int
  BY FifoAssumption
<1>3. value_in \in Int /\ \A c \in Chan : shared_data[c] \in Int
  BY <1>2, Names DEF TypeOK, value_in
<1> QED
  BY <1>1, <1>3, StoredRange DEF Count, Hand, Reset, Passed

(* Nothing moved.                                                          *)
LEMMA KeepsValues ==
  ASSUME Values,
         UNCHANGED << Count(In), Count(Out), shared_data[In], shared_data[Out], received, sent,
                      buffer, head, Stored, Hand, value_in, from_reset >>
  PROVE  Values'
<1>1. Passed' = Passed /\ Reset' = Reset
  BY DEF Passed, Reset
<1> QED
  BY <1>1 DEF Values, Holds, Count

(* fsm() reads.                                                            *)
LEMMA ReadValues ==
  ASSUME TypeOK, FifoTypes, Polled, Flags, Values,
         Read(In), available_data[In],
         \/ pc = "poll" /\ pc' \in {"both_write", "empty_write", "in_store"}
         \/ pc = "full_read" /\ pc' = "full_store",
         UNCHANGED << state, sent, received >>
  PROVE  Values'
<1>1. /\ available_data'[In] = FALSE /\ available_data'[Out] = available_data[Out]
      /\ out'[In] = shared_data[In] /\ shared_data' = shared_data
  BY ReadsNow
<1>2. Hand = 0 /\ Hand' = 1
  BY DEF Hand
<1>3. Stored' = Stored
  BY DEF Stored, state
<1>4. /\ Count(In) = 1 /\ Count(In)' = 0 /\ Count(Out)' = Count(Out)
  BY <1>1 DEF Count
<1>5. Passed' = Passed /\ Reset' = Reset
  BY <1>4 DEF Passed, Reset, state
<1>6. value_in' = sent
  BY <1>1 DEF value_in, Values
<1>7. Passed + Stored + 1 = sent
  BY <1>2, <1>4, Numbers DEF Values
<1>8. Holds(buffer, head, Stored, Passed + 1)'
  BY <1>3, <1>5 DEF Holds, Values, state
<1>9. \A i \in Reset' + 1 .. Len(received') : received'[i] = i - Reset'
  BY <1>5 DEF Values
<1> QED
  BY <1>1, <1>2, <1>3, <1>4, <1>5, <1>6, <1>7, <1>8, <1>9, Numbers DEF Values

(* A value leaves fsm(): what is stored is one less, or what it had in its *)
(* hand.                                                                   *)
LEMMA WriteValues ==
  ASSUME TypeOK, FifoTypes, Polled, Flags, Values,
         NEW v \in Data, Write(Out, v) \/ TryWrite(Out, v, "try_write"),
         from_reset, ~ available_data[Out], UNCHANGED << sent, received, from_reset >>,
         v = Passed + 1,
         Holds(buffer', head', Stored', Passed + 2),
         Hand' = 0, Stored' = Stored + Hand - 1
  PROVE  Values'
<1>1. /\ available_data'[In] = available_data[In] /\ available_data'[Out] = TRUE
      /\ shared_data'[In] = shared_data[In] /\ shared_data'[Out] = v
  BY WritesOut
<1>2. Count(Out) = 0 /\ Count(Out)' = 1 /\ Count(In)' = Count(In)
  BY <1>1 DEF Count
<1>3. Passed' = Passed + 1 /\ Reset' = Reset
  BY <1>2, Numbers DEF Passed, Reset
<1>4. Passed' + 1 = Passed + 2
  BY <1>3, Numbers
<1>5. Passed' + Stored' + Hand' + Count(In)' = sent'
  BY <1>2, <1>3, Numbers, SMTT(30) DEF Values
<1>6. \A i \in Reset' + 1 .. Len(received') : received'[i] = i - Reset'
  BY <1>3 DEF Values
<1>7. Passed' >= 0
  BY <1>3, Numbers DEF Values
<1> QED
  BY <1>1, <1>3, <1>4, <1>5, <1>6, <1>7 DEF Values

(* fsm() stores what it had in its hand.                                   *)
LEMMA StoreValues ==
  ASSUME TypeOK, FifoTypes, Polled, Flags, Values,
         Store, Stored < N, Stored' = Stored + 1, Hand = 1, Hand' = 0,
         UNCHANGED << channel, head, from_reset, sent, received >>
  PROVE  Values'
<1>1. /\ available_data' = available_data /\ shared_data' = shared_data
      /\ Count(In)' = Count(In) /\ Passed' = Passed /\ Reset' = Reset
  BY DEF channel, Count, Passed, Reset
<1>2. value_in = Passed + 1 + Stored /\ Passed + 1 \in Int /\ Stored \in 0 .. N - 1
  BY Numbers, FifoAssumption, SMTT(30) DEF Values
<1>3. tail = (head + Stored) % N
  BY StoredRange
<1>4. buffer' = [buffer EXCEPT ![(head + Stored) % N] = Passed + 1 + Stored]
  BY <1>2, <1>3 DEF Store
<1>5. Holds(buffer', head, Stored + 1, Passed + 1)
  BY <1>2, <1>4, StoreHolds DEF FifoTypes, Values
<1>6. Holds(buffer, head, Stored, Passed + 1)'
  BY <1>1, <1>5 DEF Holds
<1>7. Passed' + Stored' + Hand' + Count(In)' = sent'
  BY <1>1, Numbers DEF Values
<1> QED
  BY <1>1, <1>6, <1>7 DEF Values

(* Every step moves a value by at most one place, and never past another.  *)
LEMMA NextValues ==
  ASSUME TypeOK, FifoTypes, Polled, Flags, Values, [FifoNext]_fvars PROVE Values'
<1> USE FifoAssumption, Names
<1>1. /\ 0 \in Data /\ value_out \in Data /\ value_in \in Data
      /\ sent < MaxSent => sent + 1 \in Data
  BY DEF TypeOK, FifoTypes, value_out, value_in
<1>2. ASSUME UNCHANGED << available_data, shared_data, out, received, sent, state >>,
             Hand' = Hand, Stored' = Stored
      PROVE  Values'
  BY <1>2, KeepsValues DEF Count, state, value_in
<1>3. CASE FifoStep
  <2> USE DEF Goto, At, can_read, can_write, peek, poke
  <2>1. CASE ResetWait \/ (At("poll") /\ Neither)
    <3>1. UNCHANGED << available_data, shared_data, out, received, sent, state >>
      BY <2>1 DEF ResetWait, Neither, channel
    <3>2. Hand' = Hand /\ Stored' = Stored
      BY <2>1, <3>1 DEF ResetWait, Neither, Hand, Stored, state
    <3> QED
      BY <1>2, <3>1, <3>2
  <2>2. CASE ResetWrite
    <3>1. /\ available_data'[In] = available_data[In] /\ available_data'[Out] = TRUE
          /\ shared_data'[In] = shared_data[In]
          /\ out' = out
      BY <1>1, <2>2, WritesOut DEF ResetWrite
    <3>2. /\ ~ from_reset /\ from_reset' /\ received = << >> /\ ~ available_data[Out] /\ is_empty
          /\ pc = "reset_write" /\ pc' = "poll"
          /\ UNCHANGED << buffer, head, tail, is_full, is_empty, sent, received >>
      BY <2>2 DEF ResetWrite, Polled
    <3>3. /\ Count(Out) = 0 /\ Count(Out)' = 1 /\ Count(In)' = Count(In)
          /\ Reset = 0 /\ Reset' = 1 /\ Hand = 0 /\ Hand' = 0
          /\ Passed = 0 /\ Passed' = 0
      BY <3>1, <3>2 DEF Count, Reset, Hand, Passed
    <3>4. Stored = 0 /\ Stored' = 0
      BY <3>2 DEF Flags, Stored
    <3> QED
      BY <3>1, <3>2, <3>3, <3>4, Numbers DEF Values, Holds
  <2>3. CASE At("poll") /\ (Both \/ BothEmpty \/ OnlyIn)
    BY <2>3, ReadValues DEF Both, BothEmpty, OnlyIn
  <2>4. CASE At("poll") /\ (BothFull \/ OnlyOut)
    <3>1. Write(Out, value_out) \/ TryWrite(Out, value_out, "try_write")
      BY <2>4 DEF BothFull, OnlyOut
    <3>2. /\ pc = "poll" /\ from_reset /\ ~ available_data[Out] /\ ~ is_empty
          /\ UNCHANGED << sent, received, from_reset, buffer, tail >>
          /\ head' = (head + 1) % N
      BY <2>4 DEF BothFull, OnlyOut, Fetch, Polled
    <3>3. Hand = 0 /\ Hand' = 0
      BY <2>4, <3>2 DEF Hand, BothFull, OnlyOut
    <3>4. Stored \in 1 .. N
      <4>1. Stored \in 0 .. N /\ (is_full => Stored = N) /\ (~ is_full => Stored > 0)
        BY <3>2, StoredRange DEF Free
      <4> QED
        BY <4>1
    <3>5. value_out = Passed + 1 /\ Holds(buffer, head', Stored - 1, Passed + 1 + 1)
      <4>1. Passed + 1 \in Int /\ head \in 0 .. N - 1 /\ Holds(buffer, head, Stored, Passed + 1)
        BY Numbers DEF Values, FifoTypes
      <4> QED
        BY <3>2, <3>4, <4>1, FetchHolds DEF value_out
    <3>6. Stored' = Stored - 1
      <4>1. /\ head' = (IF head + 1 < N THEN head + 1 ELSE head + 1 - N)
            /\ head' \in 0 .. N - 1
        <5>1. head' = (IF head + 1 < N THEN head + 1 ELSE head + 1 - N)
          BY <3>2, Slots DEF FifoTypes
        <5> QED
          BY <5>1 DEF FifoTypes
      <4>2. /\ (tail - head) % N = (IF head <= tail THEN tail - head ELSE tail - head + N)
            /\ (tail - head') % N = (IF head' <= tail THEN tail - head' ELSE tail - head' + N)
        BY <4>1, Distance DEF FifoTypes
      <4>3. CASE BothFull
        <5>1. is_full /\ is_full' /\ ~ is_empty' /\ pc' = "full_read" /\ tail' = tail
          BY <4>3 DEF BothFull
        <5>2. Stored = N /\ head = tail
          BY <3>2, <5>1 DEF Stored, Flags, Free
        <5>3. Stored' = (tail - head') % N
          BY <5>1 DEF Stored
        <5>4. Stored' = (IF head' <= tail THEN tail - head' ELSE tail - head' + N)
          BY <4>2, <5>3
        <5> QED
          BY <4>1, <5>2, <5>4 DEF FifoTypes
      <4>4. CASE OnlyOut /\ is_full
        <5>1. Stored = N /\ head = tail
          BY <3>2, <4>4 DEF Stored, Flags, Free
        <5>2. Stored' = (IF tail = head' THEN 0 ELSE (tail - head') % N)
          BY <3>2, <4>4 DEF OnlyOut, Stored
        <5> QED
          BY <4>1, <4>2, <5>1, <5>2 DEF FifoTypes
      <4>5. CASE OnlyOut /\ ~ is_full
        <5>1. Stored = (tail - head) % N /\ head # tail
          BY <3>2, <4>5 DEF Stored, Flags
        <5>2. Stored' = (IF tail = head' THEN 0 ELSE (tail - head') % N)
          BY <3>2, <4>5 DEF OnlyOut, Stored
        <5>3. /\ Stored = (IF head <= tail THEN tail - head ELSE tail - head + N)
              /\ Stored' = (IF tail = head' THEN 0
                            ELSE IF head' <= tail THEN tail - head' ELSE tail - head' + N)
          BY <4>2, <5>1, <5>2
        <5> QED
          BY <4>1, <5>1, <5>3 DEF FifoTypes
      <4> QED
        BY <2>4, <4>3, <4>4, <4>5
    <3>7. Stored' = Stored + Hand - 1 /\ Passed + 1 + 1 = Passed + 2
      BY <3>3, <3>4, <3>6, Numbers
    <3>8. Holds(buffer', head', Stored', Passed + 2)
      BY <3>2, <3>5, <3>6, <3>7
    <3> QED
      BY <1>1, <3>1, <3>2, <3>3, <3>5, <3>7, <3>8, WriteValues
  <2>5. CASE BothWrite
    <3>1. /\ pc = "both_write" /\ from_reset /\ ~ available_data[Out] /\ ~ is_full /\ ~ is_empty
          /\ Store /\ head' = (head + 1) % N /\ Write(Out, buffer'[head]) /\ pc' = "poll"
          /\ UNCHANGED << sent, received, is_full, is_empty, from_reset >>
      BY <2>5 DEF BothWrite, Fetch, Polled, Flags
    <3>2. Hand = 1 /\ Hand' = 0
      BY <3>1 DEF Hand
    <3>3. /\ Stored \in 1 .. N - 1 /\ tail = (head + Stored) % N
          /\ Stored = (tail - head) % N /\ Stored' = (tail' - head') % N
      <4>1. /\ Stored \in 0 .. N /\ Stored > 0 /\ Stored < N
            /\ tail = (head + Stored) % N /\ Stored = (tail - head) % N
        BY <3>1, StoredRange
      <4>2. Stored' = (tail' - head') % N
        BY <3>1 DEF Stored
      <4> QED
        BY <4>1, <4>2
    <3>4. /\ Passed + 1 \in Int /\ head \in 0 .. N - 1 /\ Stored \in 0 .. N - 1
          /\ Holds(buffer, head, Stored, Passed + 1) /\ value_in = Passed + 1 + Stored
      <4>1. Passed \in Int /\ head \in 0 .. N - 1
        BY Numbers DEF FifoTypes
      <4>2. Holds(buffer, head, Stored, Passed + 1) /\ value_in = Passed + Stored + 1
        BY <3>2 DEF Values
      <4> QED
        BY <3>3, <4>1, <4>2
    <3>5. buffer' = [buffer EXCEPT ![(head + Stored) % N] = Passed + 1 + Stored]
      BY <3>1, <3>3, <3>4 DEF Store
    <3>6. Holds(buffer', head, Stored + 1, Passed + 1)
      BY <3>4, <3>5, StoreHolds DEF FifoTypes
    <3>7. Stored + 1 \in 1 .. N /\ (Stored + 1) - 1 = Stored /\ Passed + 1 + 1 = Passed + 2
      <4>1. Passed \in Int
        BY Numbers
      <4> QED
        BY <3>3, <4>1
    <3>8. buffer'[head] = Passed + 1 /\ Holds(buffer', head', Stored, Passed + 2)
      <4>1. /\ buffer'[head] = Passed + 1
            /\ Holds(buffer', (head + 1) % N, (Stored + 1) - 1, Passed + 1 + 1)
        BY <3>4, <3>6, <3>7, FetchHolds
      <4> QED
        BY <3>1, <3>7, <4>1
    <3>9. Stored' = Stored
      <4>1. tail' = (tail + 1) % N
        BY <3>1 DEF Store
      <4>2. (tail' - ((head + 1) % N)) % N = (tail - head) % N
        BY <4>1, NextDistance DEF FifoTypes
      <4> QED
        BY <3>1, <3>3, <4>2
    <3>10. buffer'[head] \in Data
      BY <1>1, <3>1, <3>4 DEF Store, FifoTypes
    <3>11. Stored' = Stored + Hand - 1
      BY <3>2, <3>3, <3>9
    <3> QED
      BY <3>1, <3>2, <3>8, <3>9, <3>10, <3>11, WriteValues
  <2>6. CASE FullRead
    BY <2>6, ReadValues DEF FullRead, Polled
  <2>7. CASE FullStore \/ InStore
    <3>1. /\ pc \in {"full_store", "in_store"} /\ pc' = "poll"
          /\ Store /\ UNCHANGED << channel, head, from_reset, sent, received >>
      BY <2>7 DEF FullStore, InStore, vars
    <3>2. Hand = 1 /\ Hand' = 0
      BY <3>1 DEF Hand
    <3>3. /\ Stored < N /\ Stored = (tail - head) % N
      BY <3>1, StoredRange DEF Flags, Free
    <3>4. Stored' = Stored + 1
      <4>1. tail' = (tail + 1) % N
        BY <3>1 DEF Store
      <4>2. /\ tail' = head => Stored = N - 1
            /\ tail' # head => (tail' - head) % N = Stored + 1
        BY <3>3, <4>1, NextDistance DEF FifoTypes
      <4>4. CASE FullStore
        <5>1. is_full' /\ head = tail'
          BY <4>1, <4>4 DEF FullStore, Flags, Free
        <5>2. Stored' = N
          BY <3>1, <5>1 DEF Stored
        <5> QED
          BY <4>2, <5>1, <5>2
      <4>5. CASE InStore
        <5>1. ~ is_full /\ is_full' = (tail' = head) /\ ~ is_empty'
          BY <4>5 DEF InStore, Flags, FifoTypes
        <5>2. Stored' = (IF tail' = head THEN N ELSE (tail' - head) % N)
          BY <3>1, <5>1 DEF Stored
        <5> QED
          BY <4>2, <5>2
      <4> QED
        BY <2>7, <4>4, <4>5
    <3> QED
      BY <3>1, <3>2, <3>3, <3>4, StoreValues
  <2>8. CASE EmptyWrite
    <3>1. /\ TryWrite(Out, value_in, "try_write") /\ pc = "empty_write" /\ pc' = "poll"
          /\ from_reset /\ ~ available_data[Out] /\ is_empty /\ UNCHANGED << sent, received, state >>
      BY <2>8 DEF EmptyWrite, Polled, Flags
    <3>2. Hand = 1 /\ Hand' = 0 /\ Stored = 0 /\ Stored' = 0
      BY <3>1 DEF Hand, Stored, state, Flags
    <3>3. value_in = Passed + 1 /\ Stored' = Stored + Hand - 1
      BY <3>2, Numbers DEF Values
    <3>4. Holds(buffer', head', Stored', Passed + 2)
      BY <3>2 DEF Holds
    <3> QED
      BY <1>1, <3>1, <3>2, <3>3, <3>4, WriteValues DEF state
  <2>9. CASE FifoResume
    <3>1. /\ UNCHANGED << available_data, shared_data, out, received, sent, state, pc >>
      BY <2>9, Returns
    <3> QED
      BY <1>2, <3>1 DEF Hand, Stored, state
  <2> QED
    BY <1>3, <2>1, <2>2, <2>3, <2>4, <2>5, <2>6, <2>7, <2>8, <2>9 DEF FifoStep, Poll
<1>4. CASE Send
  <2>1. UNCHANGED << pc, state, received >>
    BY <1>4 DEF Send
  <2>2. Hand' = Hand /\ Stored' = Stored /\ Reset' = Reset
    BY <2>1 DEF Hand, Stored, Reset, state
  <2>3. CASE WriteResume(In)
    <3>1. UNCHANGED << available_data, shared_data, out, sent >>
      BY <1>1, <1>4, <2>3, WritesIn DEF Send, WriteResume
    <3> QED
      BY <1>2, <2>1, <2>2, <3>1
  <2>4. CASE ~ WriteResume(In)
    <3>1. sent + 1 \in Data /\ Write(In, sent + 1) /\ sent' = sent + 1
      BY <1>1, <1>4, <2>4 DEF Send
    <3>2. /\ available_data'[Out] = available_data[Out] /\ available_data'[In] = TRUE
          /\ shared_data'[Out] = shared_data[Out] /\ shared_data'[In] = sent + 1
          /\ wr[In] = "idle" /\ out' = out
      BY <3>1, WritesIn
    <3>3. /\ Count(In) = 0 /\ Count(In)' = 1 /\ Count(Out)' = Count(Out)
      BY <3>2 DEF Count, Polled
    <3>4. Passed' = Passed /\ value_in' = value_in
      BY <2>1, <2>2, <3>2, <3>3 DEF Passed, value_in
    <3>5. Holds(buffer, head, Stored, Passed + 1)'
      BY <2>1, <2>2, <3>4 DEF Holds, Values, state
    <3> QED
      BY <2>1, <2>2, <3>1, <3>2, <3>3, <3>4, <3>5, Numbers DEF Values
  <2> QED
    BY <2>3, <2>4
<1>5. CASE Receive
  <2>1. /\ available_data'[In] = available_data[In]
        /\ shared_data' = shared_data /\ out'[In] = out[In]
        /\ UNCHANGED << pc, state, sent >>
    BY <1>5, Receives
  <2>2. /\ Hand' = Hand /\ Stored' = Stored /\ Reset' = Reset /\ value_in' = value_in
        /\ Count(In)' = Count(In)
    BY <2>1 DEF Hand, Stored, Reset, value_in, state, Count
  <2>3. CASE available_data'[Out] = available_data[Out] /\ received' = received
    BY <2>1, <2>2, <2>3, KeepsValues DEF Count, state
  <2>4. CASE /\ available_data[Out] /\ available_data'[Out] = FALSE
             /\ received' = Append(received, shared_data[Out])
    <3>1. received \in Seq(Data) /\ shared_data[Out] \in Data
      BY DEF FifoTypes, TypeOK
    <3>2. /\ Len(received') = Len(received) + 1
          /\ \A i \in 1 .. Len(received) : received'[i] = received[i]
          /\ received'[Len(received) + 1] = shared_data[Out]
      BY <2>4, <3>1
    <3>3. Count(Out) = 1 /\ Count(Out)' = 0
      BY <2>4 DEF Count
    <3>4. Passed' = Passed /\ Passed = Len(received) + 1 - Reset
      BY <2>2, <3>2, <3>3, Numbers DEF Passed
    <3>5. ASSUME NEW i \in Reset' + 1 .. Len(received') PROVE received'[i] = i - Reset'
      <4>1. CASE i <= Len(received)
        BY <2>2, <3>2, <3>5, <4>1, Numbers DEF Values
      <4>2. CASE ~ (i <= Len(received))
        <5>1. i = Len(received) + 1 /\ Passed > 0
          BY <2>2, <3>2, <3>4, <3>5, <4>2, Numbers
        <5>2. shared_data[Out] = Passed
          BY <2>4, <5>1 DEF Values
        <5>3. i - Reset' = Passed
          BY <2>2, <3>4, <5>1, Numbers
        <5> QED
          BY <3>2, <5>1, <5>2, <5>3
      <4> QED
        BY <4>1, <4>2
    <3>6. Holds(buffer, head, Stored, Passed + 1)'
      BY <2>1, <2>2, <3>4 DEF Holds, Values, state
    <3> QED
      BY <2>1, <2>2, <2>4, <3>4, <3>5, <3>6 DEF Values
  <2> QED
    BY <1>5, <2>3, <2>4, Receives
<1>6. CASE Garbage
  <2>1. /\ from_reset /\ received = << >> /\ available_data[Out]
        /\ shared_data'[In] = shared_data[In]
        /\ UNCHANGED << available_data, out, pc, state, sent, received >>
    BY <1>6 DEF Garbage, TypeOK
  <2>2. /\ Hand' = Hand /\ Stored' = Stored /\ Reset' = Reset /\ value_in' = value_in
        /\ Count(In)' = Count(In) /\ Passed' = Passed
    BY <2>1 DEF Hand, Stored, Reset, value_in, state, Count, Passed
  <2>3. Passed = 0
    BY <2>1 DEF Passed, Count, Reset
  <2>4. Holds(buffer, head, Stored, Passed + 1)'
    BY <2>1, <2>2 DEF Holds, Values, state
  <2> QED
    BY <2>1, <2>2, <2>3, <2>4 DEF Values
<1>7. CASE Idle \/ (Schedule /\ UNCHANGED << pc, state, sent, received >>) \/ UNCHANGED fvars
  <2>1. UNCHANGED << available_data, shared_data, out, received, sent, state, pc >>
    BY <1>7 DEF Idle, Pause, Schedule, fvars, vars, channel
  <2> QED
    BY <1>2, <2>1 DEF Hand, Stored, state
<1> QED
  BY <1>3, <1>4, <1>5, <1>6, <1>7 DEF FifoNext

-----------------------------------------------------------------------------
(* Every step keeps the invariant.                                         *)
LEMMA NextFInv == FInv /\ [FifoNext]_fvars => FInv'
<1> SUFFICES ASSUME FInv, [FifoNext]_fvars PROVE FInv'
  OBVIOUS
<1>1. IInv /\ TypeOK /\ FifoTypes /\ Polled /\ Flags /\ Values
  BY DEF FInv, IInv
<1> QED
  BY <1>1, NextFifoIInv, NextFifoTypes, NextPolled, NextFlags, NextValues DEF FInv

(* The invariant of the FIFO.                                              *)
THEOREM FifoInvariance == FifoSpec => []FInv
BY FifoInitFInv, NextFInv, PTL DEF FifoSpec

(* What peek() and poke() said still holds when the calls they guard are   *)
(* made: fsm() never waits for the source and never overwrites.            *)
THEOREM PollsHold == FifoSpec => []PollHolds
<1>1. FInv => PollHolds
  BY DEF FInv, Polled, PollHolds, peek, poke
<1> QED
  BY <1>1, FifoInvariance, PTL

(* A list that counts from e on, and a further one that goes on counting.  *)
Goes(q, e) == \A i \in e + 1 .. Len(q) : q[i] = i - e

LEMMA GoesOn ==
  ASSUME NEW s \in Seq(Data), NEW t \in Seq(Data), NEW e \in Nat, Goes(s, e),
         \A i \in 1 .. Len(t) : Len(s) + i > e => t[i] = Len(s) + i - e
  PROVE  s \o t \in Seq(Data) /\ Len(s \o t) = Len(s) + Len(t) /\ Goes(s \o t, e)
<1>1. s \o t \in Seq(Data) /\ Len(s \o t) = Len(s) + Len(t)
  OBVIOUS
<1>2. ASSUME NEW i \in e + 1 .. Len(s \o t) PROVE (s \o t)[i] = i - e
  <2>1. CASE i <= Len(s)
    BY <1>1, <2>1 DEF Goes
  <2>2. CASE ~ (i <= Len(s))
    <3>1. i - Len(s) \in 1 .. Len(t) /\ Len(s) + (i - Len(s)) = i /\ i > e
      BY <1>1, <2>2
    <3>2. (s \o t)[i] = t[i - Len(s)]
      BY <1>1, <2>2
    <3> QED
      BY <3>1, <3>2
  <2> QED
    BY <2>1, <2>2
<1> QED
  BY <1>1, <1>2 DEF Goes

(* The invariant, put together from one end to the other.                  *)
LEMMA ValuesInOrder == FInv => NothingLost
<1> SUFFICES ASSUME FInv PROVE NothingLost
  OBVIOUS
<1> USE FifoAssumption, Names
<1>1. TypeOK /\ FifoTypes /\ Flags /\ Polled /\ Values
  BY DEF FInv, IInv
<1>2. /\ received \in Seq(Data) /\ value_in \in Data
      /\ \A c \in Chan : shared_data[c] \in Data
  BY <1>1 DEF TypeOK, FifoTypes, value_in
<1>3. /\ Stored \in 0 .. N /\ Len(received) \in Nat /\ sent \in Nat
      /\ Count(In) \in {0, 1} /\ Count(Out) \in {0, 1} /\ Hand \in {0, 1} /\ Reset \in {0, 1}
      /\ Passed \in Int /\ Passed = Len(received) + Count(Out) - Reset
  BY <1>1, Numbers DEF Passed
<1>4. ASSUME NEW c \in Chan
      PROVE  /\ Pending(c) \in Seq(Data) /\ Len(Pending(c)) = Count(c)
             /\ Count(c) = 1 => Pending(c)[1] = shared_data[c]
  <2>1. CASE available_data[c]
    <3>1. Pending(c) = << shared_data[c] >> /\ Count(c) = 1
      BY <2>1 DEF Pending, Count
    <3> QED
      BY <1>2, <3>1
  <2>2. CASE ~ available_data[c]
    <3>1. Pending(c) = << >> /\ Count(c) = 0
      BY <2>2 DEF Pending, Count
    <3> QED
      BY <3>1
  <2> QED
    BY <2>1, <2>2
<1>5. /\ InHand \in Seq(Data) /\ Len(InHand) = Hand
      /\ Hand = 1 => InHand[1] = value_in
  <2>1. CASE Hand = 1
    <3>1. InHand = << value_in >>
      BY <1>1, <2>1 DEF InHand, Hand, Polled
    <3> QED
      BY <1>2, <2>1, <3>1
  <2>2. CASE Hand = 0
    <3>1. InHand = << >>
      BY <2>2 DEF InHand, Hand
    <3> QED
      BY <2>2, <3>1
  <2> QED
    BY <1>3, <2>1, <2>2
<1>6. /\ Contents \in Seq(Data) /\ Len(Contents) = Stored
      /\ \A i \in 1 .. Stored : Contents[i] = Passed + i
  <2>1. ASSUME NEW i \in 1 .. Stored
        PROVE  /\ buffer[(head + i - 1) % N] \in Data
               /\ buffer[(head + i - 1) % N] = Passed + i
    <3>1. head + i - 1 = head + (i - 1) /\ i - 1 \in 0 .. Stored - 1 /\ i - 1 \in 0 .. N
      BY <1>1, <1>3 DEF FifoTypes
    <3>2. (head + (i - 1)) % N = (IF head + (i - 1) < N THEN head + (i - 1) ELSE head + (i - 1) - N)
      BY <1>1, <3>1, Slots DEF FifoTypes
    <3>3. (head + (i - 1)) % N \in 0 .. N - 1
      BY <1>1, <1>3, <3>1, <3>2 DEF FifoTypes
    <3>4. buffer[(head + (i - 1)) % N] = Passed + 1 + (i - 1)
      BY <1>1, <3>1 DEF Values, Holds
    <3> QED
      BY <1>1, <1>3, <3>1, <3>3, <3>4 DEF FifoTypes
  <2>2. Stored \in Nat
    BY <1>3
  <2>3. Contents \in [1 .. Stored -> Data]
    BY <2>1 DEF Contents
  <2>4. Contents \in Seq(Data) /\ Len(Contents) = Stored
    BY <2>2, <2>3
  <2>5. \A i \in 1 .. Stored : Contents[i] = Passed + i
    BY <2>1 DEF Contents
  <2> QED
    BY <2>4, <2>5
<1> DEFINE a == received \o Pending(Out)
           b == a \o Contents
           c == b \o InHand
           d == c \o Pending(In)
<1>7. a \in Seq(Data) /\ Len(a) = Len(received) + Count(Out) /\ Goes(a, Reset)
  <2>1. Goes(received, Reset)
    BY <1>1 DEF Goes, Values
  <2>2. ASSUME NEW i \in 1 .. Len(Pending(Out)), Len(received) + i > Reset
        PROVE  Pending(Out)[i] = Len(received) + i - Reset
    <3>1. i = 1 /\ Count(Out) = 1
      BY <1>3, <1>4, <2>2
    <3>2. Passed > 0 /\ Passed = Len(received) + i - Reset /\ available_data[Out]
      BY <1>3, <2>2, <3>1 DEF Count
    <3> QED
      BY <1>1, <1>4, <3>1, <3>2 DEF Values
  <2> QED
    <3>1. Pending(Out) \in Seq(Data) /\ Len(Pending(Out)) = Count(Out) /\ Reset \in Nat
      BY <1>3, <1>4
    <3> QED
      BY <1>2, <2>1, <2>2, <3>1, GoesOn
<1>8. Reset \in Nat
  BY <1>3
<1>9. b \in Seq(Data) /\ Len(b) = Passed + Reset + Stored /\ Goes(b, Reset)
  <2> HIDE DEF a
  <2>1. Len(a) = Passed + Reset /\ Len(a) \in Nat
    BY <1>3, <1>7
  <2>2. ASSUME NEW i \in 1 .. Len(Contents), Len(a) + i > Reset
        PROVE  Contents[i] = Len(a) + i - Reset
    <3>1. i \in 1 .. Stored /\ Contents[i] = Passed + i
      BY <1>6
    <3> QED
      BY <1>3, <2>1, <3>1
  <2>3. /\ a \o Contents \in Seq(Data) /\ Len(a \o Contents) = Len(a) + Stored
        /\ Goes(a \o Contents, Reset)
    <3>1. Len(Contents) = Stored
      BY <1>6
    <3> QED
      BY <1>6, <1>7, <1>8, <2>2, <3>1, GoesOn, ZenonT(40)
  <2> QED
    BY <2>1, <2>3
<1>10. c \in Seq(Data) /\ Len(c) = Passed + Reset + Stored + Hand /\ Goes(c, Reset)
  <2> HIDE DEF a, b
  <2>1. ASSUME NEW i \in 1 .. Len(InHand), Len(b) + i > Reset
        PROVE  InHand[i] = Len(b) + i - Reset
    <3>1. i = 1 /\ Hand = 1
      BY <1>3, <1>5
    <3>2. value_in = Passed + Stored + 1
      BY <1>1, <3>1 DEF Values
    <3> QED
      BY <1>3, <1>5, <1>9, <3>1, <3>2
  <2>2. /\ b \o InHand \in Seq(Data) /\ Len(b \o InHand) = Len(b) + Hand
        /\ Goes(b \o InHand, Reset)
    <3>1. Len(InHand) = Hand
      BY <1>5
    <3> QED
      BY <1>5, <1>9, <1>8, <2>1, <3>1, GoesOn
  <2> QED
    BY <1>9, <2>2
<1>11. Len(d) = Reset + sent /\ Goes(d, Reset)
  <2> HIDE DEF a, b, c
  <2>1. /\ Passed \in Int /\ Stored \in Int /\ Hand \in Int /\ Reset \in Int /\ sent \in Int
        /\ Count(In) \in Int
    BY <1>3
  <2>2. ASSUME NEW i \in 1 .. Len(Pending(In)), Len(c) + i > Reset
        PROVE  Pending(In)[i] = Len(c) + i - Reset
    <3>1. i = 1 /\ Count(In) = 1
      BY <1>3, <1>4
    <3>2. shared_data[In] = sent /\ Passed + Stored + Hand + 1 = sent
      BY <1>1, <3>1 DEF Values, Count
    <3> QED
      BY <1>4, <1>10, <2>1, <3>1, <3>2, SMTT(30)
  <2>3. Len(c \o Pending(In)) = Len(c) + Count(In) /\ Goes(c \o Pending(In), Reset)
    <3>1. Pending(In) \in Seq(Data) /\ Len(Pending(In)) = Count(In)
      BY <1>4
    <3> QED
      BY <1>8, <1>10, <2>2, <3>1, GoesOn, ZenonT(40)
  <2>4. Passed + Stored + Hand + Count(In) = sent
    BY <1>1 DEF Values
  <2>5. Len(c) + Count(In) = Reset + sent
    BY <1>10, <2>4, <2>1
  <2> QED
    BY <2>3, <2>5
<1> QED
  BY <1>11 DEF NothingLost, Goes

(* First in, first out: what the sink has read, what is on its channel, in *)
(* the buffer, in fsm()'s hand and on the source's channel are the values  *)
(* that were sent, in order, none lost and none twice.                     *)
THEOREM FirstInFirstOut == FifoSpec => []NothingLost
BY FifoInvariance, ValuesInOrder, PTL
=============================================================================
