--------------------------- MODULE Wishbone_proofs ---------------------------
(***************************************************************************)
(* The bus implements Bus, for every number of slaves and all requests and *)
(* replies, in whatever order the processes poll their wires.              *)
(***************************************************************************)
EXTENDS Wishbone, BlockingChannel_proofs

M == pc[masterAgent]
I == pc[interconnect]
S(s) == pc[slaveAgent(s)]
asked == agent_to_bus_req

FromMaster == wires[masterAgentToBus]
ToMaster == wires[busToMasterAgent]
ToSlave(s) == wires[toSlaveAgent(s)]
FromSlave(s) == wires[fromSlaveAgent(s)]

(* The types that the signals and the history need.                        *)
MasterShape(m) == DOMAIN m = DOMAIN NoMaster
SlaveShape(t) == DOMAIN t = DOMAIN NoSlave
WireShape(w) == /\ w = [shared_data |-> w.shared_data, available_data |-> w.available_data]
                /\ w.available_data \in BOOLEAN
WiresShape(w) == DOMAIN w = Shared /\ \A c \in Shared : WireShape(w[c])
Shapes == /\ WiresShape(wires)
          /\ MasterShape(FromMaster.shared_data) /\ SlaveShape(ToMaster.shared_data)
          /\ \A s \in Slave : /\ MasterShape(ToSlave(s).shared_data)
                              /\ SlaveShape(FromSlave(s).shared_data)
                              /\ MasterShape(wb_in[slaveAgent(s)])
          /\ SlaveShape(wb_in[masterAgent])
          /\ MasterShape(from_master) /\ SlaveShape(to_master)
          /\ DOMAIN pc = Proc /\ DOMAIN wb_in = Proc
          /\ slave_number \in Slave
          /\ agent_to_bus_resp \in Reply

(* Where an agent is says which call it may be inside.                     *)
CallPlaces == /\ rd[masterReq] # "idle" => M = "send"
              /\ wr[masterResp] # "idle" => M = "start"
              /\ \A s \in Slave : /\ wr[slaveReq(s)] # "idle" => S(s) = "answer"
                                  /\ rd[slaveResp(s)] # "idle" => S(s) = "served"

(* What is on the blocking channels.                                       *)
Contents == /\ \A c \in Chan : available_data[c] => wr[c] = "write"
            /\ available_data[masterReq] => shared_data[masterReq] \in Request
            /\ M # "start" /\ rd[masterReq] = "idle" => asked \in Request
            /\ \A s \in Slave : /\ shared_data[slaveResp(s)] \in Reply
                                /\ out[slaveResp(s)] \in Reply

(* The answer of slave s to the master's request, as signals and as served. *)
AnswerSignals(r) == [data |-> IF asked.trans_type = "SINGLE_WRITE" THEN 0 ELSE r.data,
                     ack |-> TRUE, err |-> r.ack # "OK"]
ServedBy(s, r) == << [slave |-> s, request |-> B!Local(s, asked), reply |-> r] >>

(* What the master's agent finds when it polls next. *)
Heard == Received(busToMasterAgent, wb_in[masterAgent])
Unanswered == ~ Heard.ack

(* Between the master's agent and the interconnect: no request, one that   *)
(* was not seen yet, one that a slave has, the slave's answer, nobody's    *)
(* answer, an answer that was withdrawn, the end of the request, and its   *)
(* end seen by the interconnect.                                           *)
NoRequest == /\ M \in {"start", "send"} /\ I \in {"start", "idle"}
             /\ ~ FromMaster.available_data /\ ~ Driven(from_master)
             /\ Unanswered /\ served = << >>
NotSeen == /\ M = "waiting" /\ I \in {"start", "idle"}
           /\ FromMaster = [shared_data |-> Drive(asked), available_data |-> TRUE]
           /\ Unanswered /\ served = << >>
Passed == /\ M = "waiting" /\ I = "transmitting"
          /\ ~ FromMaster.available_data /\ from_master = NoMaster
          /\ Unanswered /\ slave_number \in B!Addressed(asked)
Answered == /\ M = "waiting" /\ I = "done"
            /\ ~ FromMaster.available_data /\ from_master = NoMaster
            /\ slave_number \in B!Addressed(asked)
            /\ served = ServedBy(slave_number, served[1].reply) /\ served[1].reply \in Reply
            /\ to_master = AnswerSignals(served[1].reply)
            /\ Heard = to_master
Nobodys == /\ M = "waiting" /\ I = "done"
           /\ ~ FromMaster.available_data /\ from_master = Drive(asked)
           /\ B!Addressed(asked) = {} /\ served = << >>
           /\ to_master = NobodysAnswer
           /\ Heard = to_master
Withdrawn == /\ M = "waiting" /\ I = "idle"
             /\ ~ FromMaster.available_data /\ from_master = NoMaster
             /\ Unanswered /\ served = << served[1] >>
Over == /\ M = "done" /\ I = "done"
        /\ FromMaster = [shared_data |-> NoMaster, available_data |-> TRUE]
        /\ ~ Unanswered /\ served = << >>
OverSeen == /\ M = "done" /\ I = "idle"
            /\ ~ FromMaster.available_data /\ from_master = NoMaster
            /\ Unanswered /\ served = << >>
MasterSide == \/ NoRequest \/ NotSeen \/ Passed \/ Answered \/ Nobodys \/ Withdrawn
              \/ Over \/ OverSeen

(* Between the interconnect and slave s: nothing, the master's request, and *)
(* its end that the slave's agent has not seen yet.                        *)
NoAck(s) == FromSlave(s).available_data => ~ FromSlave(s).shared_data.ack
AtRest(s) == /\ S(s) \in {"start", "idle"}
             /\ ~ ToSlave(s).available_data /\ ~ Driven(wb_in[slaveAgent(s)])
             /\ NoAck(s)
             /\ I = "transmitting" => s # slave_number
Selected(s) == s = slave_number /\ I = "transmitting"
Signalled(s) == /\ Selected(s) /\ S(s) \in {"start", "idle"}
                /\ ToSlave(s) = [shared_data |-> LocalAddr(Drive(asked), s), available_data |-> TRUE]
                /\ NoAck(s) /\ served = << >>
Requested(s) == /\ Selected(s) /\ S(s) \in {"answer", "served"}
                /\ ~ ToSlave(s).available_data
                /\ wb_in[slaveAgent(s)] = LocalAddr(Drive(asked), s)
                /\ (IF available_data[slaveReq(s)] THEN shared_data[slaveReq(s)]
                    ELSE out[slaveReq(s)]) = B!Local(s, asked)
                /\ NoAck(s) /\ served = << >>
Replied(s) == /\ Selected(s) /\ S(s) = "done"
              /\ ~ ToSlave(s).available_data
              /\ wb_in[slaveAgent(s)] = LocalAddr(Drive(asked), s)
              /\ served = ServedBy(s, out[slaveResp(s)])
              /\ NoAck(s) \/ FromSlave(s).shared_data = AnswerSignals(out[slaveResp(s)])
Left(s) == /\ s = slave_number /\ I \in {"idle", "done"} /\ S(s) = "done"
           /\ ToSlave(s) = [shared_data |-> NoMaster, available_data |-> TRUE]
SlaveSide(s) == \/ AtRest(s) \/ Signalled(s) \/ Requested(s) \/ Replied(s) \/ Left(s)

(* An acknowledgement is in the interconnect's hands only while it is done. *)
NoStaleAck == I # "done" => ~ to_master.ack

(* A slave's agent that is done polls, and it polls before the interconnect *)
(* looks for the next request.                                             *)
Polls(p) == p \in runnable \cup {current}
Timely(s) == S(s) = "done" =>
               /\ Polls(slaveAgent(s)) \/ slaveAgent(s) \in delta
               /\ ToSlave(s).available_data /\ I \in {"idle", "done"} =>
                    /\ Polls(slaveAgent(s)) \/ (I = "done" /\ interconnect \in delta)
                    /\ I = "idle" => interconnect \in delta

BusInv == /\ Shapes /\ CallPlaces /\ Contents
          /\ MasterSide /\ NoStaleAck
          /\ \A s \in Slave : SlaveSide(s) /\ Timely(s)

(* The inductive invariant. *)
WInv == IInv /\ BusInv


(* What no constructor sets must not look like a request or an answer.      *)
HarmlessLeftOvers == /\ \A m \in FirstMaster : MasterShape(m) /\ ~ Driven(m)
                     /\ \A t \in FirstSlave : SlaveShape(t) /\ ~ t.ack

-----------------------------------------------------------------------------
(* The processes, the channels and the wires are all different.             *)
LEMMA Processes ==
  /\ {masterDummy, masterAgent, interconnect} \subseteq Proc
  /\ masterDummy # masterAgent /\ masterDummy # interconnect /\ masterAgent # interconnect
  /\ \A s \in Slave :
       /\ slaveAgent(s) \in Proc /\ slaveDummy(s) \in Proc
       /\ slaveAgent(s) \notin {masterDummy, masterAgent, interconnect}
       /\ slaveDummy(s) \notin {masterDummy, masterAgent, interconnect}
       /\ \A t \in Slave : /\ slaveAgent(s) # slaveDummy(t)
                           /\ s # t => /\ slaveAgent(s) # slaveAgent(t)
                                       /\ slaveDummy(s) # slaveDummy(t)
BY WishboneAssumption DEF Process, masterDummy, masterAgent, interconnect, slaveAgent, slaveDummy

LEMMA Channels ==
  /\ masterReq \in Chan /\ masterResp \in Chan /\ masterReq # masterResp
  /\ \A s \in Slave :
       /\ slaveReq(s) \in Chan /\ slaveResp(s) \in Chan
       /\ slaveReq(s) \notin {masterReq, masterResp}
       /\ slaveResp(s) \notin {masterReq, masterResp}
       /\ \A t \in Slave : /\ slaveReq(s) # slaveResp(t)
                           /\ s # t => /\ slaveReq(s) # slaveReq(t)
                                       /\ slaveResp(s) # slaveResp(t)
BY WishboneAssumption DEF BlockingChan, masterReq, masterResp, slaveReq, slaveResp

LEMMA Wires ==
  /\ masterAgentToBus \in Shared /\ busToMasterAgent \in Shared
  /\ masterAgentToBus # busToMasterAgent
  /\ \A s \in Slave :
       /\ toSlaveAgent(s) \in Shared /\ fromSlaveAgent(s) \in Shared
       /\ toSlaveAgent(s) \notin {masterAgentToBus, busToMasterAgent}
       /\ fromSlaveAgent(s) \notin {masterAgentToBus, busToMasterAgent}
       /\ \A t \in Slave : /\ toSlaveAgent(s) # fromSlaveAgent(t)
                           /\ s # t => /\ toSlaveAgent(s) # toSlaveAgent(t)
                                       /\ fromSlaveAgent(s) # fromSlaveAgent(t)
BY WishboneAssumption
DEF SharedChan, masterAgentToBus, busToMasterAgent, toSlaveAgent, fromSlaveAgent

(* There are no other channels. *)
LEMMA AllChannels ==
  ASSUME NEW c \in Chan
  PROVE  c \in {masterReq, masterResp} \/ \E s \in Slave : c = slaveReq(s) \/ c = slaveResp(s)
BY WishboneAssumption DEF BlockingChan

(* Who is bound to which port. *)
LEMMA Ends ==
  /\ Reader[masterReq] = masterAgent /\ Writer[masterReq] = masterDummy
  /\ Reader[masterResp] = masterDummy /\ Writer[masterResp] = masterAgent
  /\ \A s \in Slave :
       /\ Reader[slaveReq(s)] = slaveDummy(s) /\ Writer[slaveReq(s)] = slaveAgent(s)
       /\ Reader[slaveResp(s)] = slaveAgent(s) /\ Writer[slaveResp(s)] = slaveDummy(s)
<1>1. /\ masterReq \in BlockingChan /\ masterResp \in BlockingChan
      /\ \A s \in Slave : slaveReq(s) \in BlockingChan /\ slaveResp(s) \in BlockingChan
  BY DEF BlockingChan
<1>2. \A s \in Slave : slaveReq(s)[2] = s /\ slaveResp(s)[2] = s
  BY DEF slaveReq, slaveResp
<1>3. /\ masterReq # masterResp
      /\ \A c : masterReq # slaveReq(c) /\ masterReq # slaveResp(c)
      /\ \A c : masterResp # slaveReq(c) /\ masterResp # slaveResp(c)
      /\ \A c, d : slaveReq(c) # slaveResp(d)
  BY DEF masterReq, masterResp, slaveReq, slaveResp
<1>4. /\ BusReader[masterReq] = masterAgent /\ BusWriter[masterReq] = masterDummy
      /\ BusReader[masterResp] = masterDummy /\ BusWriter[masterResp] = masterAgent
  BY <1>1, <1>3 DEF BusReader, BusWriter
<1>5. ASSUME NEW s \in Slave
      PROVE  /\ BusReader[slaveReq(s)] = slaveDummy(s) /\ BusWriter[slaveReq(s)] = slaveAgent(s)
             /\ BusReader[slaveResp(s)] = slaveAgent(s) /\ BusWriter[slaveResp(s)] = slaveDummy(s)
  BY <1>1, <1>2, <1>3 DEF BusReader, BusWriter
<1> QED
  BY <1>4, <1>5, WishboneAssumption

(* get() empties one wire, set() fills one. *)
LEMMA GetWire ==
  ASSUME NEW w, WiresShape(w), NEW c \in Shared
  PROVE  /\ WiresShape(get(w, c))
         /\ get(w, c)[c] = [shared_data |-> w[c].shared_data, available_data |-> FALSE]
         /\ \A d \in Shared \ {c} : get(w, c)[d] = w[d]
<1>1. DOMAIN w = Shared /\ \A d \in Shared : WireShape(w[d])
  BY DEF WiresShape
<1>2. DOMAIN get(w, c) = Shared /\ \A d \in Shared \ {c} : get(w, c)[d] = w[d]
  BY <1>1 DEF get
<1>3. get(w, c)[c] = [w[c] EXCEPT !.available_data = FALSE]
  BY <1>1 DEF get
<1>4. get(w, c)[c] = [shared_data |-> w[c].shared_data, available_data |-> FALSE]
  BY <1>1, <1>3 DEF WireShape
<1>5. WireShape(get(w, c)[c])
  BY <1>4 DEF WireShape
<1> QED
  BY <1>1, <1>2, <1>4, <1>5 DEF WiresShape

LEMMA SetWire ==
  ASSUME NEW w, WiresShape(w), NEW c \in Shared, NEW val
  PROVE  /\ WiresShape(set(w, c, val))
         /\ set(w, c, val)[c] = [shared_data |-> val, available_data |-> TRUE]
         /\ \A d \in Shared \ {c} : set(w, c, val)[d] = w[d]
<1>1. DOMAIN w = Shared /\ \A d \in Shared : WireShape(w[d])
  BY DEF WiresShape
<1>2. /\ DOMAIN set(w, c, val) = Shared /\ \A d \in Shared \ {c} : set(w, c, val)[d] = w[d]
      /\ set(w, c, val)[c] = [shared_data |-> val, available_data |-> TRUE]
  BY <1>1 DEF set
<1>3. WireShape(set(w, c, val)[c])
  BY <1>2 DEF WireShape
<1> QED
  BY <1>1, <1>2, <1>3 DEF WiresShape

-----------------------------------------------------------------------------
(* What the calls do to one channel and to the scheduler.  Nobody else is   *)
(* put out of turn.                                                         *)
Monotone == /\ runnable \subseteq runnable' /\ delta \subseteq delta'
            /\ current' \in {current, NoProc}

OnlyChannel(c) == \A d \in Chan \ {c} :
                    /\ available_data'[d] = available_data[d] /\ shared_data'[d] = shared_data[d]
                    /\ rd'[d] = rd[d] /\ wr'[d] = wr[d] /\ out'[d] = out[d]

LEMMA ReadStep ==
  ASSUME IInv, NEW c \in Chan, Read(c)
  PROVE  /\ [Next]_vars
         /\ Monotone /\ OnlyChannel(c)
         /\ current = Reader[c]
         /\ wr'[c] = wr[c] /\ shared_data'[c] = shared_data[c]
         /\ \/ /\ available_data[c] /\ ~ available_data'[c] /\ out'[c] = shared_data[c]
               /\ rd'[c] = rd[c]
            \/ /\ ~ available_data'[c] /\ ~ available_data[c] /\ out'[c] = out[c]
               /\ rd'[c] = "read"
<1>1. TypeOK
  BY DEF IInv
<1>2. [Next]_vars
  BY DEF Read, Next, ReaderStep
<1>3. CASE ReadNow(c)
  BY <1>1, <1>2, <1>3 DEF ReadNow, Take, Notify, Calls, TypeOK, Monotone, OnlyChannel
<1>4. CASE ReadWait(c)
  BY <1>1, <1>2, <1>4 DEF ReadWait, Block, Calls, TypeOK, Monotone, OnlyChannel
<1> QED
  BY <1>3, <1>4 DEF Read

LEMMA WriteStep ==
  ASSUME IInv, NEW c \in Chan, NEW v \in Data, Write(c, v)
  PROVE  /\ [Next]_vars
         /\ Monotone /\ OnlyChannel(c)
         /\ current = Writer[c]
         /\ rd'[c] = rd[c] /\ out'[c] = out[c]
         /\ available_data'[c] /\ shared_data'[c] = v /\ wr'[c] = "write"
<1>1. TypeOK
  BY DEF IInv
<1>2. [Next]_vars
  BY DEF Next, WriterStep
<1> QED
  BY <1>1, <1>2 DEF Write, Offer, Block, Calls, TypeOK, Monotone, OnlyChannel

LEMMA PauseStep ==
  ASSUME IInv, NEW p \in Proc, NEW l, At(p, l), insert_state(p)
  PROVE  /\ [Next]_vars
         /\ Monotone /\ current = p /\ p \in delta'
         /\ UNCHANGED channel
<1>1. Pause(p)
  BY WishboneAssumption DEF At, insert_state, Pause, Calls
<1>2. [Next]_vars
  BY <1>1 DEF Next
<1> QED
  BY <1>2 DEF At, insert_state, ZeroWait, Monotone

(* A suspended call returns. *)
LEMMA ResumeStep ==
  ASSUME IInv, Resume
  PROVE  /\ [Next]_vars
         /\ \E c \in Chan :
              /\ Monotone /\ OnlyChannel(c)
              /\ shared_data'[c] = shared_data[c]
              /\ \/ /\ current = Reader[c] /\ rd[c] = "read" /\ rd'[c] = "idle"
                    /\ available_data[c] /\ ~ available_data'[c]
                    /\ out'[c] = shared_data[c] /\ wr'[c] = wr[c]
                 \/ /\ current = Writer[c] /\ wr[c] = "write" /\ wr'[c] = "idle"
                    /\ ~ available_data[c] /\ ~ available_data'[c]
                    /\ out'[c] = out[c] /\ rd'[c] = rd[c]
<1>1. TypeOK
  BY DEF IInv
<1>2. PICK c \in Chan : ReadResume(c) \/ WriteResume(c)
  BY DEF Resume
<1>3. [Next]_vars
  BY <1>2 DEF Next, ReaderStep, WriterStep
<1>4. CASE ReadResume(c)
  BY <1>1, <1>3, <1>4 DEF ReadResume, Take, Notify, TypeOK, Monotone, OnlyChannel
<1>5. CASE WriteResume(c)
  BY <1>1, <1>3, <1>5 DEF WriteResume, kernel, TypeOK, Monotone, OnlyChannel
<1> QED
  BY <1>2, <1>4, <1>5

(* A process that is not in a call. *)
LEMMA OwnCode ==
  ASSUME NEW p, NEW l, At(p, l)
  PROVE  /\ current = p /\ pc[p] = l
         /\ \A c \in Chan : /\ Reader[c] = p => rd[c] = "idle"
                            /\ Writer[c] = p => wr[c] = "idle"
BY DEF At, InCall

-----------------------------------------------------------------------------
(* What each part of the invariant depends on.                              *)
LEMMA MasterSideFrame ==
  ASSUME MasterSide, M = "waiting" => asked' = asked,
         UNCHANGED << M, I, FromMaster, Heard, from_master, to_master, slave_number >>,
         I # "transmitting" => served' = served
  PROVE  MasterSide'
BY DEF MasterSide, NoRequest, NotSeen, Passed, Answered, Nobodys, Withdrawn, Over, OverSeen,
       Unanswered, ServedBy, AnswerSignals

Pending(s) == IF available_data[slaveReq(s)] THEN shared_data[slaveReq(s)] ELSE out[slaveReq(s)]

LEMMA SlaveSideFrame ==
  ASSUME NEW s \in Slave, SlaveSide(s),
         UNCHANGED << S(s), I, ToSlave(s), FromSlave(s), wb_in[slaveAgent(s)],
                      slave_number >>,
         I = "transmitting" => asked' = asked /\ served' = served,
         S(s) \in {"answer", "served"} => Pending(s)' = Pending(s),
         S(s) = "done" => out'[slaveResp(s)] = out[slaveResp(s)]
  PROVE  SlaveSide(s)'
BY DEF SlaveSide, AtRest, Signalled, Requested, Replied, Left, Selected, NoAck,
       Pending, ServedBy, AnswerSignals

LEMMA TimelyFrame ==
  ASSUME NEW s \in Slave, Monotone, Timely(s), S(s) = "done" => current # slaveAgent(s),
         S(s)' = S(s), I' = I, ToSlave(s)'.available_data => ToSlave(s).available_data
  PROVE  Timely(s)'
BY DEF Timely, Polls, Monotone

(* The interconnect passes on only what the master's agent waits for. *)
LEMMA PassedWaits == MasterSide /\ I = "transmitting" => Passed
BY DEF MasterSide, NoRequest, NotSeen, Passed, Answered, Nobodys, Withdrawn, Over, OverSeen

(* A step that leaves the wires and the agents' places alone. *)
LEMMA ChannelOnly ==
  ASSUME WInv, Monotone, UNCHANGED << signals, served, M, I >>, DOMAIN pc' = Proc,
         \A s \in Slave : S(s)' = S(s),
         CallPlaces', Contents',
         M = "waiting" => asked' = asked,
         \A s \in Slave :
           /\ S(s) \in {"answer", "served"} => Pending(s)' = Pending(s)
           /\ S(s) = "done" => /\ out'[slaveResp(s)] = out[slaveResp(s)]
                               /\ current # slaveAgent(s)
  PROVE  BusInv'
<1>1. UNCHANGED << wires, wb_in, from_master, to_master, slave_number, agent_to_bus_resp >>
  BY DEF signals
<1>2. Shapes'
  BY <1>1 DEF WInv, BusInv, Shapes, FromMaster, ToMaster, ToSlave, FromSlave
<1>3. MasterSide'
  BY <1>1, MasterSideFrame DEF WInv, BusInv, FromMaster, Heard, Received
<1>4. NoStaleAck'
  BY <1>1 DEF WInv, BusInv, NoStaleAck
<1>5. ASSUME NEW s \in Slave PROVE SlaveSide(s)' /\ Timely(s)'
  <2>1. I = "transmitting" => asked' = asked
    BY PassedWaits DEF WInv, BusInv, Passed
  <2>2. ToSlave(s)' = ToSlave(s) /\ FromSlave(s)' = FromSlave(s)
    BY <1>1 DEF ToSlave, FromSlave
  <2>3. SlaveSide(s) /\ Timely(s)
    BY DEF WInv, BusInv
  <2>4. SlaveSide(s)'
    BY <1>1, <2>1, <2>2, <2>3, SlaveSideFrame
  <2>5. Timely(s)'
    BY <2>2, <2>3, TimelyFrame
  <2> QED
    BY <2>4, <2>5
<1> QED
  BY <1>2, <1>3, <1>4, <1>5 DEF BusInv

-----------------------------------------------------------------------------
(* The environment. *)
LEMMA MasterDummySteps ==
  ASSUME WInv, MasterDummyWrite \/ MasterDummyRead
  PROVE  [Next]_vars /\ BusInv'
<1> USE Processes, Channels, Ends
<1>1. IInv /\ BusInv /\ Shapes /\ CallPlaces /\ Contents
  BY DEF WInv, BusInv
<1>2. PICK l : pc' = [pc EXCEPT ![masterDummy] = l]
  BY DEF MasterDummyWrite, MasterDummyRead, Goto
<1>3. /\ M' = M /\ I' = I /\ \A s \in Slave : S(s)' = S(s)
      /\ DOMAIN pc' = Proc
  BY <1>1, <1>2 DEF M, I, S, Shapes
<1>4. UNCHANGED << signals, served >>
  BY DEF MasterDummyWrite, MasterDummyRead, history
<1>5. CASE MasterDummyWrite
  <2>1. PICK v \in Request : Write(masterReq, v)
    BY <1>5 DEF MasterDummyWrite
  <2>2. v \in Data
    BY WishboneAssumption
  <2>3. /\ [Next]_vars /\ Monotone /\ OnlyChannel(masterReq)
        /\ current = masterDummy
        /\ rd'[masterReq] = rd[masterReq] /\ out'[masterReq] = out[masterReq]
        /\ available_data'[masterReq] /\ shared_data'[masterReq] = v
        /\ wr'[masterReq] = "write"
    BY <1>1, <2>1, <2>2, WriteStep
  <2>4. CallPlaces'
    BY <1>1, <1>3, <2>3 DEF CallPlaces, OnlyChannel
  <2>5. asked' = asked
    BY <2>3 DEF asked, agent_to_bus_req
  <2>6. Contents'
    BY <1>1, <1>3, <2>3, <2>5 DEF Contents, OnlyChannel
  <2>7. \A s \in Slave : /\ Pending(s)' = Pending(s)
                         /\ out'[slaveResp(s)] = out[slaveResp(s)]
    BY <2>3 DEF Pending, OnlyChannel
  <2> QED
    BY <1>3, <1>4, <2>3, <2>4, <2>5, <2>6, <2>7, ChannelOnly
<1>6. CASE MasterDummyRead
  <2>1. Read(masterResp)
    BY <1>6 DEF MasterDummyRead
  <2>2. /\ [Next]_vars /\ Monotone /\ OnlyChannel(masterResp)
        /\ current = masterDummy
        /\ wr'[masterResp] = wr[masterResp] /\ ~ available_data'[masterResp]
    BY <1>1, <2>1, ReadStep
  <2>3. CallPlaces'
    BY <1>1, <1>3, <2>2 DEF CallPlaces, OnlyChannel
  <2>4. asked' = asked
    BY <2>2 DEF asked, agent_to_bus_req, OnlyChannel
  <2>5. Contents'
    BY <1>1, <1>3, <2>2, <2>4 DEF Contents, OnlyChannel
  <2>6. \A s \in Slave : /\ Pending(s)' = Pending(s)
                         /\ out'[slaveResp(s)] = out[slaveResp(s)]
    BY <2>2 DEF Pending, OnlyChannel
  <2> QED
    BY <1>3, <1>4, <2>2, <2>3, <2>4, <2>5, <2>6, ChannelOnly
<1> QED
  BY <1>5, <1>6

LEMMA SlaveDummySteps ==
  ASSUME WInv, NEW n \in Slave, SlaveDummyRead(n) \/ SlaveDummyWrite(n)
  PROVE  [Next]_vars /\ BusInv'
<1> USE Processes, Channels, Ends
<1>1. IInv /\ BusInv /\ Shapes /\ CallPlaces /\ Contents
  BY DEF WInv, BusInv
<1>2. PICK l : pc' = [pc EXCEPT ![slaveDummy(n)] = l]
  BY DEF SlaveDummyRead, SlaveDummyWrite, Goto
<1>3. /\ M' = M /\ I' = I /\ \A s \in Slave : S(s)' = S(s)
      /\ DOMAIN pc' = Proc
  BY <1>1, <1>2 DEF M, I, S, Shapes
<1>4. UNCHANGED << signals, served >>
  BY DEF SlaveDummyRead, SlaveDummyWrite, history
<1>5. CASE SlaveDummyRead(n)
  <2>1. Read(slaveReq(n))
    BY <1>5 DEF SlaveDummyRead
  <2>2. /\ [Next]_vars /\ Monotone /\ OnlyChannel(slaveReq(n))
        /\ current = slaveDummy(n)
        /\ wr'[slaveReq(n)] = wr[slaveReq(n)]
        /\ ~ available_data'[slaveReq(n)]
        /\ out'[slaveReq(n)] = IF available_data[slaveReq(n)] THEN shared_data[slaveReq(n)]
                               ELSE out[slaveReq(n)]
    BY <1>1, <2>1, ReadStep
  <2>3. CallPlaces'
    BY <1>1, <1>3, <2>2 DEF CallPlaces, OnlyChannel
  <2>4. asked' = asked
    BY <2>2 DEF asked, agent_to_bus_req, OnlyChannel
  <2>5. Contents'
    BY <1>1, <1>3, <2>2, <2>4 DEF Contents, OnlyChannel
  <2>6. \A s \in Slave : /\ Pending(s)' = Pending(s)
                         /\ out'[slaveResp(s)] = out[slaveResp(s)]
    BY <2>2 DEF Pending, OnlyChannel
  <2> QED
    BY <1>3, <1>4, <2>2, <2>3, <2>4, <2>5, <2>6, ChannelOnly
<1>6. CASE SlaveDummyWrite(n)
  <2>1. PICK v \in Reply : Write(slaveResp(n), v)
    BY <1>6 DEF SlaveDummyWrite
  <2>2. v \in Data
    BY WishboneAssumption
  <2>3. /\ [Next]_vars /\ Monotone /\ OnlyChannel(slaveResp(n))
        /\ current = slaveDummy(n)
        /\ rd'[slaveResp(n)] = rd[slaveResp(n)] /\ out'[slaveResp(n)] = out[slaveResp(n)]
        /\ available_data'[slaveResp(n)] /\ shared_data'[slaveResp(n)] = v
        /\ wr'[slaveResp(n)] = "write"
    BY <1>1, <2>1, <2>2, WriteStep
  <2>4. CallPlaces'
    BY <1>1, <1>3, <2>3 DEF CallPlaces, OnlyChannel
  <2>5. asked' = asked
    BY <2>3 DEF asked, agent_to_bus_req, OnlyChannel
  <2>6. Contents'
    BY <1>1, <1>3, <2>3, <2>5 DEF Contents, OnlyChannel
  <2>7. \A s \in Slave : /\ Pending(s)' = Pending(s)
                         /\ out'[slaveResp(s)] = out[slaveResp(s)]
    BY <2>3 DEF Pending, OnlyChannel
  <2> QED
    BY <1>3, <1>4, <2>3, <2>4, <2>5, <2>6, <2>7, ChannelOnly
<1> QED
  BY <1>5, <1>6

(* A suspended call returns: nothing is in a wrong place then.              *)
LEMMA ResumeSteps ==
  ASSUME WInv, Resume
  PROVE  [Next]_vars /\ BusInv'
<1> USE Processes, Channels, Ends
<1>1. IInv /\ BusInv /\ Shapes /\ CallPlaces /\ Contents /\ TypeOK
  BY DEF WInv, BusInv, IInv
<1>2. /\ UNCHANGED << pc, signals, served, M, I >> /\ DOMAIN pc' = Proc
      /\ \A s \in Slave : S(s)' = S(s)
  BY <1>1 DEF Resume, history, M, I, S, Shapes
<1>3. PICK c \in Chan :
        /\ Monotone /\ OnlyChannel(c)
        /\ shared_data'[c] = shared_data[c]
        /\ \/ /\ current = Reader[c] /\ rd[c] = "read" /\ rd'[c] = "idle"
              /\ available_data[c] /\ ~ available_data'[c]
              /\ out'[c] = shared_data[c] /\ wr'[c] = wr[c]
           \/ /\ current = Writer[c] /\ wr[c] = "write" /\ wr'[c] = "idle"
              /\ ~ available_data[c] /\ ~ available_data'[c]
              /\ out'[c] = out[c] /\ rd'[c] = rd[c]
  BY <1>1, ResumeStep
<1>4. CallPlaces'
  BY <1>1, <1>2, <1>3 DEF CallPlaces, OnlyChannel
<1>5. M = "waiting" => asked' = asked
  BY <1>1, <1>3 DEF CallPlaces, OnlyChannel, asked, agent_to_bus_req
<1>6. Contents'
  <2>1. ASSUME NEW d \in Chan, available_data'[d] PROVE wr'[d] = "write"
    BY <1>1, <1>3, <2>1 DEF Contents, OnlyChannel
  <2>2. available_data'[masterReq] => shared_data'[masterReq] \in Request
    BY <1>1, <1>3 DEF Contents, OnlyChannel
  <2>3. M' # "start" /\ rd'[masterReq] = "idle" => asked' \in Request
    BY <1>1, <1>2, <1>3 DEF Contents, OnlyChannel, asked, agent_to_bus_req
  <2>4. \A s \in Slave : /\ shared_data'[slaveResp(s)] \in Reply
                         /\ out'[slaveResp(s)] \in Reply
    BY <1>1, <1>3 DEF Contents, OnlyChannel
  <2> QED
    BY <2>1, <2>2, <2>3, <2>4 DEF Contents
<1>7. ASSUME NEW s \in Slave
      PROVE  /\ S(s) \in {"answer", "served"} => Pending(s)' = Pending(s)
             /\ S(s) = "done" => /\ out'[slaveResp(s)] = out[slaveResp(s)]
                                 /\ current # slaveAgent(s)
  <2>1. Pending(s)' = Pending(s)
    BY <1>3 DEF Pending, OnlyChannel
  <2>2. S(s) = "done" => rd[slaveResp(s)] = "idle" /\ wr[slaveReq(s)] = "idle"
    BY <1>1 DEF CallPlaces
  <2>3. S(s) = "done" => out'[slaveResp(s)] = out[slaveResp(s)]
    BY <1>3, <2>2 DEF OnlyChannel
  <2>4. \A d \in Chan : /\ Reader[d] = slaveAgent(s) => d = slaveResp(s)
                        /\ Writer[d] = slaveAgent(s) => d = slaveReq(s)
    BY AllChannels
  <2>5. S(s) = "done" => current # slaveAgent(s)
    BY <1>3, <2>2, <2>4
  <2> QED
    BY <2>1, <2>3, <2>5
<1> QED
  BY <1>1, <1>2, <1>3, <1>4, <1>5, <1>6, <1>7, ChannelOnly, ResumeStep

-----------------------------------------------------------------------------
(* The calls of the agents to those that use the bus. *)

(* From IDLE the master's agent goes on with a request. *)
LEMMA MasterIdleStep ==
  ASSUME WInv, MasterIdle
  PROVE  [Next]_vars /\ BusInv'
<1> USE Processes, Channels, Ends
<1>1. IInv /\ BusInv /\ Shapes /\ CallPlaces /\ Contents
  BY DEF WInv, BusInv
<1>2. /\ At(masterAgent, "start") /\ Read(masterReq)
      /\ pc' = [pc EXCEPT ![masterAgent] = "send"]
      /\ UNCHANGED << signals, served >>
  BY DEF MasterIdle, Goto, history
<1>3. /\ M = "start" /\ M' = "send" /\ I' = I /\ \A s \in Slave : S(s)' = S(s)
      /\ DOMAIN pc' = Proc
      /\ rd[masterReq] = "idle" /\ wr[masterResp] = "idle"
  BY <1>1, <1>2, OwnCode DEF M, I, S, Shapes
<1>4. /\ [Next]_vars /\ Monotone /\ OnlyChannel(masterReq)
      /\ current = masterAgent
      /\ wr'[masterReq] = wr[masterReq] /\ shared_data'[masterReq] = shared_data[masterReq]
      /\ \/ /\ available_data[masterReq] /\ ~ available_data'[masterReq]
            /\ out'[masterReq] = shared_data[masterReq]
         \/ ~ available_data'[masterReq] /\ rd'[masterReq] = "read"
  BY <1>1, <1>2, ReadStep
<1>5. CallPlaces'
  BY <1>1, <1>3, <1>4 DEF CallPlaces, OnlyChannel
<1>6. Contents'
  BY <1>1, <1>3, <1>4 DEF Contents, OnlyChannel, asked, agent_to_bus_req
<1>7. UNCHANGED << wires, wb_in, from_master, to_master, slave_number, agent_to_bus_resp >>
  BY <1>2 DEF signals
<1>8. Shapes'
  BY <1>1, <1>3, <1>7 DEF Shapes, FromMaster, ToMaster, ToSlave, FromSlave
<1>9. MasterSide'
  <2>1. NoRequest
    BY <1>1, <1>3 DEF BusInv, MasterSide, NoRequest, NotSeen, Passed, Answered, Nobodys,
                      Withdrawn, Over, OverSeen
  <2>2. NoRequest'
    BY <1>2, <1>3, <1>7, <2>1 DEF NoRequest, FromMaster, Unanswered, Heard, Received
  <2> QED
    BY <2>2 DEF MasterSide
<1>10. NoStaleAck'
  BY <1>1, <1>3, <1>7 DEF BusInv, NoStaleAck
<1>11. ASSUME NEW s \in Slave PROVE SlaveSide(s)' /\ Timely(s)'
  <2>1. I # "transmitting"
    BY <1>1, <1>3, PassedWaits DEF BusInv, Passed
  <2>2. /\ ToSlave(s)' = ToSlave(s) /\ FromSlave(s)' = FromSlave(s)
        /\ Pending(s)' = Pending(s) /\ out'[slaveResp(s)] = out[slaveResp(s)]
    BY <1>4, <1>7 DEF ToSlave, FromSlave, Pending, OnlyChannel
  <2>3. SlaveSide(s) /\ Timely(s)
    BY <1>1 DEF BusInv
  <2>4. SlaveSide(s)'
    BY <1>2, <1>3, <1>7, <2>1, <2>2, <2>3, SlaveSideFrame
  <2>5. Timely(s)'
    BY <1>3, <1>4, <2>2, <2>3, TimelyFrame
  <2> QED
    BY <2>4, <2>5
<1> QED
  BY <1>4, <1>5, <1>6, <1>8, <1>9, <1>10, <1>11 DEF BusInv

(* A slave's agent waits for the answer. *)
LEMMA SlaveAnswerStep ==
  ASSUME WInv, NEW n \in Slave, SlaveAnswer(n)
  PROVE  [Next]_vars /\ BusInv'
<1> USE Processes, Channels, Ends
<1>1. IInv /\ BusInv /\ Shapes /\ CallPlaces /\ Contents
  BY DEF WInv, BusInv
<1>2. /\ At(slaveAgent(n), "answer") /\ Read(slaveResp(n))
      /\ pc' = [pc EXCEPT ![slaveAgent(n)] = "served"]
      /\ UNCHANGED << signals, served >>
  BY DEF SlaveAnswer, Goto, history
<1>3. /\ S(n) = "answer" /\ S(n)' = "served" /\ M' = M /\ I' = I
      /\ \A s \in Slave \ {n} : S(s)' = S(s)
      /\ DOMAIN pc' = Proc
      /\ wr[slaveReq(n)] = "idle" /\ rd[slaveResp(n)] = "idle"
  BY <1>1, <1>2, OwnCode DEF M, I, S, Shapes
<1>4. /\ [Next]_vars /\ Monotone /\ OnlyChannel(slaveResp(n))
      /\ current = slaveAgent(n)
      /\ wr'[slaveResp(n)] = wr[slaveResp(n)]
      /\ shared_data'[slaveResp(n)] = shared_data[slaveResp(n)]
      /\ ~ available_data'[slaveResp(n)]
      /\ out'[slaveResp(n)] \in {shared_data[slaveResp(n)], out[slaveResp(n)]}
  BY <1>1, <1>2, ReadStep
<1>5. CallPlaces'
  BY <1>1, <1>3, <1>4 DEF CallPlaces, OnlyChannel
<1>6. asked' = asked
  BY <1>4 DEF asked, agent_to_bus_req, OnlyChannel
<1>7. Contents'
  BY <1>1, <1>3, <1>4, <1>6 DEF Contents, OnlyChannel
<1>8. UNCHANGED << wires, wb_in, from_master, to_master, slave_number, agent_to_bus_resp >>
  BY <1>2 DEF signals
<1>9. Shapes'
  BY <1>1, <1>3, <1>8 DEF Shapes, FromMaster, ToMaster, ToSlave, FromSlave
<1>10. MasterSide'
  BY <1>1, <1>2, <1>3, <1>6, <1>8, MasterSideFrame DEF BusInv, FromMaster, Heard, Received
<1>11. NoStaleAck'
  BY <1>1, <1>3, <1>8 DEF BusInv, NoStaleAck
<1>12. ASSUME NEW s \in Slave PROVE SlaveSide(s)' /\ Timely(s)'
  <2>1. /\ ToSlave(s)' = ToSlave(s) /\ FromSlave(s)' = FromSlave(s)
        /\ Pending(s)' = Pending(s)
        /\ s # n => out'[slaveResp(s)] = out[slaveResp(s)]
    BY <1>4, <1>8 DEF ToSlave, FromSlave, Pending, OnlyChannel
  <2>2. SlaveSide(s) /\ Timely(s)
    BY <1>1 DEF BusInv
  <2>3. CASE s = n
    <3>1. Requested(n)
      BY <1>3, <2>2, <2>3 DEF SlaveSide, AtRest, Signalled, Requested, Replied, Left
    <3>2. Requested(n)'
      <4>1. UNCHANGED << I, ToSlave(n), FromSlave(n), wb_in[slaveAgent(n)], slave_number,
                         served, asked, Pending(n) >>
        BY <1>2, <1>3, <1>6, <1>8, <2>1, <2>3
      <4> QED
        BY <1>3, <3>1, <4>1 DEF Requested, Selected, NoAck, Pending
    <3>3. Timely(n)'
      BY <1>3 DEF Timely
    <3> QED
      BY <2>3, <3>2, <3>3 DEF SlaveSide
  <2>4. CASE s # n
    <3>1. S(s)' = S(s) /\ current # slaveAgent(s)
      BY <1>3, <1>4, <2>4
    <3>2. UNCHANGED << S(s), I, ToSlave(s), FromSlave(s), wb_in[slaveAgent(s)],
                       slave_number, served, asked, Pending(s), out[slaveResp(s)] >>
      BY <1>2, <1>3, <1>6, <1>8, <2>1, <2>4, <3>1
    <3>3. SlaveSide(s)'
      BY <2>2, <3>2, SlaveSideFrame
    <3>4. Timely(s)'
      BY <1>3, <1>4, <2>1, <2>2, <3>1, TimelyFrame
    <3> QED
      BY <3>3, <3>4
  <2> QED
    BY <2>3, <2>4
<1> QED
  BY <1>4, <1>5, <1>7, <1>9, <1>10, <1>11, <1>12 DEF BusInv

-----------------------------------------------------------------------------
(* The master's agent on its wires. *)

LEMMA Shape ==
  /\ MasterShape(NoMaster) /\ SlaveShape(NoSlave) /\ SlaveShape(NobodysAnswer)
  /\ \A r : MasterShape(Drive(r)) /\ SlaveShape(AnswerSignals(r))
  /\ \A m, s : MasterShape(m) => MasterShape(LocalAddr(m, s))
BY DEF MasterShape, SlaveShape, NoMaster, NoSlave, NobodysAnswer, Drive, AnswerSignals, LocalAddr

(* A step that leaves the blocking channels alone. *)
LEMMA WiresOnly ==
  ASSUME WInv, UNCHANGED channel
  PROVE  /\ asked' = asked
         /\ \A s \in Slave : Pending(s)' = Pending(s) /\ out'[slaveResp(s)] = out[slaveResp(s)]
BY DEF channel, asked, agent_to_bus_req, Pending

(* What a slave's agent sees does not change. *)
LEMMA OtherSlave ==
  ASSUME WInv, Monotone, NEW s \in Slave, current # slaveAgent(s), asked' = asked,
         UNCHANGED << S(s), I, ToSlave(s), FromSlave(s), wb_in[slaveAgent(s)], slave_number,
                      Pending(s), out[slaveResp(s)] >>,
         I = "transmitting" => served' = served
  PROVE  SlaveSide(s)' /\ Timely(s)'
<1>1. SlaveSide(s) /\ Timely(s)
  BY DEF WInv, BusInv
<1>2. SlaveSide(s)'
  BY <1>1, SlaveSideFrame
<1>3. Timely(s)'
  BY <1>1, TimelyFrame
<1> QED
  BY <1>2, <1>3

LEMMA MasterSendStep ==
  ASSUME WInv, MasterSend
  PROVE  [Next]_vars /\ BusInv'
<1> USE Processes, Channels, Ends, Wires
<1>1. IInv /\ BusInv /\ Shapes /\ CallPlaces /\ Contents /\ NoStaleAck
  BY DEF WInv, BusInv
<1>2. /\ At(masterAgent, "send") /\ insert_state(masterAgent)
      /\ wires' = set(wires, masterAgentToBus, Drive(asked))
      /\ pc' = [pc EXCEPT ![masterAgent] = "waiting"]
      /\ UNCHANGED << wb_in, from_master, to_master, slave_number, agent_to_bus_resp, served >>
  BY DEF MasterSend, Goto, history, asked
<1>3. /\ M = "send" /\ M' = "waiting" /\ I' = I /\ \A s \in Slave : S(s)' = S(s)
      /\ DOMAIN pc' = Proc
      /\ rd[masterReq] = "idle" /\ wr[masterResp] = "idle"
  BY <1>1, <1>2, OwnCode DEF M, I, S, Shapes
<1>4. [Next]_vars /\ Monotone /\ current = masterAgent /\ UNCHANGED channel
  BY <1>1, <1>2, PauseStep
<1>5. /\ WiresShape(wires)'
      /\ FromMaster' = [shared_data |-> Drive(asked), available_data |-> TRUE]
      /\ ToMaster' = ToMaster
      /\ \A s \in Slave : ToSlave(s)' = ToSlave(s) /\ FromSlave(s)' = FromSlave(s)
  <2>1. WiresShape(wires)
    BY <1>1 DEF Shapes
  <2>2. /\ WiresShape(wires)'
        /\ wires'[masterAgentToBus] = [shared_data |-> Drive(asked), available_data |-> TRUE]
        /\ \A d \in Shared \ {masterAgentToBus} : wires'[d] = wires[d]
    BY <1>2, <2>1, SetWire
  <2> QED
    BY <2>2 DEF FromMaster, ToMaster, ToSlave, FromSlave
<1>6. asked' = asked
  BY <1>4, WiresOnly
<1>7. CallPlaces' /\ Contents'
  BY <1>1, <1>3, <1>4, <1>6 DEF CallPlaces, Contents, channel
<1>8. Shapes'
  <2>1. MasterShape(FromMaster.shared_data)'
    BY <1>5, Shape
  <2> QED
    BY <1>1, <1>2, <1>3, <1>5, <2>1 DEF Shapes
<1>9. MasterSide'
  <2>1. NoRequest
    BY <1>1, <1>3 DEF BusInv, MasterSide, NoRequest, NotSeen, Passed, Answered, Nobodys,
                      Withdrawn, Over, OverSeen
  <2>2. Heard' = Heard
    BY <1>2, <1>5 DEF Heard, Received, ToMaster
  <2>3. NotSeen'
    BY <1>2, <1>3, <1>5, <1>6, <2>1, <2>2 DEF NoRequest, NotSeen, Unanswered
  <2> QED
    BY <2>3 DEF MasterSide
<1>10. NoStaleAck'
  BY <1>1, <1>2, <1>3 DEF NoStaleAck
<1>11. ASSUME NEW s \in Slave PROVE SlaveSide(s)' /\ Timely(s)'
  BY <1>2, <1>3, <1>4, <1>5, <1>6, WiresOnly, OtherSlave
<1> QED
  BY <1>4, <1>7, <1>8, <1>9, <1>10, <1>11 DEF BusInv

(* The agent finds the answer, or nothing yet.                              *)
LEMMA MasterWaitingStep ==
  ASSUME WInv, MasterWaiting
  PROVE  [Next]_vars /\ BusInv'
<1> USE Processes, Channels, Ends, Wires
<1> DEFINE got == get(wires, busToMasterAgent)
<1>1. IInv /\ BusInv /\ Shapes /\ CallPlaces /\ Contents /\ NoStaleAck /\ MasterSide
  BY DEF WInv, BusInv
<1>2. /\ At(masterAgent, "waiting") /\ insert_state(masterAgent)
      /\ wb_in' = [wb_in EXCEPT ![masterAgent] = Heard]
      /\ UNCHANGED << from_master, to_master, slave_number >>
      /\ \/ /\ Unanswered /\ wires' = got
            /\ UNCHANGED << pc, agent_to_bus_resp, served >>
         \/ /\ ~ Unanswered
            /\ agent_to_bus_resp' =
                 [ack |-> IF Heard.err THEN "ERR" ELSE "OK",
                  data |-> IF asked.trans_type = "SINGLE_READ" THEN Heard.data
                           ELSE agent_to_bus_resp.data]
            /\ wires' = set(got, masterAgentToBus, NoMaster)
            /\ served' = << >>
            /\ pc' = [pc EXCEPT ![masterAgent] = "done"]
  BY DEF MasterWaiting, Goto, asked, Heard, Unanswered
<1>3. /\ M = "waiting" /\ I' = I /\ \A s \in Slave : S(s)' = S(s)
      /\ DOMAIN pc' = Proc
      /\ rd[masterReq] = "idle" /\ wr[masterResp] = "idle"
  BY <1>1, <1>2, OwnCode DEF M, I, S, Shapes
<1>4. [Next]_vars /\ Monotone /\ current = masterAgent /\ UNCHANGED channel
  BY <1>1, <1>2, PauseStep
<1>5. /\ WiresShape(got)
      /\ got[busToMasterAgent] = [shared_data |-> ToMaster.shared_data, available_data |-> FALSE]
      /\ \A c \in Shared \ {busToMasterAgent} : got[c] = wires[c]
  BY <1>1, GetWire DEF Shapes, ToMaster
<1> HIDE DEF got
<1>6. /\ WiresShape(wires)'
      /\ FromMaster' = IF Unanswered THEN FromMaster
                       ELSE [shared_data |-> NoMaster, available_data |-> TRUE]
      /\ ToMaster' = [shared_data |-> ToMaster.shared_data, available_data |-> FALSE]
      /\ \A s \in Slave : ToSlave(s)' = ToSlave(s) /\ FromSlave(s)' = FromSlave(s)
  <2>1. CASE Unanswered
    BY <1>2, <1>5, <2>1 DEF FromMaster, ToMaster, ToSlave, FromSlave
  <2>2. CASE ~ Unanswered
    BY <1>2, <1>5, <2>2, SetWire DEF FromMaster, ToMaster, ToSlave, FromSlave
  <2> QED
    BY <2>1, <2>2
<1>7. asked' = asked
  BY <1>4, WiresOnly
<1>8. /\ wb_in'[masterAgent] = Heard /\ Heard' = Heard /\ DOMAIN wb_in' = Proc
      /\ \A s \in Slave : wb_in'[slaveAgent(s)] = wb_in[slaveAgent(s)]
  BY <1>1, <1>2, <1>6 DEF Shapes, Heard, Received, ToMaster
<1>9. CASE Unanswered
  <2>1. UNCHANGED << pc, agent_to_bus_resp, served, M >>
    BY <1>2, <1>9 DEF M
  <2>2. CallPlaces' /\ Contents'
    BY <1>1, <1>3, <1>4, <1>7, <2>1 DEF CallPlaces, Contents, channel
  <2>3. SlaveShape(Heard)
    BY <1>1 DEF Shapes, Heard, Received, ToMaster
  <2>4. Shapes'
    BY <1>1, <1>2, <1>3, <1>6, <1>8, <1>9, <2>1, <2>3 DEF Shapes
  <2>5. MasterSide'
    BY <1>1, <1>2, <1>3, <1>6, <1>7, <1>8, <1>9, <2>1, MasterSideFrame
  <2>6. NoStaleAck'
    BY <1>1, <1>2, <1>3 DEF NoStaleAck
  <2>7. ASSUME NEW s \in Slave PROVE SlaveSide(s)' /\ Timely(s)'
    BY <1>2, <1>3, <1>4, <1>6, <1>7, <1>8, <2>1, WiresOnly, OtherSlave
  <2> QED
    BY <1>4, <2>2, <2>4, <2>5, <2>6, <2>7 DEF BusInv
<1>10. CASE ~ Unanswered
  <2>1. /\ M' = "done" /\ served' = << >>
        /\ agent_to_bus_resp' =
                 [ack |-> IF Heard.err THEN "ERR" ELSE "OK",
                  data |-> IF asked.trans_type = "SINGLE_READ" THEN Heard.data
                           ELSE agent_to_bus_resp.data]
    BY <1>1, <1>2, <1>10 DEF M, Shapes
  <2>2. CallPlaces' /\ Contents'
    BY <1>1, <1>3, <1>4, <1>7, <2>1 DEF CallPlaces, Contents, channel
  <2>3. Answered \/ Nobodys
    BY <1>1, <1>3, <1>10 DEF MasterSide, NoRequest, NotSeen, Passed, Withdrawn, Over, OverSeen
  <2>4. I = "done"
    BY <2>3 DEF Answered, Nobodys
  <2>5. agent_to_bus_resp' \in Reply
    <3>1. asked \in Request
      BY <1>1, <1>3 DEF Contents
    <3>2. CASE Answered /\ asked.trans_type = "SINGLE_READ"
      <4>1. Heard.data = served[1].reply.data /\ served[1].reply \in Reply
        BY <3>2 DEF Answered, AnswerSignals
      <4> QED
        BY <2>1, <3>2, <4>1, MessagesAssumption
    <3>3. CASE Nobodys /\ asked.trans_type = "SINGLE_READ"
      <4>1. Heard.data = 0
        BY <3>3 DEF Nobodys, NobodysAnswer
      <4> QED
        BY <2>1, <3>3, <4>1, MessagesAssumption
    <3>4. CASE asked.trans_type # "SINGLE_READ"
      BY <1>1, <2>1, <3>4, MessagesAssumption DEF Shapes
    <3> QED
      BY <2>3, <3>2, <3>3, <3>4
  <2>6. SlaveShape(Heard)
    BY <1>1 DEF Shapes, Heard, Received, ToMaster
  <2>7. Shapes'
    BY <1>1, <1>2, <1>3, <1>6, <1>8, <1>10, <2>5, <2>6, Shape DEF Shapes
  <2>8. MasterSide'
    <3>1. Over'
      BY <1>3, <1>6, <1>8, <1>10, <2>1, <2>4 DEF Over, Unanswered
    <3> QED
      BY <3>1 DEF MasterSide
  <2>9. NoStaleAck'
    BY <1>1, <1>2, <1>3 DEF NoStaleAck
  <2>10. ASSUME NEW s \in Slave PROVE SlaveSide(s)' /\ Timely(s)'
    BY <1>2, <1>3, <1>4, <1>6, <1>7, <1>8, <2>4, WiresOnly, OtherSlave
  <2> QED
    BY <1>4, <2>2, <2>7, <2>8, <2>9, <2>10 DEF BusInv
<1> QED
  BY <1>9, <1>10

(* The agent answers its caller when the bus is at rest again.              *)
LEMMA MasterDoneStep ==
  ASSUME WInv, MasterDone
  PROVE  [Next]_vars /\ BusInv'
<1> USE Processes, Channels, Ends, Wires
<1>1. IInv /\ BusInv /\ Shapes /\ CallPlaces /\ Contents /\ NoStaleAck /\ MasterSide
  BY DEF WInv, BusInv
<1>2. /\ At(masterAgent, "done")
      /\ wb_in' = [wb_in EXCEPT ![masterAgent] = Heard]
      /\ wires' = get(wires, busToMasterAgent)
      /\ UNCHANGED << from_master, to_master, slave_number, agent_to_bus_resp, served >>
      /\ \/ ~ Unanswered /\ insert_state(masterAgent) /\ UNCHANGED pc
         \/ /\ Unanswered
            /\ Write(masterResp, agent_to_bus_resp)
            /\ pc' = [pc EXCEPT ![masterAgent] = "start"]
  BY DEF MasterDone, Goto, history, Heard, Unanswered
<1>3. /\ M = "done" /\ I' = I /\ \A s \in Slave : S(s)' = S(s)
      /\ DOMAIN pc' = Proc
      /\ rd[masterReq] = "idle" /\ wr[masterResp] = "idle"
  BY <1>1, <1>2, OwnCode DEF M, I, S, Shapes
<1>4. /\ WiresShape(wires)' /\ FromMaster' = FromMaster
      /\ ToMaster' = [shared_data |-> ToMaster.shared_data, available_data |-> FALSE]
      /\ \A s \in Slave : ToSlave(s)' = ToSlave(s) /\ FromSlave(s)' = FromSlave(s)
  <2>1. WiresShape(wires)
    BY <1>1 DEF Shapes
  <2>2. /\ WiresShape(wires)'
        /\ wires'[busToMasterAgent] = [shared_data |-> wires[busToMasterAgent].shared_data,
                                       available_data |-> FALSE]
        /\ \A d \in Shared \ {busToMasterAgent} : wires'[d] = wires[d]
    BY <1>2, <2>1, GetWire
  <2> QED
    BY <2>2 DEF FromMaster, ToMaster, ToSlave, FromSlave
<1>5. /\ wb_in'[masterAgent] = Heard /\ Heard' = Heard /\ DOMAIN wb_in' = Proc
      /\ \A s \in Slave : wb_in'[slaveAgent(s)] = wb_in[slaveAgent(s)]
  BY <1>1, <1>2, <1>4 DEF Shapes, Heard, Received, ToMaster
<1>6. Shapes'
  <2>1. SlaveShape(Heard)
    BY <1>1 DEF Shapes, Heard, Received, ToMaster
  <2> QED
    BY <1>1, <1>2, <1>3, <1>4, <1>5, <2>1 DEF Shapes
<1>7. NoStaleAck'
  BY <1>1, <1>2, <1>3 DEF NoStaleAck
<1>8. CASE ~ Unanswered
  <2>1. insert_state(masterAgent) /\ UNCHANGED << pc, M >>
    BY <1>2, <1>8 DEF M
  <2>2. [Next]_vars /\ Monotone /\ current = masterAgent /\ UNCHANGED channel
    BY <1>1, <1>2, <2>1, PauseStep
  <2>3. asked' = asked
    BY <2>2, WiresOnly
  <2>4. CallPlaces' /\ Contents'
    BY <1>1, <1>3, <2>1, <2>2, <2>3 DEF CallPlaces, Contents, channel
  <2>5. MasterSide'
    BY <1>1, <1>2, <1>3, <1>4, <1>5, <2>1, <2>3, MasterSideFrame
  <2>6. ASSUME NEW s \in Slave PROVE SlaveSide(s)' /\ Timely(s)'
    BY <1>2, <1>3, <1>4, <1>5, <2>2, <2>3, WiresOnly, OtherSlave
  <2> QED
    BY <1>6, <1>7, <2>2, <2>4, <2>5, <2>6 DEF BusInv
<1>9. CASE Unanswered
  <2>1. Write(masterResp, agent_to_bus_resp) /\ M' = "start"
    BY <1>1, <1>2, <1>9 DEF M, Shapes
  <2>2. agent_to_bus_resp \in Data
    BY <1>1, WishboneAssumption DEF Shapes
  <2>3. /\ [Next]_vars /\ Monotone /\ OnlyChannel(masterResp)
        /\ current = masterAgent
        /\ wr'[masterResp] = "write"
    BY <1>1, <2>1, <2>2, WriteStep
  <2>4. asked' = asked
    BY <2>3 DEF OnlyChannel, asked, agent_to_bus_req
  <2>5. CallPlaces'
    BY <1>1, <1>3, <2>1, <2>3 DEF CallPlaces, OnlyChannel
  <2>6. Contents'
    BY <1>1, <1>3, <2>1, <2>3, <2>4 DEF Contents, OnlyChannel
  <2>7. MasterSide'
    <3>1. OverSeen
      BY <1>1, <1>3, <1>9 DEF MasterSide, NoRequest, NotSeen, Passed, Answered, Nobodys,
                              Withdrawn, Over, OverSeen
    <3>2. ~ Driven(NoMaster)
      BY DEF Driven, NoMaster
    <3>3. NoRequest'
      BY <1>2, <1>3, <1>4, <1>5, <2>1, <3>1, <3>2 DEF OverSeen, NoRequest, Unanswered
    <3> QED
      BY <3>3 DEF MasterSide
  <2>8. ASSUME NEW s \in Slave PROVE SlaveSide(s)' /\ Timely(s)'
    <3>1. Pending(s)' = Pending(s) /\ out'[slaveResp(s)] = out[slaveResp(s)]
      BY <2>3 DEF Pending, OnlyChannel
    <3> QED
      BY <1>2, <1>3, <1>4, <1>5, <2>3, <2>4, <3>1, OtherSlave
  <2> QED
    BY <1>6, <1>7, <2>3, <2>5, <2>6, <2>7, <2>8 DEF BusInv
<1> QED
  BY <1>8, <1>9

-----------------------------------------------------------------------------
(* The interconnect. *)

LEMMA InterconnectStartStep ==
  ASSUME WInv, InterconnectStart
  PROVE  [Next]_vars /\ BusInv'
<1> USE Processes, Channels, Ends, Wires
<1>1. IInv /\ BusInv /\ Shapes /\ CallPlaces /\ Contents /\ NoStaleAck /\ MasterSide
  BY DEF WInv, BusInv
<1>2. /\ At(interconnect, "start") /\ insert_state(interconnect)
      /\ pc' = [pc EXCEPT ![interconnect] = "idle"]
      /\ UNCHANGED << signals, served >>
  BY DEF InterconnectStart, Goto, history
<1>3. /\ I = "start" /\ I' = "idle" /\ M' = M /\ \A s \in Slave : S(s)' = S(s)
      /\ DOMAIN pc' = Proc
  BY <1>1, <1>2, OwnCode DEF M, I, S, Shapes
<1>4. [Next]_vars /\ Monotone /\ UNCHANGED channel
  BY <1>1, <1>2, PauseStep
<1>5. asked' = asked
  BY <1>4, WiresOnly
<1>6. UNCHANGED << wires, wb_in, from_master, to_master, slave_number, agent_to_bus_resp >>
  BY <1>2 DEF signals
<1>7. CallPlaces' /\ Contents'
  BY <1>1, <1>3, <1>4, <1>5 DEF CallPlaces, Contents, channel
<1>8. Shapes'
  BY <1>1, <1>3, <1>6 DEF Shapes, FromMaster, ToMaster, ToSlave, FromSlave
<1>9. MasterSide'
  <2>1. NoRequest \/ NotSeen
    BY <1>1, <1>3 DEF MasterSide, NoRequest, NotSeen, Passed, Answered, Nobodys,
                      Withdrawn, Over, OverSeen
  <2>2. FromMaster' = FromMaster /\ Heard' = Heard
    BY <1>6 DEF FromMaster, Heard, Received
  <2>3. NoRequest' \/ NotSeen'
    BY <1>2, <1>3, <1>5, <1>6, <2>1, <2>2 DEF NoRequest, NotSeen, Unanswered
  <2> QED
    BY <2>3 DEF MasterSide
<1>10. NoStaleAck'
  BY <1>1, <1>3, <1>6 DEF NoStaleAck
<1>11. ASSUME NEW s \in Slave PROVE SlaveSide(s)' /\ Timely(s)'
  <2>1. AtRest(s)
    BY <1>1, <1>3 DEF BusInv, SlaveSide, AtRest, Signalled, Requested, Replied, Left, Selected
  <2>2. AtRest(s)'
    BY <1>3, <1>6, <2>1 DEF AtRest, NoAck, ToSlave, FromSlave
  <2>3. Timely(s)'
    BY <1>3, <2>1 DEF Timely, AtRest
  <2> QED
    BY <2>2, <2>3 DEF SlaveSide
<1> QED
  BY <1>4, <1>7, <1>8, <1>9, <1>10, <1>11 DEF BusInv

(* The slaves have seen the end of the last request when the interconnect   *)
(* looks for the next one: it has waited for a delta cycle since.           *)
LEMMA IdleMeansRest ==
  ASSUME WInv, I = "idle", current = interconnect, NEW s \in Slave
  PROVE  AtRest(s)
<1>1. interconnect \notin delta
  BY Processes DEF WInv, IInv, OnePlace, Place
<1>2. SlaveSide(s) /\ Timely(s)
  BY DEF WInv, BusInv
<1>3. ~ Left(s)
  BY <1>1, <1>2 DEF Left, Timely
<1> QED
  BY <1>2, <1>3 DEF SlaveSide, Signalled, Requested, Replied, Selected

LEMMA InterconnectIdleStep ==
  ASSUME WInv, InterconnectIdle
  PROVE  [Next]_vars /\ BusInv'
<1> USE Processes, Channels, Ends, Wires
<1> DEFINE in == Received(masterAgentToBus, from_master)
           got == get(wires, masterAgentToBus)
<1>1. IInv /\ BusInv /\ Shapes /\ CallPlaces /\ Contents /\ NoStaleAck /\ MasterSide
  BY DEF WInv, BusInv
<1>2. /\ At(interconnect, "idle") /\ insert_state(interconnect)
      /\ UNCHANGED << wb_in, agent_to_bus_resp, served >>
      /\ \/ /\ ~ Driven(in)
            /\ from_master' = in /\ wires' = got
            /\ UNCHANGED << pc, to_master, slave_number >>
         \/ /\ Driven(in)
            /\ \E s \in selected(in) :
                 /\ wires' = set(got, toSlaveAgent(s), LocalAddr(in, s))
                 /\ slave_number' = s
            /\ from_master' = NoMaster
            /\ pc' = [pc EXCEPT ![interconnect] = "transmitting"]
            /\ UNCHANGED to_master
         \/ /\ Driven(in) /\ selected(in) = {}
            /\ to_master' = NobodysAnswer
            /\ wires' = set(got, busToMasterAgent, to_master')
            /\ from_master' = in
            /\ pc' = [pc EXCEPT ![interconnect] = "done"]
            /\ UNCHANGED slave_number
  BY DEF InterconnectIdle, Goto, history
<1>3. /\ I = "idle" /\ current = interconnect /\ M' = M /\ \A s \in Slave : S(s)' = S(s)
      /\ DOMAIN pc' = Proc
  BY <1>1, <1>2, OwnCode DEF M, I, S, Shapes
<1>4. [Next]_vars /\ Monotone /\ UNCHANGED channel
  BY <1>1, <1>2, PauseStep
<1>5. asked' = asked /\ CallPlaces' /\ Contents'
  <2>1. asked' = asked
    BY <1>4, WiresOnly
  <2> QED
    BY <1>1, <1>3, <1>4, <2>1 DEF CallPlaces, Contents, channel
<1>6. /\ WiresShape(got)
      /\ got[masterAgentToBus] = [shared_data |-> FromMaster.shared_data, available_data |-> FALSE]
      /\ \A c \in Shared \ {masterAgentToBus} : got[c] = wires[c]
  BY <1>1, GetWire DEF Shapes, FromMaster
<1>7. MasterShape(in)
  BY <1>1 DEF Shapes, Received, FromMaster
<1>8. NoRequest \/ NotSeen \/ Withdrawn \/ OverSeen
  BY <1>1, <1>3 DEF MasterSide, NoRequest, NotSeen, Passed, Answered, Nobodys,
                    Withdrawn, Over, OverSeen
<1>9. /\ NotSeen => in = Drive(asked)
      /\ ~ NotSeen => in = from_master /\ ~ Driven(in) /\ ~ FromMaster.available_data
  BY <1>8 DEF NoRequest, NotSeen, Withdrawn, OverSeen, Received, FromMaster, Driven, NoMaster
<1>10. Driven(Drive(asked)) /\ Drive(asked).addr = asked.addr
  BY DEF Driven, Drive
<1>11. \A s \in Slave : AtRest(s)
  BY <1>3, IdleMeansRest
<1>12. \A s \in Slave : Timely(s)'
  BY <1>3, <1>11 DEF AtRest, Timely
<1> HIDE DEF in, got
<1>13. CASE ~ Driven(in)
  <2>1. /\ ~ NotSeen /\ from_master' = from_master /\ wires' = got
        /\ UNCHANGED << pc, to_master, slave_number, I >>
    BY <1>2, <1>9, <1>10, <1>13 DEF I
  <2>2. /\ FromMaster'.available_data = FALSE /\ FromMaster'.shared_data = FromMaster.shared_data
        /\ ToMaster' = ToMaster
        /\ \A s \in Slave : ToSlave(s)' = ToSlave(s) /\ FromSlave(s)' = FromSlave(s)
    BY <1>6, <2>1 DEF FromMaster, ToMaster, ToSlave, FromSlave
  <2>3. Shapes'
    BY <1>1, <1>2, <1>3, <1>6, <2>1, <2>2 DEF Shapes
  <2>4. MasterSide'
    <3>1. Heard' = Heard
      BY <1>2, <2>2 DEF Heard, Received, ToMaster
    <3>2. NoRequest' \/ Withdrawn' \/ OverSeen'
      BY <1>2, <1>3, <1>8, <2>1, <2>2, <3>1 DEF NoRequest, Withdrawn, OverSeen, Unanswered
    <3> QED
      BY <3>2 DEF MasterSide
  <2>5. NoStaleAck'
    BY <1>1, <2>1 DEF NoStaleAck
  <2>6. \A s \in Slave : AtRest(s)'
    BY <1>2, <1>3, <1>11, <2>1, <2>2 DEF AtRest, NoAck
  <2> QED
    BY <1>4, <1>5, <1>12, <2>3, <2>4, <2>5, <2>6 DEF BusInv, SlaveSide
<1>14. CASE Driven(in) /\ selected(in) # {}
  <2>1. PICK n \in selected(in) : /\ wires' = set(got, toSlaveAgent(n), LocalAddr(in, n))
                                  /\ slave_number' = n
    BY <1>2, <1>14
  <2>2. /\ from_master' = NoMaster /\ I' = "transmitting" /\ UNCHANGED to_master
    BY <1>1, <1>2, <1>14 DEF I, Shapes
  <2>3. NotSeen /\ in = Drive(asked)
    BY <1>9, <1>14
  <2>4. n \in Slave /\ n \in B!Addressed(asked)
    BY <1>10, <2>1, <2>3 DEF selected, B!Addressed
  <2>5. /\ WiresShape(wires)'
        /\ wires'[toSlaveAgent(n)] = [shared_data |-> LocalAddr(in, n), available_data |-> TRUE]
        /\ \A c \in Shared \ {toSlaveAgent(n)} : wires'[c] = got[c]
    BY <1>6, <2>1, <2>4, SetWire, SMTT(30)
  <2>6. /\ FromMaster'.available_data = FALSE /\ FromMaster'.shared_data = FromMaster.shared_data
        /\ ToMaster' = ToMaster
        /\ \A s \in Slave : FromSlave(s)' = FromSlave(s)
        /\ \A s \in Slave \ {n} : ToSlave(s)' = ToSlave(s)
        /\ ToSlave(n)' = [shared_data |-> LocalAddr(in, n), available_data |-> TRUE]
    BY <1>6, <2>4, <2>5 DEF FromMaster, ToMaster, ToSlave, FromSlave
  <2>7. Shapes'
    <3>1. MasterShape(ToSlave(n)'.shared_data) /\ MasterShape(from_master')
      BY <1>7, <2>2, <2>6, Shape
    <3> QED
      BY <1>1, <1>2, <1>3, <2>1, <2>2, <2>4, <2>5, <2>6, <3>1 DEF Shapes
  <2>8. MasterSide'
    <3>1. Heard' = Heard
      BY <1>2, <2>6 DEF Heard, Received, ToMaster
    <3>2. Passed'
      BY <1>3, <1>5, <2>1, <2>2, <2>3, <2>4, <2>6, <3>1 DEF NotSeen, Passed, Unanswered
    <3> QED
      BY <3>2 DEF MasterSide
  <2>9. NoStaleAck'
    BY <1>1, <1>3, <2>2 DEF NoStaleAck
  <2>10. Signalled(n)'
    BY <1>2, <1>3, <1>5, <1>11, <2>1, <2>2, <2>3, <2>4, <2>6
    DEF AtRest, Signalled, Selected, NoAck, NotSeen
  <2>11. \A s \in Slave \ {n} : AtRest(s)'
    BY <1>2, <1>3, <1>11, <2>1, <2>6 DEF AtRest, NoAck
  <2> QED
    BY <1>4, <1>5, <1>12, <2>7, <2>8, <2>9, <2>10, <2>11 DEF BusInv, SlaveSide
<1>15. CASE Driven(in) /\ selected(in) = {}
  <2>1. /\ to_master' = NobodysAnswer
        /\ wires' = set(got, busToMasterAgent, NobodysAnswer)
        /\ from_master' = in /\ I' = "done" /\ UNCHANGED slave_number
    BY <1>1, <1>2, <1>15 DEF I, Shapes
  <2>2. NotSeen /\ in = Drive(asked)
    BY <1>9, <1>15
  <2>3. B!Addressed(asked) = {}
    BY <1>10, <1>15, <2>2 DEF selected, B!Addressed
  <2>4. /\ WiresShape(wires)'
        /\ wires'[busToMasterAgent] = [shared_data |-> NobodysAnswer, available_data |-> TRUE]
        /\ \A c \in Shared \ {busToMasterAgent} : wires'[c] = got[c]
    BY <1>6, <2>1, SetWire
  <2>5. /\ FromMaster'.available_data = FALSE /\ FromMaster'.shared_data = FromMaster.shared_data
        /\ ToMaster' = [shared_data |-> NobodysAnswer, available_data |-> TRUE]
        /\ \A s \in Slave : ToSlave(s)' = ToSlave(s) /\ FromSlave(s)' = FromSlave(s)
    BY <1>6, <2>4 DEF FromMaster, ToMaster, ToSlave, FromSlave
  <2>6. Shapes'
    <3>1. SlaveShape(ToMaster'.shared_data) /\ SlaveShape(to_master') /\ MasterShape(from_master')
      BY <1>7, <2>1, <2>5, Shape
    <3> QED
      BY <1>1, <1>2, <1>3, <2>1, <2>4, <2>5, <3>1 DEF Shapes
  <2>7. MasterSide'
    <3>1. Heard' = NobodysAnswer
      BY <2>5 DEF Heard, Received, ToMaster
    <3>2. Nobodys'
      BY <1>2, <1>3, <1>5, <2>1, <2>2, <2>3, <2>5, <3>1 DEF NotSeen, Nobodys
    <3> QED
      BY <3>2 DEF MasterSide
  <2>8. NoStaleAck'
    BY <2>1 DEF NoStaleAck
  <2>9. \A s \in Slave : AtRest(s)'
    BY <1>2, <1>3, <1>11, <2>1, <2>5 DEF AtRest, NoAck
  <2> QED
    BY <1>4, <1>5, <1>12, <2>6, <2>7, <2>8, <2>9 DEF BusInv, SlaveSide
<1> QED
  BY <1>13, <1>14, <1>15

LEMMA InterconnectTransmittingStep ==
  ASSUME WInv, InterconnectTransmitting
  PROVE  [Next]_vars /\ BusInv'
<1> USE Processes, Channels, Ends, Wires
<1>1. IInv /\ BusInv /\ Shapes /\ CallPlaces /\ Contents /\ NoStaleAck /\ MasterSide
  BY DEF WInv, BusInv
<1>2. PICK n \in Slave : slave_number = n
  BY <1>1 DEF Shapes
<1> DEFINE in == Received(fromSlaveAgent(n), to_master)
           got == get(wires, fromSlaveAgent(n))
<1>3. /\ At(interconnect, "transmitting") /\ insert_state(interconnect)
      /\ UNCHANGED << wb_in, from_master, slave_number, agent_to_bus_resp, served >>
      /\ to_master' = in
      /\ \/ /\ in.ack
            /\ wires' = set(set(got, toSlaveAgent(n), NoMaster), busToMasterAgent, in)
            /\ pc' = [pc EXCEPT ![interconnect] = "done"]
         \/ /\ ~ in.ack
            /\ wires' = got /\ UNCHANGED pc
  BY <1>2 DEF InterconnectTransmitting, Goto, history
<1>4. /\ I = "transmitting" /\ current = interconnect
      /\ M' = M /\ \A s \in Slave : S(s)' = S(s)
      /\ DOMAIN pc' = Proc
  BY <1>1, <1>3, OwnCode DEF M, I, S, Shapes
<1>5. [Next]_vars /\ Monotone /\ interconnect \in delta' /\ UNCHANGED channel
  BY <1>1, <1>3, PauseStep
<1>6. asked' = asked /\ CallPlaces' /\ Contents'
  <2>1. asked' = asked
    BY <1>5, WiresOnly
  <2> QED
    BY <1>1, <1>4, <1>5, <2>1 DEF CallPlaces, Contents, channel
<1>7. /\ WiresShape(got)
      /\ got[fromSlaveAgent(n)] = [shared_data |-> FromSlave(n).shared_data,
                                   available_data |-> FALSE]
      /\ \A c \in Shared \ {fromSlaveAgent(n)} : got[c] = wires[c]
  BY <1>1, GetWire DEF Shapes, FromSlave
<1>8. SlaveShape(in)
  BY <1>1 DEF Shapes, Received, FromSlave
<1>9. Passed
  BY <1>1, <1>4, PassedWaits
<1>10. /\ Signalled(n) \/ Requested(n) \/ Replied(n)
      /\ \A s \in Slave \ {n} : AtRest(s)
  BY <1>1, <1>2, <1>4 DEF BusInv, SlaveSide, AtRest, Signalled, Requested, Replied, Left, Selected
<1>11. /\ in.ack => FromSlave(n).available_data /\ in = FromSlave(n).shared_data
  BY <1>1, <1>4 DEF NoStaleAck, Received, FromSlave
<1> HIDE DEF in, got
<1>12. CASE ~ in.ack
  <2>1. to_master' = in /\ wires' = got /\ UNCHANGED << pc, I >>
    BY <1>3, <1>12 DEF I
  <2>2. /\ FromMaster' = FromMaster /\ ToMaster' = ToMaster
        /\ \A s \in Slave : ToSlave(s)' = ToSlave(s)
        /\ \A s \in Slave \ {n} : FromSlave(s)' = FromSlave(s)
        /\ FromSlave(n)' = [shared_data |-> FromSlave(n).shared_data, available_data |-> FALSE]
    BY <1>1, <1>3, <1>7, <2>1 DEF FromMaster, ToMaster, ToSlave, FromSlave
  <2>3. Shapes'
    BY <1>1, <1>3, <1>4, <1>7, <1>8, <2>1, <2>2 DEF Shapes
  <2>4. MasterSide'
    <3>1. Heard' = Heard
      BY <1>3, <2>2 DEF Heard, Received, ToMaster
    <3>2. Passed'
      BY <1>3, <1>4, <1>6, <1>9, <2>1, <2>2, <3>1 DEF Passed, Unanswered
    <3> QED
      BY <3>2 DEF MasterSide
  <2>5. NoStaleAck'
    BY <1>12, <2>1 DEF NoStaleAck
  <2>6. SlaveSide(n)'
    <3>1. /\ UNCHANGED << S(n), I, ToSlave(n), wb_in[slaveAgent(n)], slave_number, served, asked,
                          Pending(n), out[slaveResp(n)] >>
          /\ NoAck(n)'
      BY <1>1, <1>3, <1>4, <1>5, <1>6, <2>1, <2>2, WiresOnly DEF NoAck
    <3>2. CASE Signalled(n)
      BY <3>1, <3>2 DEF Signalled, Selected, SlaveSide
    <3>3. CASE Requested(n)
      BY <3>1, <3>3 DEF Requested, Selected, Pending, SlaveSide
    <3>4. CASE Replied(n)
      BY <3>1, <3>4 DEF Replied, Selected, ServedBy, SlaveSide
    <3> QED
      BY <1>10, <3>2, <3>3, <3>4
  <2>7. Timely(n)'
    BY <1>1, <1>4, <1>5, <2>1, <2>2, TimelyFrame DEF BusInv
  <2>8. ASSUME NEW s \in Slave \ {n} PROVE SlaveSide(s)' /\ Timely(s)'
    BY <1>3, <1>4, <1>5, <1>6, <2>1, <2>2, WiresOnly, OtherSlave
  <2> QED
    BY <1>3, <1>5, <1>6, <2>3, <2>4, <2>5, <2>6, <2>7, <2>8 DEF BusInv
<1>13. CASE in.ack
  <2>1. /\ to_master' = in /\ I' = "done"
        /\ wires' = set(set(got, toSlaveAgent(n), NoMaster), busToMasterAgent, in)
    BY <1>1, <1>3, <1>13 DEF I, Shapes
  <2>2. /\ Replied(n) /\ in = AnswerSignals(out[slaveResp(n)])
    BY <1>10, <1>11, <1>13 DEF Signalled, Requested, Replied, NoAck
  <2>3. PICK w : /\ w = set(got, toSlaveAgent(n), NoMaster) /\ WiresShape(w)
                 /\ w[toSlaveAgent(n)] = [shared_data |-> NoMaster, available_data |-> TRUE]
                 /\ \A c \in Shared \ {toSlaveAgent(n)} : w[c] = got[c]
    BY <1>7, SetWire, SMTT(30)
  <2>4. /\ WiresShape(wires')
        /\ wires'[busToMasterAgent] = [shared_data |-> in, available_data |-> TRUE]
        /\ \A c \in Shared \ {busToMasterAgent} : wires'[c] = w[c]
    <3>1. wires' = set(w, busToMasterAgent, in) /\ WiresShape(w)
      BY <2>1, <2>3
    <3> QED
      BY <3>1, SetWire
  <2>5. /\ FromMaster' = FromMaster
        /\ ToMaster' = [shared_data |-> in, available_data |-> TRUE]
        /\ \A s \in Slave \ {n} : ToSlave(s)' = ToSlave(s) /\ FromSlave(s)' = FromSlave(s)
        /\ FromSlave(n)'.shared_data = FromSlave(n).shared_data
        /\ ToSlave(n)' = [shared_data |-> NoMaster, available_data |-> TRUE]
    BY <1>1, <1>7, <2>3, <2>4 DEF FromMaster, ToMaster, ToSlave, FromSlave
  <2>6. Shapes'
    BY <1>1, <1>3, <1>4, <1>8, <2>1, <2>4, <2>5, Shape DEF Shapes
  <2>7. out[slaveResp(n)] \in Reply
    BY <1>1 DEF Contents
  <2>8. MasterSide'
    <3>1. Heard' = in
      BY <2>5 DEF Heard, Received, ToMaster
    <3>2. served = ServedBy(n, out[slaveResp(n)])
      BY <2>2 DEF Replied
    <3>3. served[1].reply = out[slaveResp(n)]
      BY <3>2 DEF ServedBy
    <3>4. served' = ServedBy(n, out[slaveResp(n)])' /\ out'[slaveResp(n)] = out[slaveResp(n)]
      BY <1>1, <1>3, <1>5, <1>6, <3>2, WiresOnly DEF ServedBy
    <3>5. in = AnswerSignals(served[1].reply)'
      BY <1>3, <1>6, <2>2, <3>3 DEF AnswerSignals
    <3>6. Answered'
      BY <1>2, <1>3, <1>4, <1>6, <1>9, <2>1, <2>5, <2>7, <3>1, <3>2, <3>3, <3>4, <3>5
      DEF Passed, Answered, ServedBy
    <3> QED
      BY <3>6 DEF MasterSide
  <2>9. NoStaleAck'
    BY <2>1 DEF NoStaleAck
  <2>10. SlaveSide(n)' /\ Timely(n)'
    <3>1. Left(n)'
      BY <1>2, <1>3, <1>4, <2>1, <2>2, <2>5 DEF Left, Replied
    <3>2. Timely(n)'
      BY <1>1, <1>4, <1>5, <2>1 DEF BusInv, Timely, Polls, Monotone
    <3> QED
      BY <3>1, <3>2 DEF SlaveSide
  <2>11. ASSUME NEW s \in Slave \ {n} PROVE SlaveSide(s)' /\ Timely(s)'
    <3>1. AtRest(s)
      BY <1>10
    <3>2. AtRest(s)'
      BY <1>3, <1>4, <2>1, <2>5, <3>1 DEF AtRest, NoAck
    <3>3. Timely(s)'
      BY <1>4, <3>1 DEF Timely, AtRest
    <3> QED
      BY <3>2, <3>3 DEF SlaveSide
  <2> QED
    BY <1>3, <1>5, <1>6, <2>6, <2>8, <2>9, <2>10, <2>11 DEF BusInv
<1> QED
  BY <1>12, <1>13

LEMMA InterconnectDoneStep ==
  ASSUME WInv, InterconnectDone
  PROVE  [Next]_vars /\ BusInv'
<1> USE Processes, Channels, Ends, Wires
<1> DEFINE in == Received(masterAgentToBus, from_master)
           got == get(wires, masterAgentToBus)
<1>1. IInv /\ BusInv /\ Shapes /\ CallPlaces /\ Contents /\ NoStaleAck /\ MasterSide
  BY DEF WInv, BusInv
<1>2. /\ At(interconnect, "done") /\ insert_state(interconnect)
      /\ UNCHANGED << wb_in, slave_number, agent_to_bus_resp, served >>
      /\ from_master' = in
      /\ to_master' = IF Quiet(in) THEN NoSlave ELSE to_master
      /\ wires' = set(got, busToMasterAgent, to_master')
      /\ IF Quiet(in) THEN pc' = [pc EXCEPT ![interconnect] = "idle"] ELSE UNCHANGED pc
  BY DEF InterconnectDone, Goto
<1>3. /\ I = "done" /\ I' = IF Quiet(in) THEN "idle" ELSE "done"
      /\ current = interconnect
      /\ M' = M /\ \A s \in Slave : S(s)' = S(s)
      /\ DOMAIN pc' = Proc
  BY <1>1, <1>2, OwnCode DEF M, I, S, Shapes
<1>4. [Next]_vars /\ Monotone /\ interconnect \in delta' /\ UNCHANGED channel
  BY <1>1, <1>2, PauseStep
<1>5. asked' = asked /\ CallPlaces' /\ Contents'
  <2>1. asked' = asked
    BY <1>4, WiresOnly
  <2> QED
    BY <1>1, <1>3, <1>4, <2>1 DEF CallPlaces, Contents, channel
<1>6. /\ WiresShape(got)
      /\ got[masterAgentToBus] = [shared_data |-> FromMaster.shared_data, available_data |-> FALSE]
      /\ \A c \in Shared \ {masterAgentToBus} : got[c] = wires[c]
  BY <1>1, GetWire DEF Shapes, FromMaster
<1>7. /\ WiresShape(wires')
      /\ wires'[busToMasterAgent] = [shared_data |-> to_master', available_data |-> TRUE]
      /\ \A c \in Shared \ {busToMasterAgent} : wires'[c] = got[c]
  BY <1>2, <1>6, SetWire
<1>8. MasterShape(in)
  BY <1>1 DEF Shapes, Received, FromMaster
<1>9. Answered \/ Nobodys \/ Over
  BY <1>1, <1>3 DEF MasterSide, NoRequest, NotSeen, Passed, Answered, Nobodys,
                    Withdrawn, Over, OverSeen
<1>10. IF Nobodys THEN in = Drive(asked) ELSE in = NoMaster
  BY <1>9 DEF Answered, Nobodys, Over, Received, FromMaster
<1>11. Quiet(in) = ~ Nobodys
  BY <1>10 DEF Quiet, Drive, NoMaster
<1> HIDE DEF in, got
<1>12. /\ FromMaster' = [shared_data |-> FromMaster.shared_data, available_data |-> FALSE]
       /\ ToMaster' = [shared_data |-> to_master', available_data |-> TRUE]
       /\ \A s \in Slave : ToSlave(s)' = ToSlave(s) /\ FromSlave(s)' = FromSlave(s)
  BY <1>6, <1>7 DEF FromMaster, ToMaster, ToSlave, FromSlave
<1>13. Shapes'
  <2>1. SlaveShape(to_master')
    BY <1>1, <1>2, Shape DEF Shapes
  <2> QED
    BY <1>1, <1>2, <1>3, <1>7, <1>8, <1>12, <2>1 DEF Shapes
<1>14. MasterSide'
  <2>1. Heard' = to_master'
    BY <1>12 DEF Heard, Received, ToMaster
  <2>2. ~ NoSlave.ack
    BY DEF NoSlave
  <2>3. CASE Nobodys
    <3>1. to_master' = to_master /\ I' = I /\ in = from_master
      BY <1>2, <1>3, <1>10, <1>11, <2>3 DEF Nobodys
    <3>2. Nobodys'
      BY <1>2, <1>3, <1>5, <1>12, <2>1, <2>3, <3>1 DEF Nobodys
    <3> QED
      BY <3>2 DEF MasterSide
  <2>4. CASE ~ Nobodys
    <3>1. to_master' = NoSlave /\ I' = "idle" /\ from_master' = NoMaster
      BY <1>2, <1>3, <1>10, <1>11, <2>4
    <3>2. CASE Answered
      <4>1. served = << served[1] >>
        BY <3>2 DEF Answered, ServedBy
      <4>2. Withdrawn'
        BY <1>2, <1>3, <1>12, <2>1, <2>2, <3>1, <3>2, <4>1 DEF Answered, Withdrawn, Unanswered
      <4> QED
        BY <4>2 DEF MasterSide
    <3>3. CASE Over
      <4>1. OverSeen'
        BY <1>2, <1>3, <1>12, <2>1, <2>2, <3>1, <3>3 DEF Over, OverSeen, Unanswered
      <4> QED
        BY <4>1 DEF MasterSide
    <3> QED
      BY <1>9, <2>4, <3>2, <3>3
  <2> QED
    BY <2>3, <2>4
<1>15. NoStaleAck'
  BY <1>2, <1>3 DEF NoStaleAck, NoSlave
<1>16. ASSUME NEW s \in Slave PROVE SlaveSide(s)' /\ Timely(s)'
  <2>1. (AtRest(s) \/ Left(s)) /\ Timely(s)
    BY <1>1, <1>3 DEF BusInv, SlaveSide, Signalled, Requested, Replied, Selected
  <2>2. interconnect \notin delta
    BY <1>1, <1>3 DEF IInv, OnePlace, Place
  <2>3. AtRest(s)' \/ Left(s)'
    BY <1>2, <1>3, <1>12, <2>1 DEF AtRest, Left, NoAck
  <2>4. AtRest(s) => Timely(s)'
    BY <1>3 DEF AtRest, Timely
  <2>5. ASSUME Left(s) PROVE Timely(s)'
    <3>1. slaveAgent(s) \in runnable
      BY <1>3, <2>1, <2>2, <2>5 DEF Left, Timely, Polls
    <3> QED
      BY <1>4, <3>1 DEF Timely, Polls, Monotone
  <2> QED
    BY <2>1, <2>3, <2>4, <2>5 DEF SlaveSide
<1> QED
  BY <1>4, <1>5, <1>13, <1>14, <1>15, <1>16 DEF BusInv

-----------------------------------------------------------------------------
(* The agents of the slaves. *)

LEMMA SlaveStartStep ==
  ASSUME WInv, NEW n \in Slave, SlaveStart(n)
  PROVE  [Next]_vars /\ BusInv'
<1> USE Processes, Channels, Ends, Wires
<1>1. IInv /\ BusInv /\ Shapes /\ CallPlaces /\ Contents /\ NoStaleAck /\ MasterSide
  BY DEF WInv, BusInv
<1>2. /\ At(slaveAgent(n), "start") /\ insert_state(slaveAgent(n))
      /\ pc' = [pc EXCEPT ![slaveAgent(n)] = "idle"]
      /\ UNCHANGED << wires, wb_in, from_master, to_master, slave_number, agent_to_bus_resp,
                      served >>
  BY DEF SlaveStart, Goto, signals, history
<1>3. /\ S(n) = "start" /\ S(n)' = "idle" /\ current = slaveAgent(n)
      /\ M' = M /\ I' = I /\ \A s \in Slave \ {n} : S(s)' = S(s)
      /\ DOMAIN pc' = Proc
  BY <1>1, <1>2, OwnCode DEF M, I, S, Shapes
<1>4. [Next]_vars /\ Monotone /\ UNCHANGED channel
  BY <1>1, <1>2, PauseStep
<1>5. asked' = asked
  BY <1>4, WiresOnly
<1>6. CallPlaces' /\ Contents'
  BY <1>1, <1>3, <1>4, <1>5 DEF CallPlaces, Contents, channel
<1>7. /\ FromMaster' = FromMaster /\ Heard' = Heard
      /\ \A s \in Slave : ToSlave(s)' = ToSlave(s) /\ FromSlave(s)' = FromSlave(s)
  BY <1>2 DEF FromMaster, Heard, Received, ToSlave, FromSlave
<1>8. Shapes'
  BY <1>1, <1>2, <1>3, <1>7 DEF Shapes, ToMaster
<1>9. MasterSide'
  BY <1>1, <1>2, <1>3, <1>5, <1>7, MasterSideFrame
<1>10. NoStaleAck'
  BY <1>1, <1>2, <1>3 DEF NoStaleAck
<1>11. SlaveSide(n)' /\ Timely(n)'
  <2>1. AtRest(n) \/ Signalled(n)
    BY <1>1, <1>3 DEF BusInv, SlaveSide, Requested, Replied, Left
  <2>2. AtRest(n)' \/ Signalled(n)'
    BY <1>2, <1>3, <1>5, <1>7, <2>1 DEF AtRest, Signalled, Selected, NoAck
  <2> QED
    BY <1>3, <2>2 DEF SlaveSide, Timely
<1>12. ASSUME NEW s \in Slave \ {n} PROVE SlaveSide(s)' /\ Timely(s)'
  BY <1>2, <1>3, <1>4, <1>5, <1>7, WiresOnly, OtherSlave
<1> QED
  BY <1>4, <1>6, <1>8, <1>9, <1>10, <1>11, <1>12 DEF BusInv

(* The slave is asked for what its wires say.                               *)
LEMMA LocalRequest ==
  ASSUME NEW n \in Slave, asked \in Request, n \in B!Addressed(asked),
         NEW in, in = LocalAddr(Drive(asked), n)
  PROVE  /\ Driven(in) /\ ~ Quiet(in)
         /\ in.we = (asked.trans_type = "SINGLE_WRITE")
         /\ [addr |-> in.addr,
             trans_type |-> IF in.we THEN "SINGLE_WRITE" ELSE "SINGLE_READ",
             data |-> IF in.we THEN in.data ELSE 0] = B!Local(n, asked)
         /\ B!Local(n, asked) \in Data
<1>1. /\ asked = [addr |-> asked.addr, trans_type |-> asked.trans_type, data |-> asked.data]
      /\ asked.addr \in Int /\ asked.trans_type \in {"SINGLE_READ", "SINGLE_WRITE"}
      /\ asked.addr \in 8 * n .. 8 * n + 7
      /\ [addr |-> asked.addr - 8 * n, trans_type |-> asked.trans_type,
          data |-> IF asked.trans_type = "SINGLE_READ" THEN 0 ELSE asked.data] \in Data
  BY MessagesAssumption DEF B!Addressed
<1>2. in = [addr |-> asked.addr - 8 * n,
            data |-> IF asked.trans_type = "SINGLE_READ" THEN 0 ELSE asked.data,
            we |-> asked.trans_type = "SINGLE_WRITE", stb |-> TRUE, cyc |-> TRUE]
  BY DEF LocalAddr, Drive
<1>3. B!Local(n, asked) =
        [addr |-> asked.addr - 8 * n, trans_type |-> asked.trans_type,
         data |-> IF asked.trans_type = "SINGLE_READ" THEN 0 ELSE asked.data]
  <2>1. ASSUME NEW a, NEW k, NEW d, NEW q, q = [addr |-> a, trans_type |-> k, data |-> d]
        PROVE  B!Local(n, q) = [addr |-> a - 8 * n, trans_type |-> k,
                                data |-> IF k = "SINGLE_READ" THEN 0 ELSE d]
    <3>1. [q EXCEPT !.addr = @ - 8 * n] = [addr |-> a - 8 * n, trans_type |-> k, data |-> d]
      BY <2>1
    <3>2. B!Local(n, q) = [[q EXCEPT !.addr = @ - 8 * n]
                             EXCEPT !.data = IF q.trans_type = "SINGLE_READ" THEN 0 ELSE @]
      BY <2>1 DEF B!Local
    <3> QED
      BY <2>1, <3>1, <3>2
  <2> QED
    BY <1>1, <2>1
<1>4. /\ in.addr = asked.addr - 8 * n /\ in.we = (asked.trans_type = "SINGLE_WRITE")
      /\ in.data = IF asked.trans_type = "SINGLE_READ" THEN 0 ELSE asked.data
      /\ in.stb = TRUE /\ in.cyc = TRUE
  BY <1>2
<1> QED
  BY <1>1, <1>3, <1>4 DEF Driven, Quiet

LEMMA SlaveIdleStep ==
  ASSUME WInv, NEW n \in Slave, SlaveIdle(n)
  PROVE  [Next]_vars /\ BusInv'
<1> USE Processes, Channels, Ends, Wires
<1> DEFINE in == Received(toSlaveAgent(n), wb_in[slaveAgent(n)])
           asks == [addr |-> in.addr,
                    trans_type |-> IF in.we THEN "SINGLE_WRITE" ELSE "SINGLE_READ",
                    data |-> IF in.we THEN in.data ELSE 0]
<1>1. IInv /\ BusInv /\ Shapes /\ CallPlaces /\ Contents /\ NoStaleAck /\ MasterSide
  BY DEF WInv, BusInv
<1>2. /\ At(slaveAgent(n), "idle")
      /\ wb_in' = [wb_in EXCEPT ![slaveAgent(n)] = in]
      /\ wires' = get(wires, toSlaveAgent(n))
      /\ UNCHANGED << from_master, to_master, slave_number, agent_to_bus_resp, served >>
      /\ \/ ~ Driven(in) /\ insert_state(slaveAgent(n)) /\ UNCHANGED pc
         \/ /\ Driven(in) /\ Write(slaveReq(n), asks)
            /\ pc' = [pc EXCEPT ![slaveAgent(n)] = "answer"]
  BY DEF SlaveIdle, Goto, history
<1>3. /\ S(n) = "idle" /\ current = slaveAgent(n)
      /\ M' = M /\ I' = I /\ \A s \in Slave \ {n} : S(s)' = S(s)
      /\ DOMAIN pc' = Proc
      /\ wr[slaveReq(n)] = "idle" /\ rd[slaveResp(n)] = "idle"
  BY <1>1, <1>2, OwnCode DEF M, I, S, Shapes
<1>4. /\ WiresShape(wires')
      /\ wires'[toSlaveAgent(n)] = [shared_data |-> wires[toSlaveAgent(n)].shared_data,
                                    available_data |-> FALSE]
      /\ \A c \in Shared \ {toSlaveAgent(n)} : wires'[c] = wires[c]
  BY <1>1, <1>2, GetWire DEF Shapes
<1>5. /\ FromMaster' = FromMaster /\ ToMaster' = ToMaster
      /\ \A s \in Slave : FromSlave(s)' = FromSlave(s)
      /\ \A s \in Slave \ {n} : ToSlave(s)' = ToSlave(s)
      /\ ToSlave(n)' = [shared_data |-> ToSlave(n).shared_data, available_data |-> FALSE]
  BY <1>4 DEF FromMaster, ToMaster, ToSlave, FromSlave
<1>6. /\ wb_in'[slaveAgent(n)] = in /\ DOMAIN wb_in' = Proc
      /\ wb_in'[masterAgent] = wb_in[masterAgent]
      /\ \A s \in Slave \ {n} : wb_in'[slaveAgent(s)] = wb_in[slaveAgent(s)]
  BY <1>1, <1>2 DEF Shapes
<1>7. Heard' = Heard
  BY <1>5, <1>6 DEF Heard, Received, ToMaster
<1>8. Shapes'
  <2>1. MasterShape(in)
    BY <1>1 DEF Shapes, Received, ToSlave
  <2> QED
    BY <1>1, <1>2, <1>3, <1>4, <1>5, <1>6, <2>1 DEF Shapes
<1>9. NoStaleAck'
  BY <1>1, <1>2, <1>3 DEF NoStaleAck
<1>10. AtRest(n) \/ Signalled(n)
  BY <1>1, <1>3 DEF BusInv, SlaveSide, Requested, Replied, Left
<1>11. IF Signalled(n) THEN in = LocalAddr(Drive(asked), n)
       ELSE in = wb_in[slaveAgent(n)] /\ ~ Driven(in)
  BY <1>10 DEF AtRest, Signalled, Received, ToSlave
<1>12. \A s \in Slave \ {n} : current # slaveAgent(s)
  BY <1>3
<1> HIDE DEF in
<1>13. CASE AtRest(n) /\ ~ Signalled(n)
  <2>1. insert_state(slaveAgent(n)) /\ UNCHANGED << pc, S(n) >>
    BY <1>2, <1>11, <1>13 DEF S
  <2>2. [Next]_vars /\ Monotone /\ UNCHANGED channel
    BY <1>1, <1>2, <2>1, PauseStep
  <2>3. asked' = asked
    BY <2>2, WiresOnly
  <2>4. CallPlaces' /\ Contents'
    BY <1>1, <1>3, <2>1, <2>2, <2>3 DEF CallPlaces, Contents, channel
  <2>5. MasterSide'
    BY <1>1, <1>2, <1>3, <1>5, <1>7, <2>3, MasterSideFrame
  <2>6. SlaveSide(n)' /\ Timely(n)'
    <3>1. AtRest(n)'
      BY <1>2, <1>3, <1>5, <1>6, <1>11, <1>13, <2>1 DEF AtRest, NoAck
    <3> QED
      BY <1>3, <2>1, <3>1 DEF SlaveSide, Timely
  <2>7. ASSUME NEW s \in Slave \ {n} PROVE SlaveSide(s)' /\ Timely(s)'
    BY <1>2, <1>3, <1>5, <1>6, <1>12, <2>2, <2>3, WiresOnly, OtherSlave
  <2> QED
    BY <1>8, <1>9, <2>2, <2>4, <2>5, <2>6, <2>7 DEF BusInv
<1>14. CASE Signalled(n)
  <2>1. I = "transmitting" /\ slave_number = n /\ in = LocalAddr(Drive(asked), n)
    BY <1>11, <1>14 DEF Signalled, Selected
  <2>2. M = "waiting" /\ n \in B!Addressed(asked) /\ asked \in Request
    BY <1>1, <2>1, PassedWaits DEF Passed, CallPlaces, Contents
  <2>3. Driven(in) /\ asks = B!Local(n, asked) /\ asks \in Data
    BY <2>1, <2>2, LocalRequest
  <2> HIDE DEF asks
  <2>4. Write(slaveReq(n), asks) /\ S(n)' = "answer"
    BY <1>1, <1>2, <2>3 DEF S, Shapes
  <2>5. /\ [Next]_vars /\ Monotone /\ OnlyChannel(slaveReq(n))
        /\ rd'[slaveReq(n)] = rd[slaveReq(n)] /\ out'[slaveReq(n)] = out[slaveReq(n)]
        /\ available_data'[slaveReq(n)] /\ shared_data'[slaveReq(n)] = asks
        /\ wr'[slaveReq(n)] = "write"
    BY <1>1, <2>3, <2>4, WriteStep
  <2>6. asked' = asked
    BY <2>5 DEF OnlyChannel, asked, agent_to_bus_req
  <2>7. CallPlaces'
    BY <1>1, <1>3, <2>4, <2>5 DEF CallPlaces, OnlyChannel
  <2>8. Contents'
    BY <1>1, <1>3, <2>5, <2>6 DEF Contents, OnlyChannel
  <2>9. MasterSide'
    BY <1>1, <1>2, <1>3, <1>5, <1>7, <2>6, MasterSideFrame
  <2>10. SlaveSide(n)' /\ Timely(n)'
    <3>1. B!Local(n, asked)' = B!Local(n, asked)
      BY <2>6
    <3>2. Requested(n)'
      BY <1>2, <1>3, <1>5, <1>6, <1>14, <2>1, <2>3, <2>4, <2>5, <2>6, <3>1
      DEF Signalled, Requested, Selected, NoAck
    <3> QED
      BY <2>4, <3>2 DEF SlaveSide, Timely
  <2>11. ASSUME NEW s \in Slave \ {n} PROVE SlaveSide(s)' /\ Timely(s)'
    <3>1. Pending(s)' = Pending(s) /\ out'[slaveResp(s)] = out[slaveResp(s)]
      BY <2>5 DEF Pending, OnlyChannel
    <3> QED
      BY <1>2, <1>3, <1>5, <1>6, <1>12, <2>5, <2>6, <3>1, OtherSlave
  <2> QED
    BY <1>8, <1>9, <2>5, <2>7, <2>8, <2>9, <2>10, <2>11 DEF BusInv
<1> QED
  BY <1>10, <1>13, <1>14

(* The slave's answer has arrived at its agent.                             *)
LEMMA SlaveServedStep ==
  ASSUME WInv, NEW n \in Slave, SlaveServed(n)
  PROVE  [Next]_vars /\ BusInv'
<1> USE Processes, Channels, Ends, Wires
<1>1. IInv /\ BusInv /\ Shapes /\ CallPlaces /\ Contents /\ NoStaleAck /\ MasterSide
  BY DEF WInv, BusInv
<1>2. /\ At(slaveAgent(n), "served") /\ insert_state(slaveAgent(n))
      /\ pc' = [pc EXCEPT ![slaveAgent(n)] = "done"]
      /\ served' = Append(served, [slave |-> n, request |-> out[slaveReq(n)],
                                   reply |-> out[slaveResp(n)]])
      /\ UNCHANGED << wires, wb_in, from_master, to_master, slave_number, agent_to_bus_resp >>
  BY DEF SlaveServed, Goto, signals
<1>3. /\ S(n) = "served" /\ S(n)' = "done" /\ current = slaveAgent(n)
      /\ M' = M /\ I' = I /\ \A s \in Slave \ {n} : S(s)' = S(s)
      /\ DOMAIN pc' = Proc
      /\ wr[slaveReq(n)] = "idle" /\ rd[slaveResp(n)] = "idle"
  BY <1>1, <1>2, OwnCode DEF M, I, S, Shapes
<1>4. [Next]_vars /\ Monotone /\ slaveAgent(n) \in delta' /\ UNCHANGED channel
  BY <1>1, <1>2, PauseStep
<1>5. asked' = asked
  BY <1>4, WiresOnly
<1>6. CallPlaces' /\ Contents'
  BY <1>1, <1>3, <1>4, <1>5 DEF CallPlaces, Contents, channel
<1>7. /\ FromMaster' = FromMaster /\ Heard' = Heard
      /\ \A s \in Slave : ToSlave(s)' = ToSlave(s) /\ FromSlave(s)' = FromSlave(s)
  BY <1>2 DEF FromMaster, Heard, Received, ToSlave, FromSlave
<1>8. Shapes'
  BY <1>1, <1>2, <1>3, <1>7 DEF Shapes, ToMaster
<1>9. Requested(n)
  BY <1>1, <1>3 DEF BusInv, SlaveSide, AtRest, Signalled, Replied, Left
<1>10. I = "transmitting" /\ slave_number = n /\ served = << >>
  BY <1>9 DEF Requested, Selected
<1>11. out[slaveReq(n)] = B!Local(n, asked)
  <2>1. ~ available_data[slaveReq(n)]
    BY <1>1, <1>3 DEF Contents
  <2> QED
    BY <1>9, <2>1 DEF Requested
<1>12. served' = ServedBy(n, out[slaveResp(n)])
  BY <1>2, <1>10, <1>11 DEF ServedBy
<1>13. MasterSide'
  BY <1>1, <1>2, <1>3, <1>5, <1>7, <1>10, MasterSideFrame
<1>14. NoStaleAck'
  BY <1>1, <1>2, <1>3 DEF NoStaleAck
<1>15. SlaveSide(n)' /\ Timely(n)'
  <2>1. ServedBy(n, out[slaveResp(n)])' = ServedBy(n, out[slaveResp(n)])
    BY <1>4, <1>5, WiresOnly DEF ServedBy
  <2>2. Replied(n)'
    BY <1>2, <1>3, <1>5, <1>7, <1>9, <1>10, <1>12, <2>1
    DEF Requested, Replied, Selected, NoAck
  <2>3. Timely(n)'
    BY <1>3, <1>4, <1>10 DEF Timely
  <2> QED
    BY <2>2, <2>3 DEF SlaveSide
<1>16. ASSUME NEW s \in Slave \ {n} PROVE SlaveSide(s)' /\ Timely(s)'
  <2>1. AtRest(s)
    BY <1>1, <1>10
    DEF BusInv, SlaveSide, Signalled, Requested, Replied, Left, Selected
  <2>2. AtRest(s)'
    BY <1>2, <1>3, <1>7, <1>10, <2>1 DEF AtRest, NoAck
  <2>3. Timely(s)'
    BY <1>3, <2>1 DEF AtRest, Timely
  <2> QED
    BY <2>2, <2>3 DEF SlaveSide
<1> QED
  BY <1>4, <1>6, <1>8, <1>13, <1>14, <1>15, <1>16 DEF BusInv

(* The agent acknowledges until it finds the end of the request.            *)
LEMMA SlaveDoneStep ==
  ASSUME WInv, NEW n \in Slave, SlaveDone(n)
  PROVE  [Next]_vars /\ BusInv'
<1> USE Processes, Channels, Ends, Wires
<1> DEFINE in == Received(toSlaveAgent(n), wb_in[slaveAgent(n)])
           got == get(wires, toSlaveAgent(n))
           resp == out[slaveResp(n)]
           answers == IF Quiet(in) THEN NoSlave
                      ELSE [ack |-> TRUE, err |-> resp.ack # "OK",
                            data |-> IF in.we THEN 0 ELSE resp.data]
<1>1. IInv /\ BusInv /\ Shapes /\ CallPlaces /\ Contents /\ NoStaleAck /\ MasterSide
  BY DEF WInv, BusInv
<1>2. /\ At(slaveAgent(n), "done") /\ insert_state(slaveAgent(n))
      /\ wb_in' = [wb_in EXCEPT ![slaveAgent(n)] = in]
      /\ wires' = set(got, fromSlaveAgent(n), answers)
      /\ UNCHANGED << from_master, to_master, slave_number, agent_to_bus_resp, served >>
      /\ IF Quiet(in) THEN pc' = [pc EXCEPT ![slaveAgent(n)] = "idle"] ELSE UNCHANGED pc
  BY DEF SlaveDone, Goto, history
<1>3. /\ S(n) = "done" /\ S(n)' = IF Quiet(in) THEN "idle" ELSE "done"
      /\ current = slaveAgent(n)
      /\ M' = M /\ I' = I /\ \A s \in Slave \ {n} : S(s)' = S(s)
      /\ DOMAIN pc' = Proc
      /\ wr[slaveReq(n)] = "idle" /\ rd[slaveResp(n)] = "idle"
  BY <1>1, <1>2, OwnCode DEF M, I, S, Shapes
<1>4. [Next]_vars /\ Monotone /\ slaveAgent(n) \in delta' /\ UNCHANGED channel
  BY <1>1, <1>2, PauseStep
<1>5. /\ asked' = asked /\ resp' = resp
  BY <1>4, WiresOnly
<1>6. CallPlaces' /\ Contents'
  BY <1>1, <1>3, <1>4, <1>5 DEF CallPlaces, Contents, channel
<1>7. /\ WiresShape(got)
      /\ got[toSlaveAgent(n)] = [shared_data |-> ToSlave(n).shared_data, available_data |-> FALSE]
      /\ \A c \in Shared \ {toSlaveAgent(n)} : got[c] = wires[c]
  BY <1>1, GetWire DEF Shapes, ToSlave
<1> HIDE DEF answers, got
<1>8. /\ WiresShape(wires')
      /\ wires'[fromSlaveAgent(n)] = [shared_data |-> answers, available_data |-> TRUE]
      /\ \A c \in Shared \ {fromSlaveAgent(n)} : wires'[c] = got[c]
  BY <1>2, <1>7, SetWire
<1>9. /\ FromMaster' = FromMaster /\ ToMaster' = ToMaster
      /\ \A s \in Slave \ {n} : ToSlave(s)' = ToSlave(s) /\ FromSlave(s)' = FromSlave(s)
      /\ ToSlave(n)' = [shared_data |-> ToSlave(n).shared_data, available_data |-> FALSE]
      /\ FromSlave(n)' = [shared_data |-> answers, available_data |-> TRUE]
  BY <1>7, <1>8 DEF FromMaster, ToMaster, ToSlave, FromSlave
<1>10. /\ wb_in'[slaveAgent(n)] = in /\ DOMAIN wb_in' = Proc
       /\ wb_in'[masterAgent] = wb_in[masterAgent]
       /\ \A s \in Slave \ {n} : wb_in'[slaveAgent(s)] = wb_in[slaveAgent(s)]
  BY <1>1, <1>2 DEF Shapes
<1>11. Heard' = Heard
  BY <1>9, <1>10 DEF Heard, Received, ToMaster
<1>12. Shapes'
  <2>1. MasterShape(in)
    BY <1>1 DEF Shapes, Received, ToSlave
  <2>2. SlaveShape(answers)
    BY DEF answers, SlaveShape, NoSlave
  <2> QED
    BY <1>1, <1>2, <1>3, <1>8, <1>9, <1>10, <2>1, <2>2 DEF Shapes
<1>13. MasterSide'
  BY <1>1, <1>2, <1>3, <1>5, <1>9, <1>11, MasterSideFrame
<1>14. NoStaleAck'
  BY <1>1, <1>2, <1>3 DEF NoStaleAck
<1>15. SlaveSide(n)' /\ Timely(n)'
  <2>1. Replied(n) \/ Left(n)
    BY <1>1, <1>3 DEF BusInv, SlaveSide, AtRest, Signalled, Requested
  <2>2. CASE Replied(n)
    <3>1. I = "transmitting" /\ slave_number = n /\ in = LocalAddr(Drive(asked), n)
      BY <2>2 DEF Replied, Selected, Received, ToSlave
    <3>2. n \in B!Addressed(asked) /\ asked \in Request
      BY <1>1, <3>1, PassedWaits DEF Passed, CallPlaces, Contents
    <3>3. ~ Quiet(in) /\ in.we = (asked.trans_type = "SINGLE_WRITE")
      BY <3>1, <3>2, LocalRequest
    <3>4. answers = AnswerSignals(resp)
      BY <3>3 DEF answers, AnswerSignals
    <3>5. AnswerSignals(resp)' = AnswerSignals(resp) /\ ServedBy(n, resp)' = ServedBy(n, resp)
      BY <1>5 DEF AnswerSignals, ServedBy
    <3>6. FromSlave(n)'.shared_data = AnswerSignals(resp)'
      BY <1>9, <3>4, <3>5
    <3>7. Replied(n)'
      <4>1. Selected(n)' /\ S(n)' = "done" /\ ~ ToSlave(n)'.available_data
        BY <1>2, <1>3, <1>9, <2>2, <3>3 DEF Replied, Selected
      <4>2. wb_in'[slaveAgent(n)] = LocalAddr(Drive(asked), n)'
        BY <1>5, <1>10, <3>1
      <4>3. served' = ServedBy(n, resp)'
        BY <1>2, <2>2, <3>5 DEF Replied
      <4> QED
        BY <3>6, <4>1, <4>2, <4>3 DEF Replied
    <3>8. Timely(n)'
      BY <1>4, <1>9 DEF Timely
    <3> QED
      BY <3>7, <3>8 DEF SlaveSide
  <2>3. CASE Left(n)
    <3>1. in = NoMaster
      BY <2>3 DEF Left, Received, ToSlave
    <3>2. Quiet(in) /\ ~ Driven(in)
      BY <3>1 DEF Quiet, Driven, NoMaster
    <3>3. S(n)' = "idle" /\ answers = NoSlave
      BY <1>3, <3>2 DEF answers
    <3>4. ~ answers.ack
      BY <3>3 DEF NoSlave
    <3>5. AtRest(n)'
      BY <1>3, <1>9, <1>10, <2>3, <3>2, <3>3, <3>4 DEF Left, AtRest, NoAck
    <3>6. Timely(n)'
      BY <3>3 DEF Timely
    <3> QED
      BY <3>5, <3>6 DEF SlaveSide
  <2> QED
    BY <2>1, <2>2, <2>3
<1>16. ASSUME NEW s \in Slave \ {n} PROVE SlaveSide(s)' /\ Timely(s)'
  <2>1. current # slaveAgent(s) /\ S(s)' = S(s)
    BY <1>3
  <2> QED
    BY <1>2, <1>3, <1>4, <1>5, <1>9, <1>10, <2>1, WiresOnly, OtherSlave
<1> QED
  BY <1>4, <1>6, <1>12, <1>13, <1>14, <1>15, <1>16 DEF BusInv

-----------------------------------------------------------------------------
(* The scheduler moves everybody who waits for the delta cycle at once.     *)
LEMMA ScheduleStep ==
  ASSUME WInv, Schedule, UNCHANGED << pc, signals, history >>
  PROVE  [Next]_vars /\ BusInv'
<1> USE Processes
<1>1. IInv /\ BusInv /\ Shapes /\ CallPlaces /\ Contents /\ NoStaleAck /\ MasterSide
  BY DEF WInv, BusInv
<1>2. /\ UNCHANGED << wires, wb_in, from_master, to_master, slave_number, agent_to_bus_resp,
                      served, M, I >>
      /\ DOMAIN pc' = Proc /\ \A s \in Slave : S(s)' = S(s)
  BY <1>1 DEF signals, history, M, I, S, Shapes
<1>3. [Next]_vars /\ UNCHANGED channel
  BY DEF Next, Schedule
<1>4. asked' = asked
  BY <1>3, WiresOnly
<1>5. CallPlaces' /\ Contents'
  BY <1>1, <1>2, <1>3, <1>4 DEF CallPlaces, Contents, channel
<1>6. /\ FromMaster' = FromMaster /\ ToMaster' = ToMaster /\ Heard' = Heard
      /\ \A s \in Slave : ToSlave(s)' = ToSlave(s) /\ FromSlave(s)' = FromSlave(s)
  BY <1>2 DEF FromMaster, ToMaster, Heard, Received, ToSlave, FromSlave
<1>7. Shapes'
  BY <1>1, <1>2, <1>6 DEF Shapes
<1>8. MasterSide'
  BY <1>1, <1>2, <1>4, <1>6, MasterSideFrame
<1>9. NoStaleAck'
  BY <1>1, <1>2 DEF NoStaleAck
<1>10. ASSUME NEW s \in Slave PROVE SlaveSide(s)' /\ Timely(s)'
  <2>1. SlaveSide(s) /\ Timely(s)
    BY <1>1 DEF BusInv
  <2>2. Pending(s)' = Pending(s) /\ out'[slaveResp(s)] = out[slaveResp(s)]
    BY <1>3, WiresOnly
  <2>3. SlaveSide(s)'
    BY <1>2, <1>4, <1>6, <2>1, <2>2, SlaveSideFrame
  <2>4. CASE DeltaCycle
    <3>1. /\ ~ Polls(slaveAgent(s))
          /\ slaveAgent(s) \in delta => Polls(slaveAgent(s))'
      BY <2>4, NoProcAssumption DEF DeltaCycle, Polls
    <3>2. Timely(s)'
      BY <1>2, <1>6, <2>1, <3>1 DEF Timely
    <3> QED
      BY <2>3, <3>2
  <2>5. ASSUME NEW p \in Proc, Dispatch(p) PROVE SlaveSide(s)' /\ Timely(s)'
    <3>1. /\ Polls(slaveAgent(s)) => Polls(slaveAgent(s))'
          /\ delta' = delta
      BY <2>5, NoProcAssumption DEF Dispatch, Polls
    <3>2. Timely(s)'
      BY <1>2, <1>6, <2>1, <3>1 DEF Timely
    <3> QED
      BY <2>3, <3>2
  <2> QED
    BY <2>4, <2>5 DEF Schedule
<1> QED
  BY <1>3, <1>5, <1>7, <1>8, <1>9, <1>10 DEF BusInv

-----------------------------------------------------------------------------
(* Nothing on the wires, nobody in a call. *)
LEMMA InitWInv == HarmlessLeftOvers /\ WishboneInit => WInv
<1> USE Processes, Channels, Wires
<1> SUFFICES ASSUME HarmlessLeftOvers, WishboneInit PROVE WInv
  OBVIOUS
<1>1. IInv
  BY InitIInv DEF WishboneInit
<1>2. /\ DOMAIN pc = Proc /\ M = "start" /\ I = "start" /\ \A s \in Slave : S(s) = "start"
  BY DEF WishboneInit, M, I, S
<1>3. /\ \A c \in Chan : ~ available_data[c] /\ rd[c] = "idle" /\ wr[c] = "idle"
  BY DEF WishboneInit, Init, ChannelInit
<1>4. PICK r \in Reply : /\ \A c \in Chan : shared_data[c] = r /\ out[c] = r
                         /\ agent_to_bus_resp = r
  <2>1. [ack |-> "OK", data |-> 0] \in Reply
    BY MessagesAssumption
  <2>2. (CHOOSE v \in Reply : TRUE) \in Reply
    BY <2>1
  <2> QED
    BY <2>2 DEF WishboneInit
<1>5. PICK m \in FirstMaster, t \in FirstSlave :
        wb_in = [p \in Proc |-> IF p = masterAgent THEN t ELSE m]
  BY DEF WishboneInit
<1>6. /\ DOMAIN wb_in = Proc /\ SlaveShape(wb_in[masterAgent]) /\ ~ wb_in[masterAgent].ack
      /\ \A s \in Slave : /\ MasterShape(wb_in[slaveAgent(s)])
                          /\ ~ Driven(wb_in[slaveAgent(s)])
  BY <1>5 DEF HarmlessLeftOvers
<1>7. /\ MasterShape(from_master) /\ ~ Driven(from_master)
      /\ SlaveShape(to_master) /\ ~ to_master.ack
  BY DEF WishboneInit, HarmlessLeftOvers
<1>8. /\ WiresShape(wires)
      /\ FromMaster = [shared_data |-> NoMaster, available_data |-> FALSE]
      /\ ToMaster = [shared_data |-> NoSlave, available_data |-> FALSE]
      /\ \A s \in Slave : /\ ToSlave(s) = [shared_data |-> NoMaster, available_data |-> FALSE]
                          /\ FromSlave(s) = [shared_data |-> NoSlave, available_data |-> FALSE]
  <2> DEFINE first(c) == IF c[1] \in {"bus to master agent", "from slave agent"}
                         THEN NoSlave ELSE NoMaster
  <2>1. wires = [c \in Shared |-> [shared_data |-> first(c), available_data |-> FALSE]]
    BY DEF WishboneInit, SharedInit
  <2>2. /\ first(masterAgentToBus) = NoMaster /\ first(busToMasterAgent) = NoSlave
        /\ \A s \in Slave : first(toSlaveAgent(s)) = NoMaster /\ first(fromSlaveAgent(s)) = NoSlave
    BY DEF masterAgentToBus, busToMasterAgent, toSlaveAgent, fromSlaveAgent
  <2> HIDE DEF first
  <2>3. WiresShape(wires)
    BY <2>1 DEF WiresShape, WireShape
  <2> QED
    BY <2>1, <2>2, <2>3 DEF FromMaster, ToMaster, ToSlave, FromSlave
<1>9. Shapes
  <2>1. slave_number \in Slave
    <3>1. slave_number = 0
      BY DEF WishboneInit
    <3> QED
      BY <3>1, WishboneAssumption DEF Slave
  <2> QED
    BY <1>2, <1>4, <1>6, <1>7, <1>8, <2>1, Shape DEF Shapes
<1>10. CallPlaces /\ Contents
  BY <1>2, <1>3, <1>4 DEF CallPlaces, Contents
<1>11. MasterSide /\ NoStaleAck
  <2>1. Unanswered
    BY <1>6, <1>8 DEF Unanswered, Heard, Received, ToMaster
  <2>2. served = << >>
    BY DEF WishboneInit
  <2> QED
    BY <1>2, <1>7, <1>8, <2>1, <2>2 DEF MasterSide, NoRequest, NoStaleAck
<1>12. \A s \in Slave : SlaveSide(s) /\ Timely(s)
  BY <1>2, <1>6, <1>8 DEF SlaveSide, AtRest, NoAck, Timely
<1> QED
  BY <1>1, <1>9, <1>10, <1>11, <1>12 DEF WInv, BusInv

(* Each step of the bus is one of the blocking channel's or none.           *)
LEMMA NextWInv == WInv /\ [WishboneNext]_wvars => [Next]_vars /\ WInv'
<1> SUFFICES ASSUME WInv, [WishboneNext]_wvars PROVE [Next]_vars /\ BusInv'
  BY NextIInv DEF WInv
<1>1. CASE WishboneNext
  BY <1>1, ScheduleStep, ResumeSteps, MasterDummySteps, MasterIdleStep, MasterSendStep,
     MasterWaitingStep, MasterDoneStep, InterconnectStartStep, InterconnectIdleStep,
     InterconnectTransmittingStep, InterconnectDoneStep, SlaveDummySteps, SlaveStartStep,
     SlaveIdleStep, SlaveAnswerStep, SlaveServedStep, SlaveDoneStep
  DEF WishboneNext
<1>2. CASE UNCHANGED wvars
  <2>1. /\ UNCHANGED << wires, wb_in, from_master, to_master, slave_number,
                        agent_to_bus_resp, served, M, I, current, runnable, delta >>
        /\ pc' = pc /\ \A s \in Slave : S(s)' = S(s)
        /\ UNCHANGED channel
    BY <1>2 DEF wvars, signals, history, vars, kernel, M, I, S
  <2>2. /\ BusInv /\ Shapes /\ CallPlaces /\ Contents /\ MasterSide /\ NoStaleAck
        /\ [Next]_vars
    BY <1>2 DEF WInv, BusInv, wvars
  <2>3. asked' = asked
    BY <2>1, WiresOnly
  <2>4. CallPlaces' /\ Contents'
    BY <2>1, <2>2, <2>3 DEF CallPlaces, Contents, channel
  <2>5. /\ FromMaster' = FromMaster /\ ToMaster' = ToMaster /\ Heard' = Heard
        /\ \A s \in Slave : ToSlave(s)' = ToSlave(s) /\ FromSlave(s)' = FromSlave(s)
    BY <2>1 DEF FromMaster, ToMaster, Heard, Received, ToSlave, FromSlave
  <2>6. Shapes'
    BY <2>1, <2>2, <2>5 DEF Shapes
  <2>7. MasterSide' /\ NoStaleAck'
    BY <2>1, <2>2, <2>3, <2>5, MasterSideFrame DEF NoStaleAck
  <2>8. ASSUME NEW s \in Slave PROVE SlaveSide(s)' /\ Timely(s)'
    <3>1. SlaveSide(s) /\ Timely(s)
      BY <2>2 DEF BusInv
    <3>2. SlaveSide(s)'
      BY <2>1, <2>3, <2>5, <3>1, WiresOnly, SlaveSideFrame
    <3>3. Timely(s)'
      BY <2>1, <2>5, <3>1 DEF Timely, Polls
    <3> QED
      BY <3>2, <3>3
  <2> QED
    BY <2>2, <2>4, <2>6, <2>7, <2>8 DEF BusInv
<1> QED
  BY <1>1, <1>2

-----------------------------------------------------------------------------
(* The invariant of the bus: of every request it says where it is, what the *)
(* wires hold and who has still to look at them.                            *)
THEOREM BusInvariance == HarmlessLeftOvers => (WishboneSpec => []WInv)
<1> SUFFICES ASSUME HarmlessLeftOvers PROVE WishboneSpec => []WInv
  OBVIOUS
<1>1. WishboneInit => WInv
  BY InitWInv
<1>2. WInv /\ [WishboneNext]_wvars => WInv'
  BY NextWInv
<1> QED
  BY <1>1, <1>2, PTL DEF WishboneSpec

(* The members of the agents and the interconnect have their types, and no  *)
(* request is served twice.                                                 *)
THEOREM BusTypes == HarmlessLeftOvers => (WishboneSpec => []WishboneTypeOK)
<1>1. WInv => WishboneTypeOK
  <2> SUFFICES ASSUME WInv PROVE WishboneTypeOK
    OBVIOUS
  <2>1. TypeOK /\ Shapes /\ MasterSide
    BY DEF WInv, IInv, BusInv
  <2>2. \A c \in Shared : wires[c].available_data \in BOOLEAN
    BY <2>1 DEF Shapes, WiresShape, WireShape
  <2>3. Len(served) <= 1
    <3>1. CASE Passed
      <4>1. SlaveSide(slave_number)
        BY <2>1 DEF WInv, BusInv, Shapes
      <4>2. served = << >> \/ served = ServedBy(slave_number, out[slaveResp(slave_number)])
        BY <3>1, <4>1 DEF SlaveSide, Passed, AtRest, Signalled, Requested, Replied, Left
      <4> QED
        BY <4>2 DEF ServedBy
    <3>2. CASE ~ Passed
      <4>1. served = << >> \/ served = ServedBy(slave_number, served[1].reply)
              \/ served = << served[1] >>
        BY <2>1, <3>2 DEF MasterSide, NoRequest, NotSeen, Answered, Nobodys, Withdrawn, Over,
                          OverSeen
      <4> QED
        BY <4>1 DEF ServedBy
    <3> QED
      BY <3>1, <3>2
  <2> QED
    BY <2>1, <2>2, <2>3 DEF WishboneTypeOK, Shapes, MasterShape, SlaveShape
<1> QED
  BY <1>1, BusInvariance, PTL

-----------------------------------------------------------------------------
(* What the bus shows to its user: the request it waits for an answer to.   *)
asking == IF M = "waiting" THEN << asked >> ELSE << >>

(* A step in which nothing is asked, served or answered.                    *)
LEMMA BusStutters ==
  ASSUME M' = "waiting" <=> M = "waiting", M = "waiting" => asked' = asked,
         served' = served, agent_to_bus_resp' = agent_to_bus_resp
  PROVE  UNCHANGED << asking, served, agent_to_bus_resp >>
BY DEF asking

LEMMA AgentsStutter ==
  ASSUME WInv,
         \/ MasterIdle \/ MasterDone
         \/ \E s \in Slave : SlaveIdle(s) \/ SlaveAnswer(s)
  PROVE  UNCHANGED << asking, served, agent_to_bus_resp >>
<1> USE Processes, Channels
<1>1. IInv /\ Shapes
  BY DEF WInv, BusInv
<1>2. CASE MasterIdle
  <2>1. /\ pc[masterAgent] = "start" /\ pc' = [pc EXCEPT ![masterAgent] = "send"]
        /\ UNCHANGED << served, agent_to_bus_resp >>
    BY <1>2 DEF MasterIdle, At, Goto, signals, history
  <2>2. M # "waiting" /\ M' # "waiting"
    BY <1>1, <2>1 DEF M, Shapes
  <2> QED
    BY <2>1, <2>2, BusStutters
<1>3. CASE MasterDone
  <2>1. /\ pc[masterAgent] = "done"
        /\ pc' = [pc EXCEPT ![masterAgent] = "start"] \/ pc' = pc
        /\ UNCHANGED << served, agent_to_bus_resp >>
    BY <1>3 DEF MasterDone, At, Goto, history
  <2>2. M # "waiting" /\ M' # "waiting"
    BY <1>1, <2>1 DEF M, Shapes
  <2> QED
    BY <2>1, <2>2, BusStutters
<1>4. ASSUME NEW s \in Slave, SlaveAnswer(s) PROVE UNCHANGED << asking, served, agent_to_bus_resp >>
  <2>1. /\ Read(slaveResp(s)) /\ pc' = [pc EXCEPT ![slaveAgent(s)] = "served"]
        /\ UNCHANGED << served, agent_to_bus_resp >>
    BY <1>4 DEF SlaveAnswer, Goto, signals, history
  <2>2. OnlyChannel(slaveResp(s))
    BY <1>1, <2>1, ReadStep
  <2>3. M' = M /\ asked' = asked
    BY <1>1, <2>1, <2>2 DEF M, asked, agent_to_bus_req, OnlyChannel, Shapes
  <2> QED
    BY <2>1, <2>3, BusStutters
<1>5. ASSUME NEW s \in Slave, SlaveIdle(s) PROVE UNCHANGED << asking, served, agent_to_bus_resp >>
  <2>1. /\ \E l : pc' = [pc EXCEPT ![slaveAgent(s)] = l] \/ pc' = pc
        /\ UNCHANGED << served, agent_to_bus_resp >>
        /\ UNCHANGED channel \/ \E v : Write(slaveReq(s), v)
    BY <1>5 DEF SlaveIdle, Goto, history, insert_state
  <2>2. M' = M /\ asked' = asked
    BY <1>1, <2>1 DEF M, Shapes, asked, agent_to_bus_req, Write, Offer, channel
  <2> QED
    BY <2>1, <2>2, BusStutters
<1> QED
  BY <1>2, <1>3, <1>4, <1>5

LEMMA OthersStutter ==
  ASSUME WInv,
         \/ Schedule /\ UNCHANGED << pc, signals, history >>
         \/ Resume \/ MasterDummyWrite \/ MasterDummyRead
         \/ InterconnectStart \/ InterconnectIdle \/ InterconnectTransmitting \/ InterconnectDone
         \/ \E s \in Slave : SlaveDummyRead(s) \/ SlaveDummyWrite(s) \/ SlaveStart(s) \/ SlaveDone(s)
  PROVE  UNCHANGED << asking, served, agent_to_bus_resp >>
<1> USE Processes, Channels
<1>1. IInv /\ Shapes /\ CallPlaces
  BY DEF WInv, BusInv
<1>2. UNCHANGED << served, agent_to_bus_resp >>
  BY DEF Resume, MasterDummyWrite, MasterDummyRead, InterconnectStart, InterconnectIdle,
         InterconnectTransmitting, InterconnectDone, SlaveDummyRead, SlaveDummyWrite,
         SlaveStart, SlaveDone, signals, history
<1>3. \/ UNCHANGED channel
      \/ Resume \/ \E v : Write(masterReq, v)
      \/ Read(masterResp)
      \/ \E s \in Slave : Read(slaveReq(s)) \/ \E v : Write(slaveResp(s), v)
  BY DEF Schedule, MasterDummyWrite, MasterDummyRead, InterconnectStart, InterconnectIdle,
         InterconnectTransmitting, InterconnectDone, SlaveDummyRead, SlaveDummyWrite,
         SlaveStart, SlaveDone, insert_state
<1>4. M = "waiting" => asked' = asked
  <2>1. CASE UNCHANGED channel
    BY <2>1, WiresOnly
  <2>2. CASE Resume
    <3>1. PICK c \in Chan : /\ OnlyChannel(c)
                            /\ rd[c] = "read" \/ out'[c] = out[c]
      BY <1>1, <2>2, ResumeStep
    <3> QED
      BY <1>1, <3>1 DEF CallPlaces, OnlyChannel, asked, agent_to_bus_req
  <2>3. ASSUME NEW c, NEW v, Write(c, v) PROVE asked' = asked
    BY <2>3 DEF Write, Offer, asked, agent_to_bus_req
  <2>4. ASSUME NEW c \in Chan \ {masterReq}, Read(c) PROVE asked' = asked
    BY <1>1, <2>4, ReadStep DEF OnlyChannel, asked, agent_to_bus_req
  <2> QED
    BY <1>3, <2>1, <2>2, <2>3, <2>4
<1>5. M' = M
  <2>1. PICK p \in Proc \ {masterAgent} : \E l : pc' = [pc EXCEPT ![p] = l] \/ pc' = pc
    BY DEF Resume, MasterDummyWrite, MasterDummyRead, InterconnectStart, InterconnectIdle,
           InterconnectTransmitting, InterconnectDone, SlaveDummyRead, SlaveDummyWrite,
           SlaveStart, SlaveDone, Goto
  <2> QED
    BY <1>1, <2>1 DEF M, Shapes
<1> QED
  BY <1>2, <1>4, <1>5, BusStutters

(* The agent puts a request on the wires. *)
LEMMA SendAsks ==
  ASSUME WInv, MasterSend
  PROVE  \E q \in Request : B!Ask(q)
<1> USE Processes
<1>1. Shapes /\ CallPlaces /\ Contents /\ MasterSide /\ IInv
  BY DEF WInv, BusInv
<1>2. /\ At(masterAgent, "send") /\ insert_state(masterAgent)
      /\ pc' = [pc EXCEPT ![masterAgent] = "waiting"]
      /\ UNCHANGED << served, agent_to_bus_resp >>
  BY DEF MasterSend, Goto, history
<1>3. M = "send" /\ M' = "waiting" /\ rd[masterReq] = "idle"
  BY <1>1, <1>2, OwnCode, Ends, Channels DEF M, Shapes
<1>4. asked' = asked
  BY <1>2, WiresOnly DEF insert_state
<1>5. asked \in Request
  BY <1>1, <1>3 DEF Contents
<1>6. asking = << >> /\ asking' = << asked >>
  BY <1>3, <1>4 DEF asking
<1>7. B!Ask(asked)
  BY <1>2, <1>6 DEF B!Ask, asking, M, asked
<1> QED
  BY <1>5, <1>7

(* The agent of the addressed slave got the answer to the request.          *)
LEMMA ServedServes ==
  ASSUME WInv, NEW n \in Slave, SlaveServed(n)
  PROVE  \E s \in Slave, reply \in Reply : B!Serve(s, reply)
<1> USE Processes, Channels, Ends
<1>1. Shapes /\ Contents /\ MasterSide /\ SlaveSide(n)
  BY DEF WInv, BusInv
<1>2. /\ At(slaveAgent(n), "served") /\ insert_state(slaveAgent(n))
      /\ pc' = [pc EXCEPT ![slaveAgent(n)] = "done"]
      /\ served' = Append(served, [slave |-> n, request |-> out[slaveReq(n)],
                                   reply |-> out[slaveResp(n)]])
      /\ agent_to_bus_resp' = agent_to_bus_resp
  BY DEF SlaveServed, Goto, signals
<1>3. S(n) = "served" /\ M' = M /\ wr[slaveReq(n)] = "idle"
  BY <1>1, <1>2, OwnCode DEF M, S, Shapes
<1>4. Requested(n) /\ I = "transmitting" /\ slave_number = n /\ served = << >>
  BY <1>1, <1>3 DEF SlaveSide, AtRest, Signalled, Requested, Replied, Left, Selected
<1>5. out[slaveReq(n)] = B!Local(n, asked)
  BY <1>1, <1>3, <1>4 DEF Contents, Requested
<1>6. M = "waiting" /\ n \in B!Addressed(asked)
  BY <1>1, <1>4, PassedWaits DEF Passed
<1>7. asked' = asked
  BY <1>2, WiresOnly DEF insert_state
<1>8. asking = << asked >> /\ asking' = << asked >>
  BY <1>3, <1>6, <1>7 DEF asking
<1>9. served' = ServedBy(n, out[slaveResp(n)]) /\ out[slaveResp(n)] \in Reply
  BY <1>1, <1>2, <1>4, <1>5 DEF ServedBy, Contents
<1>10. B!Serve(n, out[slaveResp(n)])
  <2>1. asking[1] = asked /\ asking # << >> /\ asking' = asking
    BY <1>8
  <2> QED
    BY <1>2, <1>4, <1>6, <1>9, <2>1 DEF B!Serve, asking, M, asked, ServedBy
<1> QED
  BY <1>9, <1>10

(* The agent finds the acknowledgement. *)
LEMMA WaitingAnswers ==
  ASSUME WInv, MasterWaiting
  PROVE  B!Answer \/ UNCHANGED << asking, served, agent_to_bus_resp >>
<1> USE Processes
<1>1. Shapes /\ CallPlaces /\ Contents /\ MasterSide
  BY DEF WInv, BusInv
<1>2. /\ At(masterAgent, "waiting") /\ insert_state(masterAgent)
      /\ \/ /\ Unanswered
            /\ UNCHANGED << pc, agent_to_bus_resp, served >>
         \/ /\ ~ Unanswered
            /\ agent_to_bus_resp' =
                 [ack |-> IF Heard.err THEN "ERR" ELSE "OK",
                  data |-> IF asked.trans_type = "SINGLE_READ" THEN Heard.data
                           ELSE agent_to_bus_resp.data]
            /\ served' = << >>
            /\ pc' = [pc EXCEPT ![masterAgent] = "done"]
  BY DEF MasterWaiting, Goto, asked, Heard, Unanswered
<1>3. M = "waiting" /\ rd[masterReq] = "idle"
  BY <1>1, <1>2, OwnCode, Ends, Channels DEF M, Shapes
<1>4. asked' = asked
  BY <1>2, WiresOnly DEF insert_state
<1>5. CASE Unanswered
  BY <1>2, <1>4, <1>5, BusStutters DEF M
<1>6. CASE ~ Unanswered
  <2>1. /\ M' = "done" /\ served' = << >>
        /\ agent_to_bus_resp' =
                 [ack |-> IF Heard.err THEN "ERR" ELSE "OK",
                  data |-> IF asked.trans_type = "SINGLE_READ" THEN Heard.data
                           ELSE agent_to_bus_resp.data]
    BY <1>1, <1>2, <1>6 DEF M, Shapes
  <2>2. asking = << asked >> /\ asking[1] = asked /\ asking # << >> /\ asking' = << >>
    BY <1>3, <2>1 DEF asking
  <2>3. asked \in Request /\ asked.trans_type \in {"SINGLE_READ", "SINGLE_WRITE"}
    BY <1>1, <1>3, MessagesAssumption DEF Contents
  <2>4. Answered \/ Nobodys
    BY <1>1, <1>3, <1>6 DEF MasterSide, NoRequest, NotSeen, Passed, Withdrawn, Over, OverSeen
  <2>5. /\ served = << >> => B!Addressed(asked) = {}
        /\ Heard.err = ~ (served = << >> \/ served[1].reply.ack = "OK")
        /\ asked.trans_type = "SINGLE_READ" =>
             Heard.data = IF served = << >> THEN 0 ELSE served[1].reply.data
    <3>1. CASE Nobodys
      BY <3>1 DEF Nobodys, NobodysAnswer
    <3>2. CASE Answered
      <4>1. served # << >>
        <5>1. PICK r : served = ServedBy(slave_number, r)
          BY <3>2 DEF Answered
        <5> QED
          BY <5>1 DEF ServedBy
      <4>2. Heard = AnswerSignals(served[1].reply)
        BY <3>2 DEF Answered
      <4> QED
        BY <4>1, <4>2 DEF AnswerSignals
    <3> QED
      BY <2>4, <3>1, <3>2
  <2>6. agent_to_bus_resp' =
          [ack |-> IF served = << >> \/ served[1].reply.ack = "OK" THEN "OK" ELSE "ERR",
           data |-> IF asked.trans_type = "SINGLE_WRITE" THEN agent_to_bus_resp.data
                    ELSE IF served = << >> THEN 0 ELSE served[1].reply.data]
    BY <2>1, <2>3, <2>5
  <2>7. B!Answer
    BY <2>1, <2>2, <2>5, <2>6 DEF B!Answer, asking, M, asked
  <2> QED
    BY <2>7
<1> QED
  BY <1>5, <1>6

LEMMA BusMaps ==
  ASSUME WInv, [WishboneNext]_wvars
  PROVE  [B!Next]_(B!vars)
<1>1. UNCHANGED << asking, served, agent_to_bus_resp >> => UNCHANGED B!vars
  BY DEF B!vars, asking, M, asked
<1>2. CASE WishboneNext
  <2>1. \/ UNCHANGED << asking, served, agent_to_bus_resp >>
        \/ B!Answer
        \/ \E q \in Request : B!Ask(q)
        \/ \E s \in Slave, reply \in Reply : B!Serve(s, reply)
    BY <1>2, AgentsStutter, OthersStutter, SendAsks, ServedServes, WaitingAnswers
    DEF WishboneNext
  <2> QED
    BY <1>1, <2>1 DEF B!Next
<1>3. CASE UNCHANGED wvars
  <2>1. UNCHANGED << M, asked, served, agent_to_bus_resp >>
    BY <1>3 DEF wvars, vars, channel, history, signals, M, asked, agent_to_bus_req
  <2> QED
    BY <1>1, <2>1, BusStutters
<1> QED
  BY <1>2, <1>3

(* Through two agents, two kinds of channels and the polling between them a *)
(* request reaches the slave it addresses, once, and its answer is that     *)
(* slave's.                                                                 *)
THEOREM BusImplemented == HarmlessLeftOvers => (WishboneSpec => ImplementsBus)
<1> SUFFICES ASSUME HarmlessLeftOvers PROVE WishboneSpec => ImplementsBus
  OBVIOUS
<1>1. WishboneInit => B!Init
  <2> SUFFICES ASSUME WishboneInit PROVE B!Init
    OBVIOUS
  <2>1. WInv /\ M = "start" /\ served = << >>
    BY InitWInv, Processes DEF WishboneInit, M
  <2> QED
    BY <2>1 DEF B!Init, WInv, BusInv, Shapes, M
<1>2. WInv /\ [WishboneNext]_wvars => [B!Next]_(B!vars)
  BY BusMaps
<1> QED
  BY <1>1, <1>2, BusInvariance, PTL DEF WishboneSpec, ImplementsBus, B!Spec

-----------------------------------------------------------------------------
(* A wire is left alone, was empty or is empty then: nothing is overwritten. *)
Kept(c) == wires'[c] = wires[c] \/ ~ wires[c].available_data \/ ~ wires'[c].available_data

LEMMA AgentsKeep ==
  ASSUME WInv, WishboneNext
  PROVE  \A c \in {masterAgentToBus} \cup {toSlaveAgent(s) : s \in Slave} : Kept(c)
<1> SUFFICES ASSUME NEW c \in Shared, c # busToMasterAgent, \A s \in Slave : c # fromSlaveAgent(s),
                    wires[c].available_data
             PROVE  wires'[c] = wires[c] \/ ~ wires'[c].available_data
  BY Wires DEF Kept
<1>1. IInv /\ BusInv /\ Shapes /\ MasterSide /\ NoStaleAck
  BY DEF WInv, BusInv
<1> DEFINE Keeps(w) == WiresShape(w) /\ (w[c] = wires[c] \/ ~ w[c].available_data)
<1>2. /\ Keeps(wires)
      /\ \A w : \A d \in Shared : Keeps(w) => Keeps(get(w, d))
      /\ \A w, val : \A d \in Shared \ {c} : Keeps(w) => Keeps(set(w, d, val))
  <2>1. ASSUME NEW w, NEW d \in Shared, WiresShape(w), w[c] = wires[c] \/ ~ w[c].available_data
        PROVE  Keeps(get(w, d))
    <3>1. /\ WiresShape(get(w, d))
          /\ get(w, d)[d] = [shared_data |-> w[d].shared_data, available_data |-> FALSE]
          /\ \A e \in Shared \ {d} : get(w, d)[e] = w[e]
      BY <2>1, GetWire
    <3>2. ~ get(w, d)[d].available_data
      BY <3>1
    <3> QED
      BY <2>1, <3>1, <3>2
  <2>2. ASSUME NEW w, NEW d \in Shared \ {c}, NEW val,
               WiresShape(w), w[c] = wires[c] \/ ~ w[c].available_data
        PROVE  Keeps(set(w, d, val))
    <3>1. d \in Shared /\ c \in Shared \ {d} /\ WiresShape(w)
      BY <2>2
    <3>2. WiresShape(set(w, d, val))
      BY <3>1, SetWire
    <3>3. set(w, d, val)[c] = w[c]
      BY <3>1 DEF WiresShape, set
    <3> QED
      BY <2>2, <3>2, <3>3
  <2> QED
    BY <1>1, <2>1, <2>2 DEF Shapes
<1> SUFFICES Keeps(wires')
  OBVIOUS
<1> HIDE DEF Keeps
<1> USE Processes, Wires
<1>3. CASE MasterSend \/ (MasterWaiting /\ ~ Unanswered)
  <2>1. M = "send" \/ (M = "waiting" /\ ~ Unanswered)
    BY <1>3 DEF MasterSend, MasterWaiting, At, M
  <2>2. ~ FromMaster.available_data
    BY <1>1, <2>1 DEF MasterSide, NoRequest, NotSeen, Passed, Answered, Nobodys, Withdrawn,
                      Over, OverSeen
  <2>3. c # masterAgentToBus
    BY <2>2 DEF FromMaster
  <2>4. \E v : wires' = set(wires, masterAgentToBus, v)
                 \/ wires' = set(get(wires, busToMasterAgent), masterAgentToBus, v)
    BY <1>3 DEF MasterSend, MasterWaiting, Unanswered, Heard
  <2> QED
    BY <1>2, <2>3, <2>4
<1>4. CASE InterconnectIdle
  <2>1. I = "idle" /\ current = interconnect
    BY <1>4 DEF InterconnectIdle, At, I
  <2>2. \A s \in Slave : c # toSlaveAgent(s)
    BY <2>1, IdleMeansRest DEF AtRest, ToSlave
  <2>3. \/ wires' = get(wires, masterAgentToBus)
        \/ \E s \in Slave : \E v : wires' = set(get(wires, masterAgentToBus), toSlaveAgent(s), v)
        \/ \E v : wires' = set(get(wires, masterAgentToBus), busToMasterAgent, v)
    BY <1>4 DEF InterconnectIdle, selected
  <2> QED
    BY <1>2, <2>2, <2>3
<1>5. CASE InterconnectTransmitting
  <2>1. I = "transmitting" /\ slave_number \in Slave
    BY <1>1, <1>5 DEF InterconnectTransmitting, At, I, Shapes
  <2>2. SlaveSide(slave_number)
    BY <1>1, <2>1 DEF BusInv
  <2>3. Received(fromSlaveAgent(slave_number), to_master).ack =>
          ~ ToSlave(slave_number).available_data
    BY <1>1, <2>1, <2>2 DEF SlaveSide, AtRest, Signalled, Requested, Replied, Left, NoAck,
                            NoStaleAck, Received, FromSlave
  <2>4. \/ wires' = get(wires, fromSlaveAgent(slave_number))
        \/ /\ Received(fromSlaveAgent(slave_number), to_master).ack
           /\ \E u, v : wires' = set(set(get(wires, fromSlaveAgent(slave_number)),
                                         toSlaveAgent(slave_number), u), busToMasterAgent, v)
    BY <1>5 DEF InterconnectTransmitting
  <2> QED
    BY <1>2, <2>1, <2>3, <2>4 DEF ToSlave
<1>6. CASE \/ Schedule /\ UNCHANGED << pc, signals, history >>
           \/ Resume \/ MasterDummyWrite \/ MasterDummyRead \/ MasterIdle \/ InterconnectStart
           \/ \E s \in Slave : SlaveDummyRead(s) \/ SlaveDummyWrite(s) \/ SlaveStart(s)
                                 \/ SlaveAnswer(s) \/ SlaveServed(s)
  <2>1. wires' = wires
    BY <1>6 DEF Resume, MasterDummyWrite, MasterDummyRead, MasterIdle, InterconnectStart,
                SlaveDummyRead, SlaveDummyWrite, SlaveStart, SlaveAnswer, SlaveServed, signals
  <2> QED
    BY <1>2, <2>1
<1>7. CASE (MasterWaiting /\ Unanswered) \/ MasterDone \/ \E s \in Slave : SlaveIdle(s)
  <2>1. \E d \in Shared : wires' = get(wires, d)
    BY <1>7 DEF MasterWaiting, MasterDone, SlaveIdle, Unanswered, Heard
  <2> QED
    BY <1>2, <2>1
<1>8. CASE InterconnectDone \/ \E s \in Slave : SlaveDone(s)
  <2>1. \E d \in Shared, e \in Shared \ {c} : \E v : wires' = set(get(wires, d), e, v)
    BY <1>8, ZenonT(40) DEF InterconnectDone, SlaveDone
  <2> QED
    BY <1>2, <2>1
<1> QED
  BY <1>3, <1>4, <1>5, <1>6, <1>7, <1>8 DEF WishboneNext

(* Nobody acknowledges on the wires of a request: it, and its end, are read *)
(* before the next one replaces them, in whatever order the processes poll. *)
THEOREM EdgesAreRead == HarmlessLeftOvers => (WishboneSpec => EdgesRead)
<1> SUFFICES ASSUME HarmlessLeftOvers PROVE WishboneSpec => EdgesRead
  OBVIOUS
<1>1. WInv /\ [WishboneNext]_wvars =>
        [\A c \in {masterAgentToBus} \cup {toSlaveAgent(s) : s \in Slave} : ~ Overwritten(c)]_wvars
  BY AgentsKeep DEF Kept, Overwritten
<1> QED
  BY <1>1, BusInvariance, PTL DEF WishboneSpec, EdgesRead

=============================================================================
