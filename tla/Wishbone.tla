------------------------------ MODULE Wishbone ------------------------------
(***************************************************************************)
(* The bus of example/Whishbone/ESL: an agent turns the blocking calls of  *)
(* a master into signals on shared channels, the interconnect passes them  *)
(* to the agent of the addressed slave and the slave's answer back.  The   *)
(* agents and the interconnect poll their wires once in every delta cycle, *)
(* in an order that nobody controls.                                       *)
(*                                                                         *)
(* A step of a process ends at its next wait or call; pc[p] is where p     *)
(* goes on.                                                                *)
(***************************************************************************)
EXTENDS BlockingChannel, SharedChannel, Integers

CONSTANTS NSlave,   \* number of slaves, 4 in the source
          Request,  \* what the master asks
          Reply,    \* what a slave replies
          FirstMaster,   \* what the members that no constructor initializes
          FirstSlave     \*   hold, of either kind of signals

Slave == 0 .. NSlave - 1

(* The processes and channels of sc_main. *)
masterDummy == << "master dummy", 0 >>
masterAgent == << "master agent", 0 >>
interconnect == << "interconnect", 0 >>
slaveAgent(s) == << "slave agent", s >>
slaveDummy(s) == << "slave dummy", s >>
Process == {masterDummy, masterAgent, interconnect}
             \cup {slaveAgent(s) : s \in Slave} \cup {slaveDummy(s) : s \in Slave}

masterReq == << "master request", 0 >>
masterResp == << "master response", 0 >>
slaveReq(s) == << "slave request", s >>
slaveResp(s) == << "slave response", s >>
BlockingChan == {masterReq, masterResp} \cup {slaveReq(s) : s \in Slave}
                  \cup {slaveResp(s) : s \in Slave}
BusReader == [c \in BlockingChan |-> CASE c = masterReq -> masterAgent
                                       [] c = masterResp -> masterDummy
                                       [] c = slaveReq(c[2]) -> slaveDummy(c[2])
                                       [] c = slaveResp(c[2]) -> slaveAgent(c[2])]
BusWriter == [c \in BlockingChan |-> CASE c = masterReq -> masterDummy
                                       [] c = masterResp -> masterAgent
                                       [] c = slaveReq(c[2]) -> slaveAgent(c[2])
                                       [] c = slaveResp(c[2]) -> slaveDummy(c[2])]

masterAgentToBus == << "master agent to bus", 0 >>
busToMasterAgent == << "bus to master agent", 0 >>
toSlaveAgent(s) == << "to slave agent", s >>
fromSlaveAgent(s) == << "from slave agent", s >>
SharedChan == {masterAgentToBus, busToMasterAgent} \cup {toSlaveAgent(s) : s \in Slave}
                \cup {fromSlaveAgent(s) : s \in Slave}

ASSUME WishboneAssumption ==
  /\ NSlave \in Nat \ {0}
  /\ Proc = Process /\ Chan = BlockingChan /\ Shared = SharedChan
  /\ Reader = BusReader /\ Writer = BusWriter
  /\ Request \cup Reply \subseteq Data
  /\ \A p \in Proc : {"read", "write", "pause"} \subseteq Ops[p]

(* Requests and replies, and what the agents make of them.                  *)
ASSUME MessagesAssumption ==
  /\ \A q \in Request :
       /\ q = [addr |-> q.addr, trans_type |-> q.trans_type, data |-> q.data]
       /\ q.addr \in Int /\ q.trans_type \in {"SINGLE_READ", "SINGLE_WRITE"}
       /\ \A s \in Slave : q.addr \in 8 * s .. 8 * s + 7 =>
            [addr |-> q.addr - 8 * s, trans_type |-> q.trans_type,
             data |-> IF q.trans_type = "SINGLE_READ" THEN 0 ELSE q.data] \in Data
  /\ \A r \in Reply : r = [ack |-> r.ack, data |-> r.data]
  /\ \A ack \in {"OK", "ERR"} : /\ [ack |-> ack, data |-> 0] \in Reply
                                /\ \A r \in Reply : [ack |-> ack, data |-> r.data] \in Reply

VARIABLES pc,
          wb_in,        \* the members of that name of the four kinds of agents
          from_master, to_master, slave_number,   \* of the interconnect
          agent_to_bus_resp,
          served,       \* history: the requests served since the last answer
          lost          \* history: the master missed an answer

signals == << wires, wb_in, from_master, to_master, slave_number, agent_to_bus_resp >>
history == << served, lost >>
wvars == << vars, pc, signals, history >>

(* The signals at rest, and those of a request. *)
NoMaster == [addr |-> 0, data |-> 0, we |-> FALSE, stb |-> FALSE, cyc |-> FALSE]
NoSlave == [data |-> 0, ack |-> FALSE, err |-> FALSE]
Drive(q) == [addr |-> q.addr, data |-> IF q.trans_type = "SINGLE_READ" THEN 0 ELSE q.data,
             we |-> q.trans_type = "SINGLE_WRITE", stb |-> TRUE, cyc |-> TRUE]
Driven(m) == m.cyc /\ m.stb
Quiet(m) == ~ m.cyc /\ ~ m.stb

WishboneInit ==
  /\ shared_data = [c \in Chan |-> CHOOSE v \in Reply : TRUE]
  /\ out = [c \in Chan |-> CHOOSE v \in Reply : TRUE]
  /\ Init
  /\ SharedInit([c \in Shared |-> IF c[1] \in {"bus to master agent", "from slave agent"}
                                  THEN NoSlave ELSE NoMaster])
  /\ pc = [p \in Proc |-> "start"]
  /\ \E m \in FirstMaster, t \in FirstSlave :
       wb_in = [p \in Proc |-> IF p = masterAgent THEN t ELSE m]
  /\ from_master \in FirstMaster /\ to_master \in FirstSlave /\ slave_number = 0
  /\ agent_to_bus_resp = CHOOSE v \in Reply : TRUE
  /\ served = << >> /\ lost = FALSE

-----------------------------------------------------------------------------
(* p runs and goes on at l; the call it made last has returned. *)
At(p, l) == current = p /\ ~ InCall(p) /\ pc[p] = l
Goto(p, l) == pc' = [pc EXCEPT ![p] = l]

Read(c) == ReadNow(c) \/ ReadWait(c)
insert_state(p) == ZeroWait(p, {}) /\ UNCHANGED channel

(* The suspended calls return; pc is the place after the call already.      *)
Resume == /\ \E c \in Chan : ReadResume(c) \/ WriteResume(c)
          /\ UNCHANGED << pc, signals, history >>

-----------------------------------------------------------------------------
(* The environment, MasterDummy::fsm and SlaveDummy::fsm, more generally:   *)
(* any request after the answer to the last one, any reply to a request.    *)

MasterDummyWrite == /\ At(masterDummy, "start")
                    /\ \E q \in Request : Write(masterReq, q)
                    /\ Goto(masterDummy, "asked")
                    /\ UNCHANGED << signals, history >>

MasterDummyRead == /\ At(masterDummy, "asked")
                   /\ Read(masterResp)
                   /\ Goto(masterDummy, "start")
                   /\ UNCHANGED << signals, history >>

SlaveDummyRead(s) == /\ At(slaveDummy(s), "start")
                     /\ Read(slaveReq(s))
                     /\ Goto(slaveDummy(s), "requested")
                     /\ UNCHANGED << signals, history >>

SlaveDummyWrite(s) == /\ At(slaveDummy(s), "requested")
                      /\ \E r \in Reply : Write(slaveResp(s), r)
                      /\ Goto(slaveDummy(s), "start")
                      /\ UNCHANGED << signals, history >>

-----------------------------------------------------------------------------
(* MasterAgent::fsm *)

agent_to_bus_req == out[masterReq]

MasterIdle == /\ At(masterAgent, "start")
              /\ Read(masterReq)
              /\ Goto(masterAgent, "send")
              /\ UNCHANGED << signals, history >>

MasterSend == /\ At(masterAgent, "send")
              /\ wires' = set(wires, masterAgentToBus, Drive(agent_to_bus_req))
              /\ insert_state(masterAgent)
              /\ Goto(masterAgent, "waiting")
              /\ UNCHANGED << wb_in, from_master, to_master, slave_number,
                              agent_to_bus_resp, history >>

MasterWaiting ==
  LET in == Received(busToMasterAgent, wb_in[masterAgent])
      got == get(wires, busToMasterAgent)
  IN  /\ At(masterAgent, "waiting")
      /\ wb_in' = [wb_in EXCEPT ![masterAgent] = in]
      /\ \/ /\ ~ in.ack
            /\ wires' = got
            /\ UNCHANGED << pc, agent_to_bus_resp, served >>
         \/ /\ in.ack
            /\ agent_to_bus_resp' =
                 [ack |-> IF in.err THEN "ERR" ELSE "OK",
                  data |-> IF agent_to_bus_req.trans_type = "SINGLE_READ" THEN in.data
                           ELSE agent_to_bus_resp.data]
            /\ wires' = set(got, masterAgentToBus, NoMaster)
            /\ served' = << >>
            /\ Goto(masterAgent, "done")
      /\ insert_state(masterAgent)
      /\ UNCHANGED << from_master, to_master, slave_number, lost >>

(* Mutant: the bus need not be at rest again. *)
MasterDoneAtOnce == /\ At(masterAgent, "done")
                    /\ wires' = get(wires, busToMasterAgent)
                    /\ Write(masterResp, agent_to_bus_resp)
                    /\ Goto(masterAgent, "start")
                    /\ UNCHANGED << wb_in, from_master, to_master, slave_number,
                                    agent_to_bus_resp, history >>

MasterDone ==
  LET in == Received(busToMasterAgent, wb_in[masterAgent])
  IN  /\ At(masterAgent, "done")
      /\ wb_in' = [wb_in EXCEPT ![masterAgent] = in]
      /\ wires' = get(wires, busToMasterAgent)
      /\ \/ in.ack /\ insert_state(masterAgent) /\ UNCHANGED pc
         \/ /\ ~ in.ack
            /\ Write(masterResp, agent_to_bus_resp)
            /\ Goto(masterAgent, "start")
      /\ UNCHANGED << from_master, to_master, slave_number, agent_to_bus_resp, history >>

-----------------------------------------------------------------------------
(* Interconnect::fsm *)

InterconnectStart == /\ At(interconnect, "start")
                     /\ insert_state(interconnect)
                     /\ Goto(interconnect, "idle")
                     /\ UNCHANGED << signals, history >>

(* Mutants: the slave gets the address on the bus; an address of no slave   *)
(* is an error that is not acknowledged.                                    *)
BusAddr(m, s) == m
NobodysError == [data |-> 0, ack |-> FALSE, err |-> TRUE]

(* Eight addresses for each slave; the answer of an address of none.        *)
selected(m) == {s \in Slave : m.addr \in 8 * s .. 8 * s + 7}
LocalAddr(m, s) == [m EXCEPT !.addr = @ - 8 * s]
NobodysAnswer == [data |-> 0, ack |-> TRUE, err |-> FALSE]

(* From IDLE through START to the next wait. *)
InterconnectIdle ==
  LET in == Received(masterAgentToBus, from_master)
      got == get(wires, masterAgentToBus)
  IN  /\ At(interconnect, "idle")
      /\ \/ /\ ~ Driven(in)
            /\ from_master' = in /\ wires' = got
            /\ UNCHANGED << pc, to_master, slave_number >>
         \/ /\ Driven(in)
            /\ \E s \in selected(in) :
                 /\ wires' = set(got, toSlaveAgent(s), LocalAddr(in, s))
                 /\ slave_number' = s
            /\ from_master' = NoMaster   \* on entering TRANSMITTING
            /\ Goto(interconnect, "transmitting")
            /\ UNCHANGED to_master
         \/ /\ Driven(in) /\ selected(in) = {}
            /\ to_master' = NobodysAnswer
            /\ wires' = set(got, busToMasterAgent, to_master')
            /\ from_master' = in
            /\ Goto(interconnect, "done")
            /\ UNCHANGED slave_number
      /\ insert_state(interconnect)
      /\ UNCHANGED << wb_in, agent_to_bus_resp, history >>

InterconnectTransmitting ==
  LET n == slave_number
      got == get(wires, fromSlaveAgent(n))
  IN  /\ At(interconnect, "transmitting")
      /\ to_master' = Received(fromSlaveAgent(n), to_master)
      /\ IF to_master'.ack
         THEN /\ wires' = set(set(got, toSlaveAgent(n), NoMaster), busToMasterAgent, to_master')
              /\ Goto(interconnect, "done")
         ELSE wires' = got /\ UNCHANGED pc
      /\ insert_state(interconnect)
      /\ UNCHANGED << wb_in, from_master, slave_number, agent_to_bus_resp, history >>

(* TRANSMITTING has cleared from_master, and get() leaves it so as long as  *)
(* the master sets nothing new.                                             *)
InterconnectDone ==
  LET in == Received(masterAgentToBus, from_master)
      got == get(wires, masterAgentToBus)
      waits == pc[masterAgent] = "waiting"
  IN  /\ At(interconnect, "done")
      /\ from_master' = in
      /\ to_master' = IF Quiet(in) THEN NoSlave ELSE to_master
      /\ wires' = set(got, busToMasterAgent, to_master')
      /\ lost' = (lost \/ (Quiet(in) /\ waits))
      /\ IF Quiet(in) THEN Goto(interconnect, "idle") ELSE UNCHANGED pc
      /\ insert_state(interconnect)
      /\ UNCHANGED << wb_in, slave_number, agent_to_bus_resp, served >>

-----------------------------------------------------------------------------
(* SlaveAgent::fsm *)

SlaveStart(s) == /\ At(slaveAgent(s), "start")
                 /\ insert_state(slaveAgent(s))
                 /\ Goto(slaveAgent(s), "idle")
                 /\ UNCHANGED << signals, history >>

SlaveIdle(s) ==
  LET p == slaveAgent(s)
      in == Received(toSlaveAgent(s), wb_in[p])
  IN  /\ At(p, "idle")
      /\ wb_in' = [wb_in EXCEPT ![p] = in]
      /\ wires' = get(wires, toSlaveAgent(s))
      /\ \/ ~ Driven(in) /\ insert_state(p) /\ UNCHANGED pc
         \/ /\ Driven(in)
            /\ Write(slaveReq(s), [addr |-> in.addr,
                                   trans_type |-> IF in.we THEN "SINGLE_WRITE" ELSE "SINGLE_READ",
                                   data |-> IF in.we THEN in.data ELSE 0])
            /\ Goto(p, "answer")
      /\ UNCHANGED << from_master, to_master, slave_number, agent_to_bus_resp, history >>

SlaveAnswer(s) == /\ At(slaveAgent(s), "answer")
                  /\ Read(slaveResp(s))
                  /\ Goto(slaveAgent(s), "served")
                  /\ UNCHANGED << signals, history >>

(* slave_to_agent_resp.data is cleared after a write; DONE puts it on the   *)
(* bus only for a read.                                                     *)
SlaveServed(s) == /\ At(slaveAgent(s), "served")
                  /\ insert_state(slaveAgent(s))
                  /\ Goto(slaveAgent(s), "done")
                  /\ served' = Append(served, [slave |-> s, request |-> out[slaveReq(s)],
                                               reply |-> out[slaveResp(s)]])
                  /\ UNCHANGED << signals, lost >>

SlaveDone(s) ==
  LET p == slaveAgent(s)
      in == Received(toSlaveAgent(s), wb_in[p])
      resp == out[slaveResp(s)]
  IN  /\ At(p, "done")
      /\ wb_in' = [wb_in EXCEPT ![p] = in]
      /\ wires' = set(get(wires, toSlaveAgent(s)), fromSlaveAgent(s),
                      IF Quiet(in) THEN NoSlave
                      ELSE [ack |-> TRUE, err |-> resp.ack # "OK",
                            data |-> IF in.we THEN 0 ELSE resp.data])
      /\ insert_state(p)
      /\ IF Quiet(in) THEN Goto(p, "idle") ELSE UNCHANGED pc
      /\ UNCHANGED << from_master, to_master, slave_number, agent_to_bus_resp, history >>

-----------------------------------------------------------------------------
WishboneNext == \/ Schedule /\ UNCHANGED << pc, signals, history >>
                \/ Resume
                \/ MasterDummyWrite \/ MasterDummyRead
                \/ MasterIdle \/ MasterSend \/ MasterWaiting \/ MasterDone
                \/ InterconnectStart \/ InterconnectIdle
                \/ InterconnectTransmitting \/ InterconnectDone
                \/ \E s \in Slave : \/ SlaveDummyRead(s) \/ SlaveDummyWrite(s)
                                    \/ SlaveStart(s) \/ SlaveIdle(s) \/ SlaveAnswer(s)
                                    \/ SlaveServed(s) \/ SlaveDone(s)

WishboneSpec == WishboneInit /\ [][WishboneNext]_wvars

(* The simulation goes on: sc_start() returns only when nothing is left to  *)
(* run, and a delta cycle ends only when everybody had a turn.              *)
WishboneFairSpec == WishboneSpec /\ []<><< TRUE >>_wvars

-----------------------------------------------------------------------------
(* Properties *)

WishboneTypeOK ==
  /\ TypeOK
  /\ \A c \in Shared : wires[c].available_data \in BOOLEAN
  /\ \A s \in Slave : DOMAIN wb_in[slaveAgent(s)] = DOMAIN NoMaster
  /\ DOMAIN wb_in[masterAgent] = DOMAIN NoSlave
  /\ DOMAIN from_master = DOMAIN NoMaster /\ DOMAIN to_master = DOMAIN NoSlave
  /\ slave_number \in Slave
  /\ agent_to_bus_resp \in Reply
  /\ Len(served) <= 1

(* Through two agents, two kinds of channels and the polling between them   *)
(* a request reaches the slave it addresses, once, and its answer is that   *)
(* slave's.                                                                 *)
B == INSTANCE Bus WITH
       request <- IF pc[masterAgent] = "waiting" THEN << agent_to_bus_req >> ELSE << >>,
       answer <- agent_to_bus_resp

ImplementsBus == B!Spec

(* Nobody acknowledges on the wires of a request: it, and its end, are read *)
(* before the next one replaces them, in whatever order the processes poll. *)
EdgesRead == [][\A c \in {masterAgentToBus} \cup {toSlaveAgent(s) : s \in Slave} :
                   ~ Overwritten(c)]_wvars

(* The master gets an answer to each request, unless the agent missed it.   *)
RequestsAnswered == (rd[masterResp] = "read") ~> (rd[masterResp] = "idle" \/ lost)

(* "Wait until master has read the signals" (Interconnect.h:136).           *)
MasterHasRead == [][(pc[interconnect] = "done" /\ pc'[interconnect] = "idle") =>
                      pc[masterAgent] # "waiting"]_wvars

=============================================================================
