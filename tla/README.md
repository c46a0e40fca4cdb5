# DeSCAM in TLA+

DeSCAM reads a SystemC description of a system at the electronic system level
(a *PPA*: one thread per module, modules that communicate over blocking,
master/slave and shared ports) and derives from every module a complete set of
*operation properties* that a register transfer implementation has to satisfy.
This directory holds models of the parts of DeSCAM whose correctness depends on
an order of steps: the channels that give a PPA its meaning and two of the
example designs built on them, the way from clang's blocks to a control flow
graph, the removal of dead assignments from it, the search that turns the graph
into states and operations, and the property suite that is made of these, which
is held against the program it was made from. The modules are checked with TLC
on small instances; results about several of them are proved with TLAPS for
every value of the constants.

Paths are relative to the repository. The C++ sources of the compiler lie in
`src/`, the channels and the example designs in `example/`.

## 1. Inventory of the system

| component | state it keeps | operations | what makes it hard | correct when | here |
|---|---|---|---|---|---|
| Blocking channel, `example/Interfaces/Blocking.hpp` | `available_data`, the pointer `shared_data`, two events | `read`, `try_read`, `write`, `try_write`, `peek`, `poke` | notifications that nobody waits for are lost; offers are withdrawn; only an address is kept | its assertions hold, nobody waits for what has happened, values written are read once | modelled, proved |
| Master/slave channel, `example/Interfaces/MasterSlave.hpp` | the same, and what kind of port is bound at each end | `register_port`, `master_read`, `slave_read`, `master_write`, `slave_write` | masters wait and slaves do not; which ends may meet is decided during elaboration, in any order | two masters never meet, a master finds what it waited for | modelled, proved |
| Pause of a process, `example/Interfaces/ImportantState.h` | none | `insert_state` | time passes in delta cycles | others get to run | modelled, with the scheduler |
| Shared channel, `example/Interfaces/Shared.hpp` | one value and whether it is new | `set`, `get` | nothing waits and nobody is told | the reader sees what it must see before it is overwritten | modelled |
| Wishbone bus, `example/Whishbone/ESL` | wires, and the registers of two kinds of agents and of the interconnect | the threads of agents, interconnect and dummies | polled wires between blocking calls, in an order nobody controls | a request is served once, by the slave it addresses, and answered with that slave's answer | modelled, proved |
| FIFO, `example/FIFO/FIFO.h` | a ring buffer with two flags | the thread `fsm` | it polls, decides, and calls; the environment moves in between | first in, first out | modelled, proved |
| Command line, `src/parser` | options | parses, starts the stages | none | - | not modelled |
| Model factory, `src/modelFactory` | `Model`, `Module`, `Port`, `Variable`, ... | visitors over clang's syntax tree | the shape of that tree | every declaration found | not modelled |
| Graph factory, `src/cfgFactory` | `CfgBlock`s, then numbered `CfgNode`s | `traverseBlocks`, `cleanEmptyBlocks`, `CreateRealCFG` | later stages read the branch that is taken off the numbers of nodes; clang spreads a condition over several blocks | the graph runs as the thread does | modelled, proved in part |
| Functions, `src/functionFactory`, `FlattenIf`, `FlattenWhile`, `FindEndNode` | none | statements back from a graph, paths to returns | where branches meet when one of them returns early | exactly one entry of the list applies, and is what the function returns | modelled |
| Optimizer, dead assignments, `src/modelFactory/Optimizer` | flags per variable and node, the graph | `LivenessAnalysis`, `RenumberCFG` | an iteration that must go on long enough; surgery on neighbour lists; numbers that carry meaning | the program communicates as before | modelled, proved in part |
| Optimizer, the rest | values and ranges | propagation, reachability, simplification, ranges | arithmetic of expressions | the same | not modelled |
| Finding operations, `src/operationFactory/FindOperations.cpp`, `FindStateOperations.cpp` | the states found, the operations of the round, the stack and the path of a search | `findInitialImportantStates`, `processCFG`, `processSpurious`, `checkForMasters`, `checkForSlaves` | search and coloring depend on each other; a search may go on for ever; many early exits | all and only the paths between states, every port used as hardware can | modelled, proved in part |
| Backtracks and reachability, `FindStateBacktrack.cpp`, `ReconstructOperations.cpp`, `ValidOperations.cpp` | none | what is known in a state, whether a path can be taken | knowledge that is out of date | no path that can be taken is dropped | modelled, as functions of the graph |
| Creating operations, `CreateOperations.cpp`, `CreateOperationsSlave.cpp`, `OperationFactory.cpp` | `Operation`s, `State`s and their lists, the variables met | statement lists, wait operations, the ways slave reads turn out, removal of what cannot happen | three lists that must agree; a stack that enumerates; variables remembered from one operation to the next | each path is one operation for each way it can turn out | modelled, proved in part |
| Property suite, `src/propertyFactory`, `src/model/propertySuite` | properties, signals | `CreatePropertySuite`, `TrueOperation` | which port is notified when | exactly one property applies, and hardware that satisfies the suite does what the program does | modelled in part |
| Printers, `src/plugin` | text | one visitor per language | none | - | not modelled |

How they interact. At run time of a *simulation*, threads call channels; the
SystemC scheduler runs one thread at a time, and a call gives control away only
in `wait`. At run time of the *compiler* everything is sequential: clang's tree
is turned into the model and, per module, into blocks; `CreateRealCFG` turns
blocks into nodes, the optimizer may rewrite them, `OperationFactory` runs
`FindOperations`, `CreateOperations`, `ReconstructOperations`,
`ValidOperations` and three optimizers of expressions one after the other, and
the property factory and the printers read what is left. The stages communicate
through the graph alone: its successor and predecessor lists and, a convention
that is written down in few places (`CreateOperationsSlave.cpp:80`), the numbers
of its nodes. The *hardware* that satisfies the properties meets its neighbours
through data, synchronization and notify signals; it never sees the compiler,
only what the suite says.

The hard behaviours are therefore of three kinds: interleavings of threads
inside the channels and on shared wires; long sequential algorithms whose loops
end, continue or skip for reasons that only a graph of the right shape brings
out; and what several stages must have got right together for the suite to have
neither a gap nor a contradiction. `PROJECT.json` lists them under "hazards",
each at its line, with the properties that watch it.

## 2. The modules

```
ScKernel <-+- BlockingChannel <-+- FifoExample
           |      |             +- Wishbone --> Bus
           |      v                    |
           |  Rendezvous          SharedChannel
           |      ^
           +- MasterSlaveChannel

ControlFlow <-+- FindStateOperations <-+- FindOperations <- CreateOperations <- PropertySuite <- Hardware
              +- FindStateBacktrack <--+
              +- LivenessAnalysis <- RenumberCFG <-+
              +- BuildCfg <-+----------------------+- Optimizer <-+- ModelFactory
                            +- FunctionFactory <------------------+

ProgramShapes, ClangLayout: the programs the runs start from
```

`A <- B` means B extends A; `-->` (and an arrow to Rendezvous) an abstract
specification that is implemented. The modules called MC... give the constants
their values, those called ..._proofs hold the theorems.

**ScKernel** is the part of the SystemC scheduler the channels rely on. The
library is not in the repository; the module follows from what `wait(event)`,
`notify()` and `wait(0, SC_PS)` must do for the channels to work: one process
runs until it waits, an immediate notification wakes who waits and is forgotten
otherwise, a zero-time wait ends in the next delta cycle, which begins when
nothing is runnable.

**BlockingChannel** has one action per call that does not wait and two per call
that does, cut at the wait: nothing else can run in between.
`available_data` and `shared_data` are the members of that name, the latter as
what the pointer points to, which the writer can change (`Reassign`) while it
runs outside a call. The two events are the sets of processes that wait on
them. Assertions of the library are guards, and the property `AssertsHold` says
that they never block.

**Rendezvous** is what the interface promises, and exactly that much: a value
that is written with `write` stays in the slot, unchanged, until the reader
takes it; one that is offered with `try_write` is there only loosely, and may be
withdrawn, overwritten, or changed behind its back. Both channels implement it.

**MasterSlaveChannel** adds elaboration: ports register in any order and the
checks of `register_port` decide what comes up. `master_read` and
`master_write` wait; `slave_read` and `slave_write` do not.

**FifoExample** is the FIFO between a source and a sink. `pc` is the place of
`fsm` between two calls; `Poll` takes the decision of `peek()` and `poke()`, and
the calls it guards are steps of their own.

**SharedChannel** is a value and whether the reader has got it. **Wishbone** is
the bus example: both agents, the interconnect, and masters and slaves that ask
and reply anything. A process that polls its wires does so once in every delta
cycle, so a step is what it does between two waits. **Bus** is what a bus
promises, without wires: one request at a time, served by the slave its address
belongs to, answered with what that slave replied.

**ControlFlow** is the graph of a module and the question asked of it: can this
path be taken? A path becomes statements (`PathStmts`: a branching node is its
condition or the negation, told by the number of the next node), these are
executed symbolically (`Execute`), and the conditions that are left must be
satisfiable. Statements set or copy a variable, read a port, write one, peek,
compare a variable with a value, or wait; a `try_read` or `try_write` sets a
flag. A port has one data signal and one synchronization signal, as in the code.

**FindStateBacktrack** is the search backwards from a state to the head of the
loop, with the stack, the path, the joins on it and what each has left of its
predecessors. It is a function of the graph: nothing runs beside it, and what
matters is which paths it finds. `stateBacktracks` is what is then assumed of a
state.

**FindStateOperations** is the search of one state, a turn of its loop per
action (`Spurious`, `Finish`, `Branch`, `Follow`); the stack and the indexes are
those of the code. The hash of a turn of the program's loop, `encodeArch`, is a
parameter.

**FindOperations** is the outer algorithm: initial coloring, rounds over all
states, spurious paths, the checks of masters and slaves, and the ways it ends.
`phase` is the place in `processCFG`.

**CreateOperations** makes operations of the paths. `stage` is the place in the
constructor of `OperationFactory` and `at` the number of paths or operations the
stage has gone through, so that an action is one turn of the stage's loop:
`ExtendRawOperation` (one way the slave reads of a path can turn out, with the
stack and the marks of the code), `CreateExplicit`, `CreateImplicit` (waits, and
`try_read`s and `try_write`s that find nobody), `Reconstruct`, `FindValid`,
`Optimize`. Operations are numbered as they are made; the lists of the module
and of the states, which the code keeps as vectors of pointers, are sets of
numbers, since nothing depends on their order.

**PropertySuite** says which ports a property notifies (`Notified`) and refuses
a module whose reset is not unique (`Suite`).

**Hardware** composes the whole: the translation runs, and then the program
that was translated runs node by node beside a circuit. The circuit has a state,
registers, output data signals and notify signals, as far as the suite commits
to them. When the program reaches a state the ports get new values and the
circuit has carried out one operation whose assumptions held (`CarryOut`), or a
wait if the program is blocked. A variable or a signal the suite says nothing
about has no value in the circuit, so that a property that reads it fails.

**BuildCfg** is `traverseBlocks` with its recursion as a list of pending calls,
and `CreateRealCFG` as the operator that numbers the nodes. The input is clang's
blocks, which **ClangLayout** makes of a nested thread: one block per operand of
a condition, created backwards. (ClangLayout is external: clang is not in the
repository.)

**LivenessAnalysis** has one action per traversal of the graph, per count of the
marked nodes, per variable whose dead assignments are removed, and two for what
is removed afterwards. `stmtInfo` holds the flags in front of and behind each
node. **RenumberCFG** is the search that numbers the nodes, a turn of its loop
per action. **Optimizer** builds the graph from clang's blocks, runs the analysis
three times, numbers the nodes, and then executes the program, in clang's
blocks and operand by operand, and the graph side by side, the latter as the
operation factory reads it.

**FunctionFactory** makes the list of return values of a function out of its
blocks: `EndNode` is where the branches of a condition meet, found along first
successors as in the code, `PathNodes` the blocks up to there, `Flatten` the
nested statements, `FindPaths` their paths, `Reconstruct` what a path returns
and when, in terms of the parameters. **ModelFactory** is what is done with the
code of a module: a thread goes the way of Optimizer, a function that of
FunctionFactory; both begin with the search of BuildCfg. Its invariants speak of
a thread beside its graph and of a call of the function beside its list.

**ProgramShapes** lists the programs of the translation's runs: all ways to fill
small skeletons of loops and branches with a handful of statements, behind the
initial section that `CreateInitSection2` puts in front of every loop.

## 3. The runs

| run | constants | what it shows |
|---|---|---|
| `blocking` | 2 channels, 4 processes, 2 values; all calls on one channel, blocking messages and pauses on the other | `AssertsHold`: both assertions hold however calls are mixed. `NoLostNotification`: nobody waits for what has happened. `SuccessMeansTaken`: the flag of `try_write(val, success)`, which a FIXME in the code doubts, is right. `ImplementsRendezvous`: what `write` is given stays until it is read, once, unchanged, even among `try_write`s. `WriteReturns`: every write returns if the reader keeps reading, unless the messages of the other channel keep the reader in a zero-time wait for ever. `IInv`, the invariant of the proofs, holds. |
| `master_slave` | 2 channels in a chain of 3 processes, every pairing, 2 values | Two masters never meet; a master finds what it was woken for; no notification is lost; a master's value is read once and unchanged (`MasterWriteIsRendezvous`); masters return if slaves keep going. |
| `fifo` | a buffer of 2, 5 values sent | In every state the values under way are those sent, in order; polls stay true until the calls they guard; every value arrives. |
| `wishbone` | 1 master, 2 slaves, reads and writes to each and to nobody, any number of requests | The bus implements `Bus` (`ImplementsBus`); a request, and the end of one, is read from the wires before the next replaces it (`EdgesRead`); every request is answered unless the agent missed the answer (`RequestsAnswered`). |
| `response_overwritten` | the same | Violated: the interconnect withdraws an answer that the agent has not read (finding). |
| `translation` | all programs of four skeletons, 2 variables, 2 values | Stack, path and indexes of the search stay in step; every path found can be taken; spurious paths repeat; no state is colored twice; operations use master and slave ports as allowed; the states' lists are the module's (`ListsAgree`); in every state and whatever the ports hold exactly one property applies (`OneApplies`); a circuit that satisfies the suite is where the program is, holds what its variables hold and offers what it offers (`HardwareFollows`); a port is notified exactly when the program communicates there (`NotifiedIsOffered`); and the translation stops. |
| `states_unsearched` | 512 programs | Violated: a translation that succeeds may have left out states (finding). |
| `reread_loses_operation` | 9 programs | Violated: a port that is read on the way to a state and again behind it loses an operation (finding). |
| `optimizer` | two skeletons, conditions in a row, conditions of several operands in and around each other, functions with early and nested returns; 2 variables, 2 values | A `then` branch has the next number in the graph as built, and no other branch has (`ThenIsNext`); the traversals end only when no flag is missing (`RulesMet`); the neighbour lists mirror each other whatever is removed; the graph communicates as the thread does (`SameOutputs`); and whatever a function is called with, exactly one entry of its list applies and has the value it returns, and a function is refused only if `FindEndNode` or `EnumartePathsVisitor` left blocks of a branch out (`ReturnsAsCalled`). |
| `or_skips_condition` | 1 program | Violated: a condition joined by `\|\|` is left out of the graph (finding). |
| `liveness_stops_early` | 1 program | Violated: with four conditions in a row the traversals end too early (finding). |
| `else_read_as_then` | 1 program | Violated: an else branch is read as a then branch (finding). |

Every property of a passing run has a mutant: a definition with a plausible bug
under which TLC finds the property violated. The mutants are defined beside the
definitions they replace.

Bounds and why they are enough.

* *Channels.* Calls on one channel involve two processes. For what must not
  happen, all pairs of calls on one channel are enough, and the theorems below
  hold for any number of channels and processes, also for a process that is at
  both ends. For what must happen they are not: channels meet in the
  scheduler. Two processes that exchange blocking messages wake each other
  within one evaluation phase; while they do so without a pause no delta cycle
  comes, and whoever is in a zero-time wait stays there. So `blocking` has a
  second channel whose writer may pause or not. `WriteReturns` names the one
  exception, `Starved`; without it TLC finds the write that never returns (the
  reader in `insert_state`, the other two writing and reading for ever), with it
  nothing else keeps a write from returning. More channels could only starve a
  reader in the same way; with further calls on the second channel the temporal
  check takes too long. The chain of `master_slave` gives one process a reading and a writing end, and has room for
  all pairings next to each other. Two values tell an old value from a new one.
* *FIFO.* `N` is 2 instead of 3, so that the buffer fills, empties and wraps
  around with few values; five values (`MaxSent`) pass through every position
  twice. The default value that a reset hands on is value 0. The theorems hold
  for every `N` and `MaxSent`.
* *Wishbone.* `NSlave` is 2 instead of 4: one slave that is addressed and one
  that keeps polling. Nothing bounds the number of requests. Some members
  are read before anything sets them and no constructor initializes them; the
  runs let them hold anything (`FirstMaster`, `FirstSlave`) that does not by
  itself start or end a bus cycle. With an accidental `cyc`, `stb` or `ack`
  every property fails in the first cycle (a hazard in PROJECT.json).
* *Translation.* The skeletons have one loop with one or two branches in it, so
  every search meets branchings, the head of the loop and turns that repeat; the
  fourth skeleton has two joins in a row, so that the search backwards must take
  up the predecessors that several joins have left. Two
  variables and two values are enough for conditions to be decided, undecided
  and contradicted; a module has inputs and outputs of every kind. What the
  circuit's model fixes: an operation takes one step, and the ports hold still
  from one state to the next, which is the time scale of the properties. What
  the programs leave out, each a hazard of its own: no state is in front of the
  loop; no branching leads to the head of the loop as its first successor; what
  is compared is not read again before the next state (the finding
  `reread_loses_operation`); `peek` asks outputs only and comes before the
  variable is compared. The flag of a `try_write` at a state is exempt from
  `HardwareFollows` there: the circuit has it one operation later, and the
  program sets it before it reads it.
* *Optimizer.* One loop with a branch, one to three branches in a row, and
  conditions of two and three operands whose branches begin with nothing, a
  communication, or another condition. The programs with conditions in
  conditions have no assignments that could be removed, and no branch holds
  `x = x` alone: there `SameOutputs` does not hold, since a condition that is
  left with one successor after others were removed stays in the graph, and is
  then read as an assumption (the hazard at `LivenessAnalysis.cpp:118`).
  `if ... else if` is the subject of `else_read_as_then`, and disjunctions of
  three operands around another compound condition that of `or_skips_condition`.
* *Functions.* Branches that always return, never return, return if an inner
  condition holds or if it does not, any two of them with each other and in
  front of another condition. They include those of the hazard at
  `FindEndNode.cpp:58`, in which an inner branch returns and both ways through the
  outer condition go on behind it: the compiler may find two returns on a
  path, or none, and gives up.

Fairness. The SystemC evaluation phase serves runnable processes in turn, so a
process that is runnable again and again runs (strong fairness of `Dispatch`),
and the running process executes (weak fairness of its steps and of
`Schedule`). Modules are endless loops: `blocking`, `master_slave` and `fifo`
assume that readers keep reading and slaves keep serving, which is written at
each `Fairness`. On the bus every process polls or waits, and a delta cycle ends
only when everybody has had a turn: it is enough that the simulation goes on
(`[]<><<TRUE>>_wvars`). The translation is a sequential program, so
`HardwareFairSpec` says that it goes on until it is over. The properties that
are not about liveness do not depend on any of it.

The optimizer's runs do not check for deadlock: the compiler may end with an
exception (`thrown`), and the optimized program may be stuck, which
`SameOutputs` watches.

## 4. The proofs

The theorems hold for every number of processes and channels, every program and
every number of variables and values, under the assumptions the modules name.
Each inductive invariant was checked with TLC first. The proof of a step has one
case per action and below it one step per conjunct the action disturbs.

**BlockingChannel_proofs**, under `ChannelAssumption` (every channel has a
reader and a writer, calls are among those of the interface) and
`NoProcAssumption`. `AssertsHold` alone is not inductive: whether a woken reader
finds data depends on who can withdraw it first. The invariant `IInv` says
where a process is and why: each is in one place, running, runnable, in a
zero-time wait or on one event (`OnePlace`); a reader inside `read()` waits and
there is no data, or has been woken and there is data, and then a writer that
could withdraw it is still in its zero-time wait, which ends only when nothing
is runnable (`ReaderEnd`); and the corresponding for the writer (`WriterEnd`).
From it follow `TypeCorrect`, `AssertionsHold` and `NotificationsArrive`.

The same module maps every step of the blocking channel to a step of
`Rendezvous` or to a stutter, on any channel (`RendezvousImplemented`); the types
are all it needs of the state, because a `write` returns only once its offer is
gone. `SuccessIsTrue`: what `try_write(val, success)` reports is whether
its value was read. It needs `IInv`, whose `WriterEnd` ties `available_data` to
the offer for as long as the writer is in its zero-time wait.

**MasterSlaveChannel_proofs** has an invariant of the same kind, with the
pairing of the ports: nobody runs before elaboration is over (`Unstarted`), a
channel never has two masters (`Bound`), and a master that waits is owed a
notification (`ReaderEnd`, `WriterEnd`). Theorems: `TypeCorrect`,
`MastersMeetSlaves`, `MastersFind`, `NotificationsArrive`, and
`RendezvousImplemented` for the writes of masters.

**FifoExample_proofs**, under `FifoAssumption` (the buffer has a slot, `fsm`
reads one channel and writes the other) and `CallsAssumption` (the calls of the
source are available), for every size of the buffer and every
number of values. `NothingLost` compares a whole sequence with the numbers from
1 on; `FInv` says it place by place: `Values` gives the value on each channel, in
each slot and in the hand of `fsm` from how many have gone out, `Flags` ties the
two flags to the two indices (equal indices mean full or empty, and in the full
branch one slot is free although `is_full` is set), and `Polled` keeps what was
found when `fsm` polled, which holds because nobody else takes from its input or
fills its output. Every step but one is a step of the channels, so their `IInv`
is reused. Theorems: `PollsHold`, `FirstInFirstOut`.

**FindOperations_proofs**, under `ProgramsAssumption`: the graph's nodes are
numbered from 0, each has one or two successors, node 0 is the reset. The
invariant says of a running search that its stack is no longer than its
branchings plus one, that branchings lie on the path in ascending order, and
that the path passes no state behind its first node (`SearchInv`); of what was
found and kept, that it goes from state to state (`FoundInv`, `KeptInv`); of
each phase what has been checked (`PhaseInv`); and `ColoredOnce`. That last one
needs all the others: `checkForMasters` colors a node without looking whether it
is a state, and is right to, since it takes it from inside an operation.
Theorems: `TypeCorrect`, `StatesDiffer`, `OperationsAreValid`. They hold for
every function `encodeArch`, hence for any collision of the hash.

The search decides with a solver which branch it takes, and pops its stack on
the strength of the answer. `BranchesAssumption` says what it may rely on:
nothing but a condition branches; the `then` part of a condition is not empty
and has the next number (`ThenIsNext`, of the graphs as they are
built, see Optimizer_proofs), and does not begin with the head of the loop.
The module begins with lemmas about symbolic execution, by induction on the
number of statements: what is executed behind a path starts from what the
path has computed, and a satisfiable set of conditions stays satisfiable with
one more condition or with its negation (`BranchesStayOpen`). From this follows
`PathsInv`: the stack has one entry for every branching that is still open, each
a successor of its node (`SearchFitsPath`), and the conditions of every path
that is kept hold together (`PathsAreFeasible`). `WhileInv` follows the indexes
of the loop's head and the codes of the turns through each retreat
(`LoopIndexesFit`). `CodeRepeats` says that a path is given up because two codes
are the same; that the turns are the same then (`GivesUpOnRepetition`) holds for
a hash with no collision among the turns of that loop, `EncodingTellsApart`,
which is the theorem's hypothesis (`LoopTurns`; with one loop they are finitely
many). `SlavesInv` remembers the verdict of `checkForSlaves`; that its counts and
flags amount to each port once, the inputs first, is a pigeonhole argument
(`SlavesOnce`), from which `EachSlaveServed`.

`NoPathTwice` says that the search never finds the same path again. `OnceInv`
compares the paths it has found with where it stands: none of them goes along
the present path (`Along`) to the node that is next, and at each branching that
is open none of them goes on with the successor that is still on the stack,
which is not the one the present path went on with (`Untried`). Of the
operations that are kept `KeptOnce` says that they differ, those of different
states by their first node (`OriginInv`), and that a new round begins with none.

**Wishbone_proofs**, for every number of slaves and under `MessagesAssumption`
(what a master can ask and a slave reply), has an invariant `BusInv` that says
of every request where it is: `MasterSide` lists the eight situations of agent
and interconnect (no request, not seen, passed on, answered, nobody's,
withdrawn, over, its end seen) with what the wires hold in each, `SlaveSide` the
five of an agent of a slave, `Timely` that the agent of a slave sees the end of
a request before the interconnect, which polls once in a delta cycle, looks for
the next, `NoStaleAck` that no acknowledgement is left when a request starts.
Theorems: `BusTypes`, `BusImplemented`, the refinement of `Bus`, and
`EdgesAreRead`. They have the hypothesis `HarmlessLeftOvers`: the registers that
no constructor initializes do not by chance hold a request or an acknowledgement.
The code does not see to that (the hazard at `MasterAgent.h:86`).

**Hardware_proofs** carries these results through the whole translation
(`SearchInvariance`, `HandedOver`): once the search has succeeded nothing
touches what it found. `CreateInv` says that operations are objects in a
sequence that only grows, and that the lists of the module and of its states are
functions of the operations kept; `OperationListsAgree` follows. It is what the
suite relies on: three lists are kept by hand in the code, and an operation that
is dropped has to leave all of them. The module also ties the symbolic execution
to the run: if a sequence of statements is executed symbolically and its
conditions hold of the registers and ports, then each statement does in the
program what was said of it.

**Circuit_proofs** proves `HardwareFollows` for every set of programs
(`CircuitFollows`): whatever happens at the ports, a circuit that satisfies the
suite is at the program's state, its registers hold what the variables hold, and
what the program offers is on its signals. It assumes what `Hardware` says of the
modules (`RunAssumption`): nodes are numbered from 0 as `setupInitialCFG` does,
statements read inputs and write outputs, and the program begins with the
assignments that `createInitSection2` puts in front of every module. The last
one is needed: a variable without an initial value would be committed to nothing
in the reset property. The argument has two halves.

* *What an operation is* (`MadeInv`, of the translation alone). A path that is
  kept begins at the state it was searched from, one after the other
  (`OriginInv`, `OrderInv`; the reset's path is the first), goes from state to
  state with none in between (`StatesInv`, from `FindOperations_proofs`), and
  comes unchanged through `ExtendRawOperation` (`RawInv`). An operation is the
  statements of such a path, or a wait (`OpsInv`), and once it is reconstructed
  it says what their symbolic execution says (`SaidInv`), for all variables met so
  far; since the reset's operation is the first and meets all variables, that is
  all of them (`ResetMeetsAll`). Hence every operation refers only to what
  is set when it starts (`MadeClean`): nothing in the reset, everything but the
  flag of a `try_write` elsewhere. And what the removal of unused variables keeps
  depends on nothing it removed (`KeptKnows`).
* *What the circuit does* (`WalkInv`). The circuit decides with the ports of the
  moment what happens until the next state, the program finds out statement by
  statement. So between two states the invariant speaks of the values `v` that the
  variables had when the last state was left: the program is on the path of
  every operation that applies, and what it has computed and written so far is
  what the symbolic execution of that path says, with `v` put in (`Between`,
  `Passes`). A branch keeps this because its condition is one of those the operation
  assumes. At a state the path ends, and the commitments evaluated by the circuit
  are the values of the program (`ArrivesAt`). The property holds of every
  operation that applies, however many there are.

How many there are is `OneApplies`. Half of it is proved for every program:
there is never more than one (`NoTwoApply`, whatever registers and ports hold;
`AppliesOnce`, in the run). Three things come together.

* *The paths differ*: `NoPathTwice`, above.
* *So do the ways through a path* (`NoWayTwice`, by `WaysInv`).
  `ExtendRawOperation` turns the slave reads of a path over like the digits of a
  counter, with a stack and a map of what was tried. `TurnInv` says of each way
  of the path that came up before: some read on the stack took place on it that
  does not now, and those below it on the stack are what they were (`Turned`).
  So the way that comes next differs from it, and when the stack is empty no way
  of the path is left. It needs that the stack holds nothing but reads of the
  path, each once (`PushOnce`).
* *Operations that differ say so* (`ApartInv`). Two operations of a state that
  begin alike part at a condition, one of them requiring it and the other its
  negation, with the same symbolic value on both sides since both have said the
  same before (`SameUpto`, `BranchSays`), or at a slave read that takes place on
  one of them only (`SyncSays`): `WaysApart`. Two that begin differently, one of
  them with a communication that succeeds and the other with one that fails or
  waits, require the partner to be there and not to be there (`PartnerApart`).
  Hence the assumptions of any two have a condition on which they differ
  (`Contrary`), and no choice of registers and ports fulfils both.

Nor is a way left out (`EveryWayCreated`, by `EveryInv` and `HaveInv`). While the
stack is turned over, each way of the path has come up or is still ahead
(`Ahead`): where it first differs from the current one, the current one takes a
read that it leaves out (`WhereDiffers`). A turn keeps this (`AheadStays`), and
with an empty stack nothing is ahead (`NoneAhead`). The path from the reset is not
turned over and need not be, since `checkForSlaves` lets no slave read onto it
(`ResetReadsNothing`). Each way then has its operation, and where it starts with
a blocking communication one more: for the call that comes back without success,
or for the wait. With `NoWayTwice`, each is made once.

The other half of `OneApplies`, that some property applies, still does not hold of
every program.

From the same invariants, `NotifiedOnTime` proves `NotifiedIsOffered`: what is
notified in a state is exactly what the program offers or waits for there. It has
one more hypothesis, `PeeksNoInput`: no module asks `peek()` of a blocking
input. All programs of the run satisfy it (they peek at outputs), and it cannot be
dropped: the register that keeps the answer makes an operation a user of the port, and
TLC then finds the input notified although nothing is read (the hazard at
`CreatePropertySuite.cpp:240`). The argument: the suite notifies a blocking
input for what the operations that start at a node mention, and between
that node and the next state no other blocking input is met
(`HearsOwn`, from `StatesInv`: inner nodes do not block); it notifies an output where the
operation that ends there gives it a value, which by `ArrivesAt` is
where the program has written it; and the program writes to outputs only
(`WrittenInv`).

**Optimizer_proofs** has two results about the graph of every thread, under
what clang's layout of an endless loop gives (`SourcesAssumption`, `LaidOut`): every
block leads on somewhere, an operand to another operand or to the whole
condition, and blocks are numbered backwards, so that an edge leads to a smaller
number unless it enters the head of a loop or leaves it. All threads of the runs
satisfy it; a function's graph has an end that leads nowhere, and is left out.

The first is `NeighboursMirror` (`MirrorKept`): the searches that follow walk it forwards and backwards and
must see the same edges. The property is not inductive: a node
that is removed is replaced, in the lists of its neighbours, by the neighbours on
the other side, and if a node could be its own neighbour there, or follow another
one twice, the surgery would leave something behind. The argument has two parts.

* *While blocks are searched* (`BuildInv`): each block is in the map once and its
  successors are those of clang's that were visited (`MapInv`), a block
  that has no successor yet has a pending call (`TodoInv`), and every block was reached
  from another (`Reached`). When no call is pending, every block leads on, and
  `CreateRealCFG` makes a graph of it whose lists hold nothing twice, mirror each
  other, and have no cycle that does not pass a `while`, by the order of clang's
  numbers (`BuiltShape`).
* *While nodes are removed* (`Shape`): taking out a node that is not a `while`
  keeps all of that, with the order as the witness (`WithoutShape`), hence so
  does taking out any number of them, one after the other (`LeftShape`).
  What the analyses remove are assignments and conditions, never the head of the
  loop (`LivenessKeeps`).

The second is `ThenIsNext` (`ThenNumbered`), what the graph search may rely on
when it reads off two numbers which branch was taken. The invariant `ThenInv`
says of every condition in the map that its `then` branch is the block behind
it and its first successor, or that this branch is what the search visits next;
so no other branch can come in between, and none can have been met before
(`ThenUnknown`). That needs a hypothesis, `ThenEntered`: nothing leads into a
`then` branch but its condition. All threads of the runs satisfy it except that of
`or_skips_condition`, where an operand is taken for one that leads to the whole
condition and the search goes on in the `then` branch: the finding is what the
hypothesis excludes. After the optimizer has numbered the nodes again the property does not
hold (`else_read_as_then`).

Only model-checked:

* everything under fairness: `WriteReturns`, `MasterCallsReturn`, `Delivered`,
  `RequestsAnswered`, `Stops`; the prover has no rules for it;
* `ModelTypeOK` and `ReturnsAsCalled`: the flattening is a RECURSIVE operator,
  and the prover takes no module that has one;
* what does not hold of every program, so that only a run can say of which it
  does: that some property applies in every state, the other half of `OneApplies`
  (the finding `reread_loses_operation`), `RulesMet` and `SameOutputs` (the findings of
  the optimizer).

## 5. Findings

Each is the result of a run that TLC ends with a counterexample;
`PROJECT.json` quotes the lines.

1. `states_unsearched`: a spurious path whose candidate is a state already ends
   the translation before all states are searched (`FindOperations.cpp:245`).
2. `reread_loses_operation`: a condition on a value that was read on the way to
   a state is held against the value that is read after it
   (`ReconstructOperations.cpp:267`).
3. `liveness_stops_early`: the traversals of the liveness analysis end when a
   count stays the same, not when no flag changes (`LivenessAnalysis.cpp:63`);
   an assignment that is needed is removed.
4. `else_read_as_then`: after the only statement of an else-if branch is removed
   the following else branch gets the number that marks a then branch
   (`RenumberCFG.cpp:61`).
5. `or_skips_condition`: for some conditions joined by `||` the search through
   clang's blocks never reaches the block that has the whole condition
   (`CFGFactory.cpp:208`).
6. `response_overwritten`: the interconnect of the bus takes left-over signals
   for those of the master and withdraws an answer the master has not read
   (`example/Whishbone/ESL/Interconnect.h:138`).

Three more disagreements are recorded as hazards, without a run of their own:
functions with a return in an inner branch, which are refused
(`FindEndNode.cpp:58`; the run `optimizer` has them), conditions left over by
the removal of others (`LivenessAnalysis.cpp:118`), and `peek` behind a
comparison (`FindStateBacktrack.cpp:128`).

## 6. Not modelled, and why

* The model factory's visitors, the printers, the command line, the AML front
  end and the vendored code copy or print structures and have no behaviour of
  their own.
* The optimizers of expressions (values, ranges, simplification, and those that
  run over finished operations) are decided by arithmetic and a solver.
* Arithmetic, compound and array types, calls of functions in expressions:
  conditions compare a variable with a value, alone or joined by `&&` and `||`.
* Operations that take several steps, with the time points at which their
  notify signals pulse: an operation of the model takes one step.
* Merging of equal branches (`MergeRedundantIfElse`, option mrc): it rewrites
  clang's blocks before the graph is made, by ranges of block numbers.
* `ExpandCommunications` is not called by this version.
* Of the SystemC library, timed waits with a positive delay: `WAIT_TIME` is 0.

## 7. Plan

1. Done: the channels and two designs built on them; the graph from clang's
   blocks; functions; dead assignments and numbering; the search for operations
   with its backtracks; operations, property suite and a circuit that satisfies
   it, beside the running program; proofs of the channels, of the FIFO, of the
   bus, of the graph as it is built and as nodes are removed, of the search and
   its paths, of the operations' lists, of the circuit, and that no two
   properties of a state contradict each other.
2. *EncodeArch*: the 64 bit hash, and two turns of a loop it does not tell apart
   (a module of TLC runs only).
3. States in front of the loop, for which no backtrack exists
   (`FindStateBacktrack.cpp:34`): which operations are then missing.
4. Operations of several steps, with the pulses of their notify signals.
5. *MergeRedundantIfElse*: branches that are not next to each other are merged,
   which changes the order in which conditions are asked.
6. Proofs: for which programs some property applies in every state, the other
   half of `OneApplies`. What it takes: a condition on the values with which a
   state can be entered that the backtracks respect (no variable that is read on
   the way to a state is read again and compared behind it).
