------------------------------ MODULE ScKernel ------------------------------
(***************************************************************************)
(* The part of the SystemC scheduler that the channels of                  *)
(* example/Interfaces rely on.  libsystemc is not in the repository; this  *)
(* is what `wait(event)', `event.notify()' and `wait(0, SC_PS)' have to do *)
(* for the calls of Blocking.hpp, MasterSlave.hpp and ImportantState.h.    *)
(*                                                                         *)
(* SystemC threads are coroutines: the current process runs, alone, until  *)
(* it waits.  An immediate notification makes the processes waiting on the *)
(* event runnable at once and is lost when nobody waits.  A zero-time wait *)
(* ends in the next delta cycle, which starts when nothing is runnable.    *)
(***************************************************************************)
CONSTANTS Proc,    \* the SC_THREADs
          NoProc   \* "no process is running"

ASSUME NoProcAssumption == NoProc \notin Proc

VARIABLES current,   \* the process that runs, or NoProc
          runnable,  \* the processes the scheduler may pick
          delta      \* the processes inside a zero-time wait

kernel == << current, runnable, delta >>

KernelTypeOK == /\ current \in Proc \cup {NoProc}
                /\ runnable \subseteq Proc
                /\ delta \subseteq Proc

KernelInit == /\ current = NoProc
              /\ runnable = Proc
              /\ delta = {}

(* The evaluation phase picks any runnable process. *)
Dispatch(p) == /\ current = NoProc
               /\ p \in runnable
               /\ current' = p
               /\ runnable' = runnable \ {p}
               /\ UNCHANGED delta

(* The delta notification phase ends every zero-time wait. *)
DeltaCycle == /\ current = NoProc
              /\ runnable = {}
              /\ delta # {}
              /\ runnable' = delta
              /\ delta' = {}
              /\ UNCHANGED current

(* The current process p waits on an event while it notifies `woken', the  *)
(* set of processes that wait on another event.                            *)
Block(woken) == /\ current' = NoProc
                /\ runnable' = runnable \cup woken
                /\ UNCHANGED delta

(* Mutants: the waiting process is forgotten; the wait ends in the same     *)
(* evaluation phase.                                                       *)
ZeroWaitOfNobody(p, woken) == /\ current' = NoProc
                              /\ runnable' = runnable \cup woken
                              /\ delta' = delta \cup {NoProc}

ZeroWaitInSamePhase(p, woken) == /\ current' = NoProc
                                 /\ runnable' = runnable \cup woken \cup {p}
                                 /\ UNCHANGED delta

(* The current process p enters `wait(0, SC_PS)' after notifying `woken'. *)
ZeroWait(p, woken) == /\ current' = NoProc
                      /\ runnable' = runnable \cup woken
                      /\ delta' = delta \cup {p}

(* The current process notifies `woken' and goes on running. *)
Notify(woken) == /\ runnable' = runnable \cup woken
                 /\ UNCHANGED << current, delta >>

=============================================================================
