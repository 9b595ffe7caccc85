------------------------------ MODULE LeftRight ------------------------------
(***************************************************************************)
(* LeftRight<T> (c10/util/LeftRight.h), the structure the dispatcher keeps *)
(* its operator table in: two instances of T, readers that never wait, and *)
(* writers, one at a time, that change the instance no reader is in, make  *)
(* it the foreground one, and then change the other.  The loads, stores    *)
(* and increments of the atomics are the steps.                            *)
(***************************************************************************)
EXTENDS Integers, FiniteSets

CONSTANTS Reader,     \* threads that read
          Writer,     \* calls of write(), each with its writeFunc
          Value,      \* states of the protected T
          InitValue,  \* the state the constructor leaves both instances in
          NoValue,    \* what a thread that is not reading holds
          Torn,       \* what is seen of an instance while writeFunc runs on it
          writeFunc,  \* writeFunc[w][v]: the state call w turns v into
          NoWriter    \* the holder of a free mutex

ASSUME ReaderAssumption == IsFiniteSet(Reader)

ASSUME ValueAssumption ==
  /\ InitValue \in Value
  /\ NoValue \notin Value /\ Torn \notin Value
  /\ writeFunc \in [Writer -> [Value -> Value]]
  /\ NoWriter \notin Writer

VARIABLES
  counters,                \* _counters
  foregroundCounterIndex,  \* _foregroundCounterIndex
  foregroundDataIndex,     \* _foregroundDataIndex
  data,                    \* _data
  writeMutex,              \* _writeMutex: its holder
  wpc,                     \* where the holder is in _write()
  rpc,                     \* where each reader is in read()
  counterOf,               \* the counter a reader has loaded the index of
  dataOf                   \* the instance a reader has loaded the index of

vars == <<counters, foregroundCounterIndex, foregroundDataIndex, data,
          writeMutex, wpc, rpc, counterOf, dataOf>>

indexVars == <<foregroundCounterIndex, foregroundDataIndex>>
readVars == <<counters, rpc, counterOf, dataOf>>
writeVars == <<data, writeMutex, wpc>>

Index == {0, 1}

\* index ^ 1
Other(i) == 1 - i

Init ==
  /\ counters = [i \in Index |-> 0]
  /\ foregroundCounterIndex = 0
  /\ foregroundDataIndex = 0
  /\ data = [i \in Index |-> InitValue]
  /\ writeMutex = NoWriter
  /\ wpc = "idle"
  /\ rpc = [r \in Reader |-> "out"]
  /\ counterOf = [r \in Reader |-> 0]
  /\ dataOf = [r \in Reader |-> 0]

-------------------------------------------------------------------------------
(* read().                                                                  *)

LoadCounterIndex(r) ==
  /\ rpc[r] = "out"
  /\ rpc' = [rpc EXCEPT ![r] = "loaded"]
  /\ counterOf' = [counterOf EXCEPT ![r] = foregroundCounterIndex]
  /\ UNCHANGED <<counters, dataOf, indexVars, writeVars>>

\* The constructor of IncrementRAII.
Increment(r) ==
  /\ rpc[r] = "loaded"
  /\ rpc' = [rpc EXCEPT ![r] = "counted"]
  /\ counters' = [counters EXCEPT ![counterOf[r]] = @ + 1]
  /\ UNCHANGED <<counterOf, dataOf, indexVars, writeVars>>

\* The instance is chosen and readFunc starts on it.
LoadDataIndex(r) ==
  /\ rpc[r] = "counted"
  /\ rpc' = [rpc EXCEPT ![r] = "reading"]
  /\ dataOf' = [dataOf EXCEPT ![r] = foregroundDataIndex]
  /\ UNCHANGED <<counters, counterOf, indexVars, writeVars>>

\* Mutant of Decrement: gives back the counter that is in the foreground now.
DecrementForeground(r) ==
  /\ rpc[r] = "reading"
  /\ rpc' = [rpc EXCEPT ![r] = "out"]
  /\ counters' = [counters EXCEPT ![foregroundCounterIndex] = @ - 1]
  /\ UNCHANGED <<counterOf, dataOf, indexVars, writeVars>>

\* readFunc returns or throws, and the destructor of IncrementRAII runs.
Decrement(r) ==
  /\ rpc[r] = "reading"
  /\ rpc' = [rpc EXCEPT ![r] = "out"]
  /\ counters' = [counters EXCEPT ![counterOf[r]] = @ - 1]
  /\ UNCHANGED <<counterOf, dataOf, indexVars, writeVars>>

-------------------------------------------------------------------------------
(* write(), by the holder of the mutex.  Nobody else stores the two         *)
(* indices, so its local copies of them are their values.                   *)

Goto(from, to) ==
  /\ wpc = from
  /\ wpc' = to

Lock(w) ==
  /\ writeMutex = NoWriter
  /\ writeMutex' = w
  /\ Goto("idle", "write1")
  /\ UNCHANGED <<data, indexVars, readVars>>

Background == Other(foregroundDataIndex)

\* writeFunc(_data[localDataIndex ^ 1]) starts.
BeginCall(from, to) ==
  /\ Goto(from, to)
  /\ UNCHANGED <<data, writeMutex, indexVars, readVars>>

FirstCallReturns ==
  /\ Goto("calling1", "switchData")
  /\ data' = [data EXCEPT ![Background] = writeFunc[writeMutex][@]]
  /\ UNCHANGED <<writeMutex, indexVars, readVars>>

SecondCallReturns ==
  /\ Goto("calling2", "idle")
  /\ data' = [data EXCEPT ![Background] = writeFunc[writeMutex][@]]
  /\ writeMutex' = NoWriter
  /\ UNCHANGED <<indexVars, readVars>>

\* Mutant of CallThrows: the invariant is not recovered.
ThrowWithoutCopy ==
  /\ wpc \in {"calling1", "calling2"}
  /\ wpc' = "idle"
  /\ writeMutex' = NoWriter
  /\ UNCHANGED <<data, indexVars, readVars>>

\* The call throws, having changed the instance in part or not at all: it is
\* copied from the foreground one, and the exception leaves write().
CallThrows ==
  /\ wpc \in {"calling1", "calling2"}
  /\ wpc' = "idle"
  /\ data' = [data EXCEPT ![Background] = data[foregroundDataIndex]]
  /\ writeMutex' = NoWriter
  /\ UNCHANGED <<indexVars, readVars>>

SwitchData ==
  /\ Goto("switchData", "wait1")
  /\ foregroundDataIndex' = Other(foregroundDataIndex)
  /\ UNCHANGED <<foregroundCounterIndex, data, writeMutex, readVars>>

\* Mutant of WaitForZero: without the first wait.
WaitOnlyOnce(from, to) ==
  /\ Goto(from, to)
  /\ from = "wait2" => counters[Other(foregroundCounterIndex)] = 0
  /\ UNCHANGED <<data, writeMutex, indexVars, readVars>>

\* _waitForBackgroundCounterToBeZero sees the zero.
WaitForZero(from, to) ==
  /\ Goto(from, to)
  /\ counters[Other(foregroundCounterIndex)] = 0
  /\ UNCHANGED <<data, writeMutex, indexVars, readVars>>

SwitchCounter ==
  /\ Goto("switchCounter", "wait2")
  /\ foregroundCounterIndex' = Other(foregroundCounterIndex)
  /\ UNCHANGED <<foregroundDataIndex, data, writeMutex, readVars>>

-------------------------------------------------------------------------------

Read(r) ==
  \/ LoadCounterIndex(r)
  \/ Increment(r)
  \/ LoadDataIndex(r)
  \/ Decrement(r)

Write ==
  \/ BeginCall("write1", "calling1")
  \/ FirstCallReturns
  \/ SwitchData
  \/ WaitForZero("wait1", "switchCounter")
  \/ SwitchCounter
  \/ WaitForZero("wait2", "write2")
  \/ BeginCall("write2", "calling2")
  \/ SecondCallReturns
  \/ CallThrows

Next ==
  \/ \E r \in Reader : Read(r)
  \/ \E w \in Writer : Lock(w)
  \/ Write

Spec == Init /\ [][Next]_vars

\* A thread inside read() or write() is scheduled, and readFunc and writeFunc
\* end.  Nobody has to start a read or a write.
FairSpec ==
  /\ Spec
  /\ WF_vars(Write)
  /\ \A r \in Reader : WF_vars(Increment(r) \/ LoadDataIndex(r) \/ Decrement(r))

-------------------------------------------------------------------------------
(* Properties.                                                              *)

TypeOK ==
  /\ counters \in [Index -> Int]
  /\ foregroundCounterIndex \in Index
  /\ foregroundDataIndex \in Index
  /\ data \in [Index -> Value]
  /\ writeMutex \in Writer \cup {NoWriter}
  /\ wpc \in {"idle", "write1", "calling1", "switchData", "wait1",
              "switchCounter", "wait2", "write2", "calling2"}
  /\ (wpc = "idle") <=> (writeMutex = NoWriter)
  /\ rpc \in [Reader -> {"out", "loaded", "counted", "reading"}]
  /\ counterOf \in [Reader -> Index]
  /\ dataOf \in [Reader -> Index]

\* What is seen of instance i: while writeFunc runs on it, it is in pieces.
View(i) ==
  IF wpc \in {"calling1", "calling2"} /\ i = Background THEN Torn ELSE data[i]

Seen == [r \in Reader |-> IF rpc[r] = "reading" THEN View(dataOf[r]) ELSE NoValue]

Cell == INSTANCE AtomicCell WITH value <- data[foregroundDataIndex], seen <- Seen

\* Readers and writers see one value that changes in one step: what a read
\* works on is the state of one moment and stays so until readFunc returns,
\* however many writes go by, and no write is lost or applied twice.
ReadsAreAtomic == Cell!Spec

\* Whenever no write is under way the two instances hold the same state, also
\* after a writeFunc that threw on the first or on the second instance.
InstancesAgree == (wpc = "idle") => (data[0] = data[1])

\* A write ends, whatever readers come and go: neither wait for a counter to
\* be zero can be kept up by readers that enter during it.
WriteReturns == (wpc # "idle") ~> (wpc = "idle")
===============================================================================
