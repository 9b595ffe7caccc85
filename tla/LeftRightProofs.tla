--------------------------- MODULE LeftRightProofs ---------------------------
(***************************************************************************)
(* LeftRight, for any number of readers and writers and any writeFunc:     *)
(* it is correctly typed, its instances agree between writes, and it       *)
(* implements AtomicCell.                                                  *)
(***************************************************************************)
EXTENDS LeftRight, FiniteSetTheorems, TLAPS

\* The readers counter i counts.
Registered(i) ==
  {r \in Reader : rpc[r] \in {"counted", "reading"} /\ counterOf[r] = i}

Counted == \A i \in Index : counters[i] = Cardinality(Registered(i))

\* Readers in the background instance, left there by the switch of the data
\* index: any until the first wait is over, then only ones the foreground
\* counter counts, then only ones the background counter counts, then none.
Stragglers ==
  \A r \in Reader :
    (rpc[r] = "reading" /\ dataOf[r] = Background) =>
      \/ wpc = "wait1"
      \/ wpc = "switchCounter" /\ counterOf[r] = foregroundCounterIndex
      \/ wpc = "wait2" /\ counterOf[r] = Other(foregroundCounterIndex)

\* The instance a write has reached is one application of its writeFunc ahead
\* of the other.
OneAhead ==
  /\ wpc \in {"idle", "write1", "calling1"} => data[0] = data[1]
  /\ wpc = "switchData" =>
       data[Background] = writeFunc[writeMutex][data[foregroundDataIndex]]
  /\ wpc \in {"wait1", "switchCounter", "wait2", "write2", "calling2"} =>
       data[foregroundDataIndex] = writeFunc[writeMutex][data[Background]]

IInv == TypeOK /\ Counted /\ Stragglers /\ OneAhead

-------------------------------------------------------------------------------

LEMMA OtherIndex ==
  /\ \A i \in Index : Other(i) \in Index /\ Other(i) # i /\ Other(Other(i)) = i
  /\ \A i, j \in Index : i # j => j = Other(i)
BY DEF Index, Other

LEMMA InitIInv == Init => IInv
<1> SUFFICES ASSUME Init PROVE IInv
  OBVIOUS
<1>1. TypeOK
  BY ValueAssumption DEF Init, TypeOK, Index
<1>2. Counted
  <2>1. \A i \in Index : Registered(i) = {}
    BY DEF Init, Registered
  <2> QED BY <2>1, FS_EmptySet DEF Counted, Init
<1>3. Stragglers /\ OneAhead
  BY DEF Init, Stragglers, OneAhead, Index
<1> QED BY <1>1, <1>2, <1>3 DEF IInv

LEMMA TypeStep == ASSUME TypeOK, [Next]_vars PROVE TypeOK'
<1>1. ASSUME NEW r \in Reader, Read(r) PROVE TypeOK'
  <2>1. CASE LoadCounterIndex(r)
    BY <2>1 DEF TypeOK, LoadCounterIndex, indexVars, writeVars
  <2>2. CASE Increment(r)
    BY <2>2 DEF TypeOK, Increment, indexVars, writeVars
  <2>3. CASE LoadDataIndex(r)
    BY <2>3 DEF TypeOK, LoadDataIndex, indexVars, writeVars
  <2>4. CASE Decrement(r)
    BY <2>4 DEF TypeOK, Decrement, indexVars, writeVars
  <2> QED BY <1>1, <2>1, <2>2, <2>3, <2>4 DEF Read
<1>2. ASSUME NEW w \in Writer, Lock(w) PROVE TypeOK'
  BY <1>2, ValueAssumption DEF TypeOK, Lock, Goto, indexVars, readVars
<1>3. CASE Write
  <2>1. Background \in Index
    BY OtherIndex DEF TypeOK, Background
  <2>2. CASE BeginCall("write1", "calling1") \/ BeginCall("write2", "calling2")
    BY <2>2 DEF TypeOK, BeginCall, Goto, indexVars, readVars
  <2>3. CASE FirstCallReturns
    <3>1. writeFunc[writeMutex][data[Background]] \in Value
      BY <2>1, <2>3, ValueAssumption DEF TypeOK, FirstCallReturns, Goto
    <3> QED BY <2>1, <2>3, <3>1 DEF TypeOK, FirstCallReturns, Goto, indexVars, readVars
  <2>4. CASE SecondCallReturns
    <3>1. writeFunc[writeMutex][data[Background]] \in Value
      BY <2>1, <2>4, ValueAssumption DEF TypeOK, SecondCallReturns, Goto
    <3> QED BY <2>1, <2>4, <3>1 DEF TypeOK, SecondCallReturns, Goto, indexVars, readVars
  <2>5. CASE CallThrows
    BY <2>1, <2>5 DEF TypeOK, CallThrows, indexVars, readVars
  <2>6. CASE SwitchData
    BY <2>6, OtherIndex DEF TypeOK, SwitchData, Goto, readVars
  <2>7. CASE WaitForZero("wait1", "switchCounter") \/ WaitForZero("wait2", "write2")
    BY <2>7 DEF TypeOK, WaitForZero, Goto, indexVars, readVars
  <2>8. CASE SwitchCounter
    BY <2>8, OtherIndex DEF TypeOK, SwitchCounter, Goto, readVars
  <2> QED BY <1>3, <2>2, <2>3, <2>4, <2>5, <2>6, <2>7, <2>8 DEF Write
<1>4. CASE UNCHANGED vars
  BY <1>4 DEF TypeOK, vars
<1> QED BY <1>1, <1>2, <1>3, <1>4 DEF Next

\* The counters count the readers between their increment and their
\* decrement, whichever counter the index they loaded earlier names.
LEMMA CountedStep == ASSUME TypeOK, Counted, [Next]_vars PROVE Counted'
<1>1. \A i \in Index : IsFiniteSet(Registered(i))
  BY ReaderAssumption, FS_Subset DEF Registered
<1>2. ASSUME NEW r \in Reader, LoadCounterIndex(r) \/ LoadDataIndex(r) PROVE Counted'
  <2>1. \A i \in Index : Registered(i)' = Registered(i)
    BY <1>2 DEF TypeOK, Registered, LoadCounterIndex, LoadDataIndex
  <2> QED BY <1>2, <2>1 DEF Counted, LoadCounterIndex, LoadDataIndex
<1>3. ASSUME NEW r \in Reader, Increment(r) PROVE Counted'
  <2> SUFFICES ASSUME NEW i \in Index PROVE counters'[i] = Cardinality(Registered(i)')
    BY DEF Counted
  <2>1. CASE i = counterOf[r]
    <3>1. Registered(i)' = Registered(i) \cup {r} /\ r \notin Registered(i)
      BY <1>3, <2>1 DEF TypeOK, Registered, Increment
    <3>2. Cardinality(Registered(i)') = Cardinality(Registered(i)) + 1
      BY <1>1, <3>1, FS_AddElement
    <3> QED BY <1>3, <2>1, <3>2 DEF Counted, Increment, TypeOK
  <2>2. CASE i # counterOf[r]
    <3>1. Registered(i)' = Registered(i)
      BY <1>3, <2>2 DEF TypeOK, Registered, Increment
    <3> QED BY <1>3, <2>2, <3>1 DEF Counted, Increment, TypeOK
  <2> QED BY <2>1, <2>2
<1>4. ASSUME NEW r \in Reader, Decrement(r) PROVE Counted'
  <2> SUFFICES ASSUME NEW i \in Index PROVE counters'[i] = Cardinality(Registered(i)')
    BY DEF Counted
  <2>1. CASE i = counterOf[r]
    <3>1. Registered(i)' = Registered(i) \ {r} /\ r \in Registered(i)
      BY <1>4, <2>1 DEF TypeOK, Registered, Decrement
    <3>2. Cardinality(Registered(i)') = Cardinality(Registered(i)) - 1
      BY <1>1, <3>1, FS_RemoveElement
    <3> QED BY <1>4, <2>1, <3>2 DEF Counted, Decrement, TypeOK
  <2>2. CASE i # counterOf[r]
    <3>1. Registered(i)' = Registered(i)
      BY <1>4, <2>2 DEF TypeOK, Registered, Decrement
    <3> QED BY <1>4, <2>2, <3>1 DEF Counted, Decrement, TypeOK
  <2> QED BY <2>1, <2>2
<1>5. CASE UNCHANGED readVars
  <2>1. \A i \in Index : Registered(i)' = Registered(i)
    BY <1>5 DEF Registered, readVars
  <2> QED BY <1>5, <2>1 DEF Counted, readVars
<1>6. ASSUME NEW w \in Writer, Lock(w) PROVE UNCHANGED readVars
  BY <1>6 DEF Lock
<1>7. CASE Write
  BY <1>5, <1>7 DEF Write, BeginCall, FirstCallReturns, SecondCallReturns, CallThrows,
                    SwitchData, WaitForZero, SwitchCounter
<1>8. CASE UNCHANGED vars
  BY <1>5, <1>8 DEF vars, readVars
<1> QED BY <1>2, <1>3, <1>4, <1>5, <1>6, <1>7, <1>8 DEF Next, Read

\* A counter seen at zero counts nobody.
LEMMA NobodyRegistered ==
  ASSUME TypeOK, Counted, NEW i \in Index, counters[i] = 0
  PROVE  Registered(i) = {}
BY ReaderAssumption, FS_Subset, FS_EmptySet DEF Counted, Registered

LEMMA StragglersStep == ASSUME IInv, [Next]_vars PROVE Stragglers'
<1> USE DEF IInv
<1>0. TypeOK' /\ TypeOK
  BY TypeStep
<1>1. ASSUME NEW q \in Reader, Read(q) PROVE Stragglers'
  <2> SUFFICES ASSUME NEW r \in Reader, (rpc[r] = "reading" /\ dataOf[r] = Background)'
               PROVE  \/ wpc' = "wait1"
                      \/ wpc' = "switchCounter" /\ counterOf'[r] = foregroundCounterIndex'
                      \/ wpc' = "wait2" /\ counterOf'[r] = Other(foregroundCounterIndex')
    BY DEF Stragglers
  <2>1. Background' = Background /\ Background # foregroundDataIndex
    BY <1>0, <1>1, OtherIndex DEF Read, LoadCounterIndex, Increment, LoadDataIndex, Decrement,
                      indexVars, Background, TypeOK
  <2>2. rpc[r] = "reading" /\ dataOf[r] = Background /\ counterOf'[r] = counterOf[r]
    BY <1>0, <1>1, <2>1 DEF Read, LoadCounterIndex, Increment, LoadDataIndex, Decrement, TypeOK
  <2> QED BY <1>1, <2>2 DEF Stragglers, Read, LoadCounterIndex, Increment, LoadDataIndex,
                            Decrement, indexVars, writeVars
<1>2. ASSUME NEW w \in Writer, Lock(w) PROVE Stragglers'
  BY <1>2 DEF Stragglers, Lock, Goto, indexVars, readVars, Background
<1>3. CASE \/ BeginCall("write1", "calling1") \/ BeginCall("write2", "calling2")
           \/ FirstCallReturns \/ SecondCallReturns \/ CallThrows
  BY <1>3 DEF Stragglers, BeginCall, FirstCallReturns, SecondCallReturns, CallThrows, Goto,
              indexVars, readVars, Background
<1>4. CASE SwitchData
  BY <1>4 DEF Stragglers, SwitchData, Goto
<1>5. CASE WaitForZero("wait1", "switchCounter")
  <2>1. Registered(Other(foregroundCounterIndex)) = {}
    BY <1>0, <1>5, NobodyRegistered, OtherIndex DEF WaitForZero, TypeOK
  <2>2. \A r \in Reader : rpc[r] = "reading" => counterOf[r] = foregroundCounterIndex
    BY <1>0, <2>1, OtherIndex DEF Registered, TypeOK
  <2> QED BY <1>5, <2>2 DEF Stragglers, WaitForZero, Goto, indexVars, readVars
<1>6. CASE SwitchCounter
  BY <1>0, <1>6, OtherIndex DEF Stragglers, SwitchCounter, Goto, readVars, Background, TypeOK
<1>7. CASE WaitForZero("wait2", "write2")
  <2>1. Registered(Other(foregroundCounterIndex)) = {}
    BY <1>0, <1>7, NobodyRegistered, OtherIndex DEF WaitForZero, TypeOK
  <2>2. \A r \in Reader : rpc[r] = "reading" => counterOf[r] # Other(foregroundCounterIndex)
    BY <2>1 DEF Registered
  <2> QED BY <1>7, <2>2 DEF Stragglers, WaitForZero, Goto, indexVars, readVars, Background
<1>8. CASE UNCHANGED vars
  BY <1>8 DEF vars, Stragglers, Background
<1> QED BY <1>1, <1>2, <1>3, <1>4, <1>5, <1>6, <1>7, <1>8 DEF Next, Write

LEMMA OneAheadStep == ASSUME TypeOK, OneAhead, [Next]_vars PROVE OneAhead'
<1>0. /\ Background \in Index /\ Background # foregroundDataIndex
      /\ foregroundDataIndex \in Index
  BY OtherIndex DEF TypeOK, Background
<1>1. ASSUME NEW r \in Reader, Read(r) PROVE OneAhead'
  BY <1>1 DEF OneAhead, Read, LoadCounterIndex, Increment, LoadDataIndex, Decrement,
              indexVars, writeVars, Background
<1>2. ASSUME NEW w \in Writer, Lock(w) PROVE OneAhead'
  BY <1>2 DEF OneAhead, Lock, Goto, indexVars
<1>3. CASE BeginCall("write1", "calling1") \/ BeginCall("write2", "calling2")
  BY <1>3 DEF OneAhead, BeginCall, Goto, indexVars, Background
<1>4. CASE FirstCallReturns
  <2>1. data[Background] = data[foregroundDataIndex]
    BY <1>0, <1>4 DEF OneAhead, FirstCallReturns, Goto, Index
  <2> QED BY <1>0, <1>4, <2>1 DEF OneAhead, FirstCallReturns, Goto, indexVars, Background, TypeOK
<1>5. CASE SecondCallReturns
  <2>1. data'[Background] = data'[foregroundDataIndex]
    BY <1>0, <1>5 DEF OneAhead, SecondCallReturns, Goto, TypeOK
  <2>2. data'[0] = data'[1]
    BY <1>0, <2>1 DEF Index
  <2> QED BY <1>5, <2>2 DEF OneAhead, SecondCallReturns, Goto
<1>6. CASE CallThrows
  <2>1. data'[Background] = data'[foregroundDataIndex]
    BY <1>0, <1>6 DEF CallThrows, TypeOK
  <2>2. data'[0] = data'[1]
    BY <1>0, <2>1 DEF Index
  <2> QED BY <1>6, <2>2 DEF OneAhead, CallThrows
<1>7. CASE SwitchData
  <2>1. foregroundDataIndex' = Background /\ Background' = foregroundDataIndex
    BY <1>0, <1>7, OtherIndex DEF SwitchData, Background
  <2> QED BY <1>7, <2>1 DEF OneAhead, SwitchData, Goto
<1>8. CASE WaitForZero("wait1", "switchCounter") \/ WaitForZero("wait2", "write2") \/ SwitchCounter
  BY <1>8 DEF OneAhead, WaitForZero, SwitchCounter, Goto, indexVars, Background
<1>9. CASE UNCHANGED vars
  BY <1>9 DEF vars, OneAhead, Background
<1> QED BY <1>1, <1>2, <1>3, <1>4, <1>5, <1>6, <1>7, <1>8, <1>9 DEF Next, Write

\* The inductive invariant, for the temporal theorems below.
THEOREM Invariant == Spec => []IInv
<1>1. IInv /\ [Next]_vars => IInv'
  BY TypeStep, CountedStep, StragglersStep, OneAheadStep DEF IInv
<1> QED BY InitIInv, <1>1, PTL DEF Spec

\* Types: the atomics, the instances and the place of every thread, and the
\* mutex is held exactly while a write is under way.
THEOREM TypeCorrect == Spec => []TypeOK
BY Invariant, PTL DEF IInv

\* Between writes the two instances of LeftRight hold the same state, also
\* after a writeFunc that threw.
THEOREM InstancesEqual == Spec => []InstancesAgree
<1>1. IInv => InstancesAgree
  BY DEF IInv, OneAhead, InstancesAgree
<1> QED BY Invariant, <1>1, PTL

-------------------------------------------------------------------------------
(* LeftRight implements AtomicCell: the write takes effect for everybody at *)
(* the switch of the data index, a read begins where it loads that index.   *)

LEMMA CellInit == Init => Cell!Init
BY DEF Init, Cell!Init, Seen, Index

\* A step of a writer on the background instance is invisible: no reader is
\* in that instance.
LEMMA BackgroundStep ==
  ASSUME IInv, UNCHANGED <<indexVars, readVars>>,
         wpc \in {"write1", "calling1", "write2", "calling2"},
         \/ data' = data
         \/ \E v \in Value : data' = [data EXCEPT ![Background] = v]
  PROVE  UNCHANGED Cell!vars
<1>1. /\ Background \in Index /\ foregroundDataIndex \in Index
      /\ Background # foregroundDataIndex /\ Background' = Background
  BY OtherIndex DEF IInv, TypeOK, Background, indexVars
<1>2. \A i \in Index : i # Background => data'[i] = data[i] /\ View(i) = data[i] /\ View(i)' = data'[i]
  BY <1>1 DEF IInv, TypeOK, View
<1>3. \A r \in Reader : rpc[r] = "reading" => dataOf[r] \in Index /\ dataOf[r] # Background
  BY DEF IInv, Stragglers, TypeOK
<1>4. \A r \in Reader : rpc[r] = "reading" => View(dataOf[r])' = View(dataOf[r])
  BY <1>2, <1>3 DEF readVars
<1>5. Seen' = Seen
  BY <1>4 DEF Seen, readVars
<1>6. data'[foregroundDataIndex'] = data[foregroundDataIndex]
  BY <1>1, <1>2 DEF indexVars
<1> QED BY <1>5, <1>6 DEF Cell!vars

\* A step that leaves the instances and the data index alone, and is outside
\* the calls of writeFunc before and after, shows nothing of itself.
LEMMA QuietStep ==
  ASSUME UNCHANGED <<data, foregroundDataIndex, rpc, dataOf>>,
         wpc \notin {"calling1", "calling2"}, wpc' \notin {"calling1", "calling2"}
  PROVE  UNCHANGED Cell!vars
<1>1. \A i : View(i)' = View(i)
  BY DEF View, Background
<1>2. Seen' = Seen
  BY <1>1 DEF Seen
<1> QED BY <1>2 DEF Cell!vars

LEMMA CellStep == ASSUME IInv, [Next]_vars PROVE [Cell!Next]_(Cell!vars)
<1>0. /\ TypeOK /\ foregroundDataIndex \in Index
      /\ Background \in Index /\ Background # foregroundDataIndex
      /\ View(foregroundDataIndex) = data[foregroundDataIndex]
  BY OtherIndex DEF IInv, TypeOK, Background, View
<1>1. ASSUME NEW r \in Reader, Read(r) PROVE [Cell!Next]_(Cell!vars)
  <2>0. \A i : View(i)' = View(i)
    BY <1>1 DEF Read, LoadCounterIndex, Increment, LoadDataIndex, Decrement,
                indexVars, writeVars, View, Background
  <2>1. data'[foregroundDataIndex'] = data[foregroundDataIndex]
    BY <1>1 DEF Read, LoadCounterIndex, Increment, LoadDataIndex, Decrement,
                indexVars, writeVars
  <2>2. CASE LoadCounterIndex(r) \/ Increment(r)
    <3>1. Seen' = Seen
      BY <1>0, <2>0, <2>2 DEF Seen, LoadCounterIndex, Increment, TypeOK
    <3> QED BY <2>1, <3>1 DEF Cell!vars
  <2>3. CASE LoadDataIndex(r)
    <3>1. Seen[r] = NoValue
      BY <2>3 DEF Seen, LoadDataIndex
    <3>2. Seen' = [Seen EXCEPT ![r] = data[foregroundDataIndex]]
      BY <1>0, <2>0, <2>3 DEF Seen, LoadDataIndex, TypeOK
    <3> QED BY <2>1, <3>1, <3>2 DEF Cell!Next, Cell!BeginRead
  <2>4. CASE Decrement(r)
    <3>1. Seen' = [Seen EXCEPT ![r] = NoValue]
      BY <1>0, <2>0, <2>4 DEF Seen, Decrement, TypeOK
    <3> QED BY <2>1, <3>1 DEF Cell!Next, Cell!EndRead
  <2> QED BY <1>1, <2>2, <2>3, <2>4 DEF Read
<1>2. ASSUME NEW w \in Writer, Lock(w) PROVE [Cell!Next]_(Cell!vars)
  BY <1>2, QuietStep DEF Lock, Goto, indexVars, readVars
<1>3. CASE BeginCall("write1", "calling1") \/ BeginCall("write2", "calling2")
  BY <1>3, BackgroundStep DEF BeginCall, Goto
<1>4. CASE FirstCallReturns \/ SecondCallReturns \/ CallThrows
  <2>1. \E v \in Value : data' = [data EXCEPT ![Background] = v]
    <3>1. writeMutex \in Writer
      BY <1>0, <1>4 DEF TypeOK, FirstCallReturns, SecondCallReturns, CallThrows, Goto
    <3>2. writeFunc[writeMutex][data[Background]] \in Value /\ data[foregroundDataIndex] \in Value
      BY <1>0, <3>1, ValueAssumption DEF TypeOK
    <3> QED BY <1>4, <3>2 DEF FirstCallReturns, SecondCallReturns, CallThrows
  <2> QED BY <1>4, <2>1, BackgroundStep DEF FirstCallReturns, SecondCallReturns, CallThrows, Goto
<1>5. CASE SwitchData
  <2>1. writeMutex \in Writer
    BY <1>0, <1>5 DEF TypeOK, SwitchData, Goto
  <2>2. data'[foregroundDataIndex'] = writeFunc[writeMutex][data[foregroundDataIndex]]
    BY <1>5 DEF IInv, OneAhead, SwitchData, Goto, Background
  <2>3. \A i : View(i)' = View(i)
    BY <1>5 DEF SwitchData, Goto, View
  <2>4. Seen' = Seen
    BY <1>5, <2>3 DEF Seen, SwitchData, readVars
  <2> QED BY <2>1, <2>2, <2>4 DEF Cell!Next, Cell!Write
<1>6. CASE WaitForZero("wait1", "switchCounter") \/ WaitForZero("wait2", "write2") \/ SwitchCounter
  BY <1>6, QuietStep DEF WaitForZero, SwitchCounter, Goto, indexVars, readVars
<1>7. CASE UNCHANGED vars
  <2>1. Seen' = Seen
    BY <1>7 DEF vars, Seen, View, Background
  <2> QED BY <1>7, <2>1 DEF vars, Cell!vars
<1> QED BY <1>1, <1>2, <1>3, <1>4, <1>5, <1>6, <1>7 DEF Next, Write

\* LeftRight gives its readers and writers one value: every read sees a state
\* that some prefix of the writes produced, whole and unchanged until it is
\* over, without ever taking the mutex.
THEOREM ReadsAtomic == Spec => ReadsAreAtomic
<1>1. Spec => Cell!Init /\ [][Cell!Next]_(Cell!vars)
  BY Invariant, CellInit, CellStep, PTL DEF Spec
<1> QED BY <1>1 DEF ReadsAreAtomic, Cell!Spec
===============================================================================
