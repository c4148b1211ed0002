--------------------------- MODULE Infobot_proof ---------------------------
(***************************************************************************)
(* What infobot confirmed survives failures and restarts, for any names    *)
(* and values.                                                             *)
(***************************************************************************)
EXTENDS Infobot, TLAPS

\* A change under way is in memory and unpromised; one that is saved is on disk.
UnderWay ==
    step # "idle" =>
        /\ up /\ heard # Unset
        /\ facts[heard.name] = heard.value
        /\ promised[heard.name] = Unset

Saved == step = "ack" => disk = facts

\* Without a map there is no fact and nothing under way, so nothing to save.
Mapless == ~hasMap => up /\ step = "idle" /\ facts = Empty /\ disk = Empty

\* The inductive invariant.
IInv == TypeOK /\ UnderWay /\ Saved /\ Durable /\ Remembered /\ InStep /\ Mapless

\* The initial states satisfy it.
LEMMA InitInv == Init => IInv
<1> SUFFICES ASSUME Init PROVE IInv
  OBVIOUS
<1>1. TypeOK
  BY DEF Init, TypeOK, Facts, Empty
<1>2. UnderWay /\ Saved /\ Durable /\ Remembered /\ InStep /\ Mapless
  BY DEF Init, UnderWay, Saved, Durable, Remembered, InStep, Mapless
<1> QED
  BY <1>1, <1>2 DEF IInv

\* Going down forgets the memory and keeps the disk, which is what Durable is
\* about; nothing is under way.
LEMMA DownInv ==
    ASSUME IInv, Down, UNCHANGED promised
    PROVE  IInv'
<1>1. TypeOK'
  BY DEF IInv, TypeOK, Down, Facts, Empty
<1>2. UnderWay' /\ Saved' /\ Durable' /\ Remembered' /\ InStep' /\ Mapless'
  BY DEF IInv, Down, UnderWay, Saved, Durable, Remembered, InStep, Mapless
<1> QED
  BY <1>1, <1>2 DEF IInv

\* A change in memory voids the promise about its own name only.
LEMMA ChangeInv ==
    ASSUME IInv, hasMap, NEW n \in Names, NEW v \in Values \cup {Absent}, Change(n, v)
    PROVE  IInv'
<1>1. TypeOK'
  BY DEF IInv, TypeOK, Change, Facts
<1>2. heard' # Unset /\ UnderWay'
  BY <1>1, InfobotAssumption DEF IInv, TypeOK, Change, UnderWay, Facts
<1>3. Saved' /\ InStep' /\ Mapless'
  BY DEF Change, Saved, InStep, Mapless
<1>4. Durable' /\ Remembered'
  BY DEF IInv, TypeOK, Change, Durable, Remembered, Facts
<1> QED
  BY <1>1, <1>2, <1>3, <1>4 DEF IInv

\* Every step keeps the inductive invariant.
LEMMA StepInv == IInv /\ [Next]_vars => IInv'
<1> SUFFICES ASSUME IInv, [Next]_vars PROVE IInv'
  OBVIOUS
<1>1. CASE Load
  <2>1. TypeOK'
    BY <1>1 DEF IInv, TypeOK, Load, Loaded, Facts, Empty
  <2>2. UnderWay' /\ Saved' /\ Durable' /\ InStep'
    BY <1>1 DEF IInv, Load, Loaded, UnderWay, Saved, Durable, InStep
  <2>4. Mapless'
    BY <1>1 DEF IInv, Load, Loaded, UnderWay, Mapless
  <2>3. Remembered'
    BY <1>1 DEF IInv, Load, Loaded, Durable, Remembered
  <2> QED
    BY <2>1, <2>2, <2>3, <2>4 DEF IInv
<1>2. CASE Save
  <2>1. TypeOK'
    BY <1>2 DEF IInv, TypeOK, Save
  <2>2. UnderWay' /\ Saved' /\ Remembered' /\ InStep' /\ Mapless'
    BY <1>2 DEF IInv, Save, UnderWay, Saved, Remembered, InStep, Mapless
  <2>3. Durable'
    BY <1>2, InfobotAssumption DEF IInv, TypeOK, Save, UnderWay, Remembered, Durable, Facts
  <2> QED
    BY <2>1, <2>2, <2>3 DEF IInv
<1>3. CASE SaveFails
  BY <1>3 DEF IInv, SaveFails, TypeOK, UnderWay, Saved, Durable, Remembered, InStep, Mapless
<1>4. CASE Respond
  <2>1. TypeOK'
    BY <1>4 DEF IInv, TypeOK, UnderWay, Respond
  <2>2. UnderWay' /\ Saved' /\ Mapless'
    BY <1>4 DEF IInv, Respond, UnderWay, Saved, Mapless
  <2>3. Durable' /\ Remembered'
    BY <1>4, InfobotAssumption
    DEF IInv, TypeOK, Respond, UnderWay, Saved, Durable, Remembered, Facts
  <2>4. InStep'
    BY <1>4, InfobotAssumption DEF IInv, TypeOK, Respond, UnderWay, Saved, InStep, Loaded, Facts
  <2> QED
    BY <2>1, <2>2, <2>3, <2>4 DEF IInv
<1>5. CASE Crash
  BY <1>5, DownInv DEF Crash, IInv, TypeOK
<1>6. ASSUME NEW n \in Names, NEW v \in Values, HumanFactSet(n, v) PROVE IInv'
  BY <1>6, ChangeInv DEF HumanFactSet
<1>7. ASSUME NEW n \in Names, HumanFactForget(n) PROVE IInv'
  <2>1. hasMap
    BY <1>7 DEF HumanFactForget, IInv, TypeOK, Mapless, Empty
  <2> QED
    BY <1>7, <2>1, ChangeInv DEF HumanFactForget
<1>8. ASSUME NEW n \in Names, SetPanics(n) PROVE IInv'
  BY <1>8, DownInv DEF SetPanics
<1>9. CASE UNCHANGED vars
  BY <1>9 DEF vars, IInv, TypeOK, UnderWay, Saved, Durable, Remembered, InStep, Loaded, Mapless
<1> QED
  BY <1>1, <1>2, <1>3, <1>4, <1>5, <1>6, <1>7, <1>8, <1>9 DEF Next

\* The inductive invariant holds of every reachable state.
LEMMA Invariance == Spec => []IInv
<1> QED
  BY InitInv, StepInv, PTL DEF Spec

\* What infobot confirmed is on disk until the next message about that name,
\* through failed saves and crashes.
THEOREM DurableAlways == Spec => []Durable
<1>1. IInv => Durable  BY DEF IInv
<1> QED
  BY <1>1, Invariance, PTL

\* And it is what LookupFact answers while the process runs.
THEOREM RememberedAlways == Spec => []Remembered
<1>1. IInv => Remembered  BY DEF IInv
<1> QED
  BY <1>1, Invariance, PTL

\* Memory and disk differ only after a failed save.
THEOREM InStepAlways == Spec => []InStep
<1>1. IInv => InStep  BY DEF IInv
<1> QED
  BY <1>1, Invariance, PTL

\* Setting a fact panics only on an emptied store, with nothing confirmed at stake:
\* Mapless says that the disk is empty, Durable that it holds what was confirmed.
THEOREM NothingToLoseAlways == Spec => []NothingToLose
<1>1. IInv => NothingToLose
  BY DEF IInv, TypeOK, Mapless, Durable, NothingToLose, Empty
<1> QED
  BY <1>1, Invariance, PTL
=============================================================================
