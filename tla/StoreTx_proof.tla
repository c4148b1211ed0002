--------------------------- MODULE StoreTx_proof ---------------------------
(***************************************************************************)
(* bolt's locks under the plugins' transactions: exclusion, no circular    *)
(* wait, what a late reply does to all other goroutines for good, and that *)
(* no update is lost, for any goroutines, scripts and contents.            *)
(***************************************************************************)
EXTENDS StoreData, SequenceTheorems, TLAPS

\* Only writers take rwlock and grow the file; only readers share mmaplock.
Modes ==
    \A c \in Clients :
        /\ pc[c] \in {"rwlock", "grow", "growing"} => Writes(c)
        /\ pc[c] \in {"mmaplock", "ending"} => Reads(c)

\* The inductive invariant.
IInv == TypeOK /\ Modes /\ Exclusion

\* A goroutine's transaction is a read or a write.
LEMMA ModeOfTx ==
    ASSUME TypeOK, NEW c \in Clients
    PROVE  Tx(c) \in Transactions /\ (Reads(c) <=> ~Writes(c))
<1>1. Script[c] \in Seq(Transactions) /\ stage[c] \in DOMAIN Script[c]
  BY StoreTxAssumption DEF TypeOK
<1>2. Tx(c) \in Transactions
  BY <1>1 DEF Tx
<1> QED
  BY <1>2 DEF Reads, Writes, Transactions

\* The first step into a transaction is to the lock its kind begins with.
LEMMA BeginsAt ==
    ASSUME NEW c \in Clients, NEW i \in DOMAIN Script[c]
    PROVE  \/ Begins(c, i) = "rwlock" /\ Script[c][i].mode = "write"
           \/ Begins(c, i) = "metalock" /\ Script[c][i].mode = "read"
<1>1. Script[c] \in Seq(Transactions)
  BY StoreTxAssumption
<1>2. Script[c][i] \in Transactions
  BY <1>1
<1> QED
  BY <1>2 DEF Begins, Transactions

\* Every script has a first transaction.
LEMMA FirstStage == \A c \in Clients : 1 \in DOMAIN Script[c]
<1> TAKE c \in Clients
<1>1. Script[c] \in Seq(Transactions) /\ Script[c] # <<>>
  BY StoreTxAssumption
<1> QED
  BY <1>1, EmptySeq

\* The initial states satisfy the invariant.
LEMMA InitInv == Init => IInv
<1> SUFFICES ASSUME Init PROVE IInv
  OBVIOUS
<1>1. \A c \in Clients : 1 \in DOMAIN Script[c]
  BY FirstStage
<1>2. TypeOK
  <2>1. pc \in [Clients -> Places] /\ receiver \in [Clients -> {"none", "listening", "gone"}]
    BY DEF Init, Places
  <2>2. stage \in [Clients -> Nat \ {0}] /\ \A c \in Clients : stage[c] \in DOMAIN Script[c]
    BY <1>1 DEF Init
  <2> QED
    BY <2>1, <2>2 DEF Init, TypeOK
<1>3. Modes /\ Exclusion
  BY DEF Init, Modes, Exclusion, HoldsRwlock, Reading, Inside
<1> QED
  BY <1>2, <1>3 DEF IInv

\* A step that moves one goroutine within its transaction keeps the invariant if
\* it takes neither rwlock nor mmaplock, or takes them when they are free.
LEMMA MoveInv ==
    ASSUME IInv, NEW c \in Clients, NEW place \in Places,
           pc' = [pc EXCEPT ![c] = place],
           receiver' \in [Clients -> {"none", "listening", "gone"}],
           UNCHANGED <<stage, cancelled, closed>>,
           place \in {"rwlock", "grow", "growing"} => Writes(c),
           place \in {"mmaplock", "ending"} => Reads(c),
           Writes(c) /\ place \in Inside \cup {"metalock", "grow", "growing"} =>
               \A d \in Clients : d # c => ~HoldsRwlock(d),
           place = "growing" => \A d \in Clients : ~Reading(d),
           Reads(c) /\ place \in Inside => \A d \in Clients : pc[d] # "growing"
    PROVE  IInv'
<1>1. pc \in [Clients -> Places]
  BY DEF IInv, TypeOK
<1>2. pc' = [pc EXCEPT ![c] = place] /\ stage' = stage
  OBVIOUS
<1>3. TypeOK'
  BY <1>1, <1>2 DEF IInv, TypeOK
<1>4. \A d \in Clients : (Writes(d)' <=> Writes(d)) /\ (Reads(d)' <=> Reads(d))
  BY <1>2 DEF Writes, Reads, Tx
<1>5. \A d \in Clients : d # c => pc'[d] = pc[d]
  BY <1>1, <1>2
<1>6. pc'[c] = place
  BY <1>1, <1>2
<1>7. Modes'
  BY <1>4, <1>5, <1>6 DEF IInv, Modes
<1>8. \A d \in Clients : d # c => (HoldsRwlock(d)' <=> HoldsRwlock(d)) /\ (Reading(d)' <=> Reading(d))
  BY <1>4, <1>5 DEF HoldsRwlock, Reading
<1>9. HoldsRwlock(c)' => \A d \in Clients : d # c => ~HoldsRwlock(d)
  BY <1>4, <1>6 DEF HoldsRwlock
<1>10. \A d, e \in Clients : HoldsRwlock(d)' /\ HoldsRwlock(e)' => d = e
  BY <1>8, <1>9 DEF IInv, Exclusion
<1>11. ASSUME NEW d \in Clients, NEW e \in Clients, pc'[d] = "growing" PROVE ~Reading(e)'
  <2>1. CASE d = c /\ e = c
    BY <2>1, <1>6, <1>11 DEF Reading, Inside
  <2>2. CASE d = c /\ e # c
    BY <2>2, <1>6, <1>8, <1>11
  <2>3. CASE d # c /\ e = c
    BY <2>3, <1>4, <1>5, <1>6, <1>11 DEF Reading
  <2>4. CASE d # c /\ e # c
    BY <2>4, <1>5, <1>8, <1>11 DEF IInv, Exclusion
  <2> QED
    BY <2>1, <2>2, <2>3, <2>4
<1> QED
  BY <1>3, <1>7, <1>10, <1>11 DEF IInv, Exclusion

\* The same of a step that does nothing else.
LEMMA GoesInv ==
    ASSUME IInv, NEW c \in Clients, NEW place \in Places, Goes(c, place),
           place \in {"rwlock", "grow", "growing"} => Writes(c),
           place \in {"mmaplock", "ending"} => Reads(c),
           Writes(c) /\ place \in Inside \cup {"metalock", "grow", "growing"} =>
               \A d \in Clients : d # c => ~HoldsRwlock(d),
           place = "growing" => \A d \in Clients : ~Reading(d),
           Reads(c) /\ place \in Inside => \A d \in Clients : pc[d] # "growing"
    PROVE  IInv'
<1>1. receiver' \in [Clients -> {"none", "listening", "gone"}]
  BY DEF IInv, TypeOK, Goes
<1> QED
  BY <1>1, MoveInv DEF Goes

\* A goroutine that begins a transaction, or is back at its select, has no lock.
LEMMA LocklessInv ==
    ASSUME IInv, TypeOK', NEW c \in Clients,
           \A d \in Clients : d # c => pc'[d] = pc[d] /\ stage'[d] = stage[d],
           \/ pc'[c] = "idle"
           \/ stage'[c] \in DOMAIN Script[c] /\ pc'[c] = Begins(c, stage'[c])
    PROVE  IInv'
<1>1. \/ pc'[c] = "rwlock" /\ Writes(c)'
      \/ pc'[c] = "metalock" /\ Reads(c)'
      \/ pc'[c] = "idle"
  BY BeginsAt DEF Writes, Reads, Tx
<1>2. \A d \in Clients : d # c => (Writes(d)' <=> Writes(d)) /\ (Reads(d)' <=> Reads(d))
  BY DEF Writes, Reads, Tx
<1>3. Modes'
  BY <1>1, <1>2 DEF IInv, Modes
<1>4. Reads(c)' => ~Writes(c)'
  BY DEF Reads, Writes, Tx
<1>5. ~HoldsRwlock(c)' /\ ~Reading(c)' /\ pc'[c] # "growing"
  BY <1>1, <1>4 DEF HoldsRwlock, Reading, Inside
<1>6. \A d \in Clients : d # c => (HoldsRwlock(d)' <=> HoldsRwlock(d)) /\ (Reading(d)' <=> Reading(d))
  BY <1>2 DEF HoldsRwlock, Reading
<1>7. Exclusion'
  BY <1>5, <1>6 DEF IInv, Exclusion
<1> QED
  BY <1>3, <1>7 DEF IInv

\* Where a transaction's first lock is waited for.
LEMMA BeginsPlace ==
    ASSUME NEW c \in Clients, NEW i \in DOMAIN Script[c]
    PROVE  Begins(c, i) \in Places
<1> QED
  BY BeginsAt DEF Places

\* Leaving a transaction for the next one, or for the select, lets all locks go.
LEMMA OverInv ==
    ASSUME IInv, NEW c \in Clients, Over(c)
    PROVE  IInv'
<1>1. pc \in [Clients -> Places] /\ stage \in [Clients -> Nat \ {0}]
  BY DEF IInv, TypeOK
<1>2. \A d \in Clients : d # c => pc'[d] = pc[d] /\ stage'[d] = stage[d]
  BY <1>1 DEF Over
<1>3. CASE stage[c] < Len(Script[c]) /\ pc' = [pc EXCEPT ![c] = Begins(c, stage[c] + 1)]
              /\ stage' = [stage EXCEPT ![c] = @ + 1] /\ UNCHANGED receiver
  <2>1. Script[c] \in Seq(Transactions) /\ Len(Script[c]) \in Nat
    BY StoreTxAssumption
  <2>2. stage[c] + 1 \in DOMAIN Script[c]
    BY <1>1, <1>3, <2>1
  <2>3. stage'[c] = stage[c] + 1 /\ pc'[c] = Begins(c, stage'[c])
    BY <1>1, <1>3
  <2>4. Begins(c, stage[c] + 1) \in Places
    BY <2>2, BeginsPlace
  <2>5. pc' \in [Clients -> Places] /\ stage' \in [Clients -> Nat \ {0}]
    BY <1>1, <1>3, <2>4
  <2>6. TypeOK'
    BY <1>2, <1>3, <2>2, <2>3, <2>5 DEF IInv, TypeOK, Over
  <2> QED
    BY <1>2, <2>2, <2>3, <2>6, LocklessInv
<1>4. CASE pc' = [pc EXCEPT ![c] = "idle"] /\ receiver' = [receiver EXCEPT ![c] = "none"] /\ UNCHANGED stage
  <2>1. TypeOK'
    BY <1>1, <1>4 DEF IInv, TypeOK, Over, Places
  <2> QED
    BY <1>1, <1>2, <1>4, <2>1, LocklessInv
<1> QED
  BY <1>3, <1>4 DEF Over

\* So does taking a message at the select.
LEMMA ReceiveInv ==
    ASSUME IInv, NEW c \in Clients, Receive(c)
    PROVE  IInv'
<1>1. pc \in [Clients -> Places] /\ stage \in [Clients -> Nat \ {0}]
  BY DEF IInv, TypeOK
<1>2. 1 \in DOMAIN Script[c]
  BY FirstStage
<1>3. Begins(c, 1) \in Places
  BY <1>2, BeginsPlace
<1>4. pc' \in [Clients -> Places] /\ stage' \in [Clients -> Nat \ {0}]
  BY <1>1, <1>3 DEF Receive
<1>5. stage'[c] = 1 /\ pc'[c] = Begins(c, 1)
  BY <1>1 DEF Receive
<1>6. \A d \in Clients : d # c => pc'[d] = pc[d] /\ stage'[d] = stage[d]
  BY <1>1 DEF Receive
<1>7. TypeOK'
  BY <1>2, <1>4, <1>5, <1>6 DEF IInv, TypeOK, Receive
<1> QED
  BY <1>2, <1>5, <1>6, <1>7, LocklessInv

\* Whoever has rwlock is the only one.
LEMMA OneWriter ==
    ASSUME IInv, NEW c \in Clients, HoldsRwlock(c)
    PROVE  \A d \in Clients : d # c => ~HoldsRwlock(d)
<1> QED
  BY DEF IInv, Exclusion

\* Every step keeps the invariant.
LEMMA StepInv == IInv /\ [Next]_vars => IInv'
<1> SUFFICES ASSUME IInv, [Next]_vars PROVE IInv'
  OBVIOUS
<1> USE DEF Inside, Places, Step
<1>0. TypeOK /\ Modes /\ Exclusion /\ pc \in [Clients -> Places]
  BY DEF IInv, TypeOK
<1>1. CASE Cancel \/ Close \/ UNCHANGED vars
  <2>1. pc' = pc /\ stage' = stage /\ receiver' = receiver /\ cancelled' \in BOOLEAN /\ closed' \in BOOLEAN
    BY <1>0, <1>1 DEF Cancel, Close, vars, TypeOK
  <2> QED
    BY <2>1 DEF IInv, TypeOK, Modes, Exclusion, HoldsRwlock, Reading, Writes, Reads, Tx
<1>2. ASSUME NEW c \in Clients, TimerFires(c) PROVE IInv'
  BY <1>0, <1>2 DEF IInv, TypeOK, TimerFires, Modes, Exclusion, HoldsRwlock, Reading, Writes, Reads, Tx
<1>3. ASSUME NEW c \in Clients, Exit(c) PROVE IInv'
  BY <1>0, <1>3, GoesInv DEF Exit
<1>4. ASSUME NEW c \in Clients, LockRw(c) PROVE IInv'
  BY <1>0, <1>4, ModeOfTx, GoesInv DEF LockRw, Free
<1>5. ASSUME NEW c \in Clients, BeginWrite(c) PROVE IInv'
  <2>1. \A d \in Clients : d # c => ~HoldsRwlock(d)
    BY <1>5, OneWriter DEF BeginWrite, HoldsRwlock
  <2> QED
    BY <1>0, <1>5, <2>1, ModeOfTx, GoesInv DEF BeginWrite
<1>6. ASSUME NEW c \in Clients, LockMeta(c) PROVE IInv'
  BY <1>0, <1>6, ModeOfTx, GoesInv DEF LockMeta
<1>7. ASSUME NEW c \in Clients, BeginRead(c) PROVE IInv'
  <2>1. Reads(c) /\ \A d \in Clients : pc[d] # "growing"
    BY <1>0, <1>7 DEF BeginRead, Free, Remapping, Modes
  <2> QED
    BY <1>0, <1>7, <2>1, ModeOfTx, GoesInv DEF BeginRead
<1>8. ASSUME NEW c \in Clients, StartCall(c) \/ CallReturns(c) \/ StartReply(c) PROVE IInv'
  <2>1. Writes(c) => \A d \in Clients : d # c => ~HoldsRwlock(d)
    BY <1>8, OneWriter DEF StartCall, CallReturns, StartReply, HoldsRwlock
  <2>2. Reads(c) => \A d \in Clients : pc[d] # "growing"
    BY <1>0, <1>8 DEF StartCall, CallReturns, StartReply, Exclusion, Reading
  <2>3. PICK place \in {"calling", "work", "replying"} : Goes(c, place)
    BY <1>8 DEF StartCall, CallReturns, StartReply
  <2> QED
    BY <2>1, <2>2, <2>3, ModeOfTx, GoesInv
<1>9. ASSUME NEW c \in Clients, StartGrow(c) PROVE IInv'
  <2>1. \A d \in Clients : d # c => ~HoldsRwlock(d)
    BY <1>9, OneWriter DEF StartGrow, Done, HoldsRwlock
  <2> QED
    BY <1>0, <1>9, <2>1, ModeOfTx, GoesInv DEF StartGrow
<1>10. ASSUME NEW c \in Clients, Grow(c) PROVE IInv'
  <2>1. Writes(c) /\ \A d \in Clients : d # c => ~HoldsRwlock(d)
    BY <1>0, <1>10, OneWriter DEF Grow, Modes, HoldsRwlock
  <2> QED
    BY <1>0, <1>10, <2>1, ModeOfTx, GoesInv DEF Grow, Free
<1>11. ASSUME NEW c \in Clients, EndRead(c) PROVE IInv'
  BY <1>0, <1>11, ModeOfTx, GoesInv DEF EndRead
<1>12. ASSUME NEW c \in Clients, CommitOrRollback(c) \/ CommitGrown(c) \/ RemoveTx(c) PROVE IInv'
  BY <1>12, OverInv DEF CommitOrRollback, CommitGrown, RemoveTx
<1>13. ASSUME NEW c \in Clients, ReplyTaken(c) PROVE IInv'
  <2>1. receiver' \in [Clients -> {"none", "listening", "gone"}] /\ UNCHANGED <<stage, cancelled, closed>>
    BY <1>0, <1>13 DEF ReplyTaken, TypeOK
  <2>2. Writes(c) => \A d \in Clients : d # c => ~HoldsRwlock(d)
    BY <1>13, OneWriter DEF ReplyTaken, HoldsRwlock
  <2>3. Reads(c) => \A d \in Clients : pc[d] # "growing"
    BY <1>0, <1>13 DEF ReplyTaken, Exclusion, Reading
  <2> QED
    BY <1>13, <2>1, <2>2, <2>3, MoveInv DEF ReplyTaken
<1>14. ASSUME NEW c \in Clients, Receive(c) PROVE IInv'
  BY <1>14, ReceiveInv
<1> QED
  BY <1>1, <1>2, <1>3, <1>4, <1>5, <1>6, <1>7, <1>8, <1>9, <1>10, <1>11, <1>12, <1>13, <1>14
  DEF Next

\* The invariant holds of every reachable state.
LEMMA Invariance == Spec => []IInv
<1> QED
  BY InitInv, StepInv, PTL DEF Spec

\* Type correctness of the transactions, for any goroutines and scripts.
THEOREM Typing == Spec => []TypeOK
<1>1. IInv => TypeOK  BY DEF IInv
<1> QED
  BY <1>1, Invariance, PTL

\* bolt's promise under the plugins: one writer at a time, and no reader while the
\* file is mapped anew.
THEOREM ExclusionAlways == Spec => []Exclusion
<1>1. IInv => Exclusion  BY DEF IInv
<1> QED
  BY <1>1, Invariance, PTL

\* The order of the locks is that of the places where they are waited for, with
\* those inside a transaction, who wait for no lock, at its end: among the members
\* of a circle there can be none at the last place, so none at the one before, ...
LEMMA LockOrder == IInv => NoCircle
<1> SUFFICES ASSUME NEW S \in SUBSET Clients, S # {}, \A c \in S : WaitsFor(c) \cap S # {}
             PROVE  FALSE
  BY DEF NoCircle
<1>1. \A c \in S : pc[c] \in {"rwlock", "metalock", "ending", "mmaplock", "grow"}
  BY DEF WaitsFor
<1>2. \A c \in S : pc[c] # "grow"
  BY <1>1 DEF WaitsFor, Reading, Inside
<1>3. \A c \in S : pc[c] # "mmaplock"
  BY <1>1, <1>2 DEF WaitsFor, Remapping
<1>4. \A c \in S : pc[c] \notin {"metalock", "ending"}
  BY <1>1, <1>3 DEF WaitsFor, HoldsMetalock
<1>5. \A c \in S : pc[c] # "rwlock"
  BY <1>1, <1>2, <1>4 DEF WaitsFor, HoldsRwlock, Inside
<1> QED
  BY <1>1, <1>2, <1>3, <1>4, <1>5

\* Waiting for bolt's locks never closes a circle, however many goroutines there are.
THEOREM NoCircleAlways == Spec => []NoCircle
<1> QED
  BY LockOrder, Invariance, PTL

\* A goroutine whose reply is late stays in its send, whoever takes a step.
LEMMA StuckForGood ==
    ASSUME TypeOK, [Next]_vars, NEW c \in Clients, Stuck(c)
    PROVE  Stuck(c)' /\ stage'[c] = stage[c]
<1> USE DEF Step, Goes
<1>0. pc \in [Clients -> Places] /\ receiver \in [Clients -> {"none", "listening", "gone"}]
      /\ stage \in [Clients -> Nat \ {0}]
  BY DEF TypeOK
<1>1. pc[c] = "replying" /\ receiver[c] = "gone"
  BY DEF Stuck
<1>2. CASE Cancel \/ Close \/ UNCHANGED vars
  BY <1>2 DEF Cancel, Close, vars, Stuck
<1>3. ASSUME NEW d \in Clients,
             \/ Receive(d) \/ TimerFires(d) \/ Exit(d) \/ ReplyTaken(d)
             \/ CommitOrRollback(d) \/ CommitGrown(d) \/ RemoveTx(d)
      PROVE  Stuck(c)' /\ stage'[c] = stage[c]
  BY <1>0, <1>1, <1>3
  DEF Stuck, Receive, TimerFires, Exit, ReplyTaken, CommitOrRollback, CommitGrown, RemoveTx, Over, Done
<1>4. ASSUME NEW d \in Clients,
             \/ LockRw(d) \/ BeginWrite(d) \/ LockMeta(d) \/ BeginRead(d)
             \/ StartCall(d) \/ CallReturns(d) \/ StartReply(d)
             \/ StartGrow(d) \/ Grow(d) \/ EndRead(d)
      PROVE  Stuck(c)' /\ stage'[c] = stage[c]
  BY <1>0, <1>1, <1>4
  DEF Stuck, LockRw, BeginWrite, LockMeta, BeginRead, StartCall, CallReturns, StartReply,
      StartGrow, Grow, EndRead, Done
<1> QED
  BY <1>2, <1>3, <1>4 DEF Next

\* A late reply inside a write transaction keeps the writer's lock for good.
THEOREM NoWriteAgainEver == Spec => NoWriteAgain
<1>1. IInv /\ IInv' /\ [Next]_vars => [WriterStuck]_vars
  <2> SUFFICES ASSUME IInv, IInv', [Next]_vars, NEW c \in Clients, Stuck(c), Writes(c)
               PROVE  Stuck(c)' /\ \A d \in Clients \ {c} : ~HoldsRwlock(d)'
    BY DEF WriterStuck
  <2>1. Stuck(c)' /\ stage'[c] = stage[c]
    BY StuckForGood DEF IInv
  <2>2. HoldsRwlock(c)'
    BY <2>1 DEF HoldsRwlock, Stuck, Inside, Writes, Tx
  <2> QED
    BY <2>1, <2>2 DEF IInv, Exclusion
<1> QED
  BY <1>1, Invariance, PTL DEF Spec, NoWriteAgain

\* Who waits to grow the file goes on only when no transaction reads.
LEMMA GrowWaits ==
    ASSUME TypeOK, Next, NEW w \in Clients, pc[w] = "grow", NEW c \in Clients, Reading(c)
    PROVE  pc'[w] = "grow"
<1> USE DEF Step, Goes
<1>0. pc \in [Clients -> Places]
  BY DEF TypeOK
<1>1. CASE Cancel \/ Close
  BY <1>1 DEF Cancel, Close
<1>2. ASSUME NEW d \in Clients,
             \/ Receive(d) \/ TimerFires(d) \/ Exit(d) \/ ReplyTaken(d)
             \/ CommitOrRollback(d) \/ CommitGrown(d) \/ RemoveTx(d)
      PROVE  pc'[w] = "grow"
  BY <1>0, <1>2
  DEF Receive, TimerFires, Exit, ReplyTaken, CommitOrRollback, CommitGrown, RemoveTx, Over, Done
<1>3. ASSUME NEW d \in Clients,
             \/ LockRw(d) \/ BeginWrite(d) \/ LockMeta(d) \/ BeginRead(d)
             \/ StartCall(d) \/ CallReturns(d) \/ StartReply(d)
             \/ StartGrow(d) \/ EndRead(d)
      PROVE  pc'[w] = "grow"
  BY <1>0, <1>3
  DEF LockRw, BeginWrite, LockMeta, BeginRead, StartCall, CallReturns, StartReply, StartGrow, EndRead, Done
<1>4. ASSUME NEW d \in Clients, Grow(d) PROVE pc'[w] = "grow"
  BY <1>4 DEF Grow, Free
<1> QED
  BY <1>1, <1>2, <1>3, <1>4 DEF Next

\* And meanwhile it keeps every transaction from being begun.
LEMMA NoneBegins ==
    ASSUME IInv, Next, NEW w \in Clients, pc[w] = "grow", NEW d \in Clients, pc'[d] = "open"
    PROVE  pc[d] = "open"
<1> USE DEF Step, Goes
<1>0. pc \in [Clients -> Places]
  BY DEF IInv, TypeOK
<1>1. HoldsRwlock(w)
  BY DEF IInv, Modes, HoldsRwlock
<1>2. CASE Cancel \/ Close
  BY <1>2 DEF Cancel, Close
<1>3. ASSUME NEW e \in Clients, TimerFires(e) \/ Exit(e) \/ ReplyTaken(e)
      PROVE  pc[d] = "open"
  BY <1>0, <1>3 DEF TimerFires, Exit, ReplyTaken
<1>4. ASSUME NEW e \in Clients,
             Receive(e) \/ CommitOrRollback(e) \/ CommitGrown(e) \/ RemoveTx(e)
      PROVE  pc[d] = "open"
  BY <1>0, <1>4 DEF Receive, CommitOrRollback, CommitGrown, RemoveTx, Over, Begins
<1>5. ASSUME NEW e \in Clients,
             \/ LockRw(e) \/ LockMeta(e) \/ StartCall(e) \/ CallReturns(e) \/ StartReply(e)
             \/ StartGrow(e) \/ Grow(e) \/ EndRead(e)
      PROVE  pc[d] = "open"
  BY <1>0, <1>5
  DEF LockRw, LockMeta, StartCall, CallReturns, StartReply, StartGrow, Grow, EndRead
<1>6. ASSUME NEW e \in Clients, BeginWrite(e) PROVE pc[d] = "open"
  <2>1. HoldsRwlock(e) /\ e # w
    BY <1>6 DEF BeginWrite, HoldsRwlock
  <2> QED
    BY <1>1, <2>1, OneWriter
<1>7. ASSUME NEW e \in Clients, BeginRead(e) PROVE pc[d] = "open"
  BY <1>7 DEF BeginRead, Free, Remapping
<1> QED
  BY <1>2, <1>3, <1>4, <1>5, <1>6, <1>7 DEF Next

\* A late reply inside a read transaction, and a commit that grows the file, stop
\* every transaction for good.
THEOREM NoneBeginsAgainEver == Spec => NoneBeginsAgain
<1>1. IInv /\ [Next]_vars => [AllStuck]_vars
  <2> SUFFICES ASSUME IInv, Next, NEW c \in Clients, NEW w \in Clients,
                      Stuck(c), Reads(c), pc[w] = "grow"
               PROVE  /\ Stuck(c)' /\ pc'[w] = "grow"
                      /\ \A d \in Clients : pc'[d] = "open" => pc[d] = "open"
    BY DEF AllStuck
  <2>1. Stuck(c)'
    BY StuckForGood DEF IInv
  <2>2. Reading(c)
    BY DEF Stuck, Reading, Inside
  <2> QED
    BY <2>1, <2>2, GrowWaits, NoneBegins DEF IInv
<1> QED
  BY <1>1, Invariance, PTL DEF Spec, NoneBeginsAgain
-----------------------------------------------------------------------------
(* Waiting                                                                 *)

\* Who sends a reply had somebody to send it to.
ReplyOwed == \A c \in Clients : pc[c] = "replying" => receiver[c] # "none"

\* Every step keeps that.
LEMMA ReplyOwedStep == TypeOK /\ ReplyOwed /\ [Next]_vars => ReplyOwed'
<1> SUFFICES ASSUME TypeOK, ReplyOwed, [Next]_vars, NEW c \in Clients, pc'[c] = "replying"
             PROVE  receiver'[c] # "none"
  BY DEF ReplyOwed
<1> USE DEF Step, Goes
<1>0. /\ pc \in [Clients -> Places] /\ receiver \in [Clients -> {"none", "listening", "gone"}]
      /\ stage \in [Clients -> Nat \ {0}]
      /\ pc[c] = "replying" => receiver[c] # "none"
  BY DEF TypeOK, ReplyOwed
<1>1. CASE Cancel \/ Close \/ UNCHANGED vars
  BY <1>0, <1>1 DEF Cancel, Close, vars
<1>2. ASSUME NEW d \in Clients,
             \/ Receive(d) \/ CommitOrRollback(d) \/ CommitGrown(d) \/ RemoveTx(d)
      PROVE  receiver'[c] # "none"
  <2>1. \A i : Begins(d, i) # "replying"
    BY DEF Begins
  <2> QED
    BY <1>0, <1>2, <2>1 DEF Receive, CommitOrRollback, CommitGrown, RemoveTx, Over, Done
<1>3. ASSUME NEW d \in Clients, TimerFires(d) \/ ReplyTaken(d)
      PROVE  receiver'[c] # "none"
  BY <1>0, <1>3 DEF TimerFires, ReplyTaken
<1>4. ASSUME NEW d \in Clients,
             \/ LockRw(d) \/ BeginWrite(d) \/ LockMeta(d) \/ BeginRead(d)
             \/ StartCall(d) \/ CallReturns(d) \/ StartReply(d)
             \/ StartGrow(d) \/ Grow(d) \/ EndRead(d) \/ Exit(d)
      PROVE  receiver'[c] # "none"
  BY <1>0, <1>4
  DEF LockRw, BeginWrite, LockMeta, BeginRead, StartCall, CallReturns, StartReply,
      StartGrow, Grow, EndRead, Exit, Done
<1> QED
  BY <1>1, <1>2, <1>3, <1>4 DEF Next

\* Who neither goes on nor hangs waits, for somebody who is not at its select.
LEMMA WaitsForBusy ==
    ASSUME IInv, ReplyOwed, NEW c \in Clients, pc[c] \notin {"idle", "exited"},
           ~GoesOn(c), ~Hangs(c)
    PROVE  \E d \in WaitsFor(c) : pc[d] \notin {"idle", "exited"}
<1>1. pc[c] \in Places /\ receiver[c] \in {"none", "listening", "gone"}
  BY DEF IInv, TypeOK
<1>2. pc[c] # "replying"
  BY <1>1 DEF GoesOn, Hangs, Stuck, ReplyOwed
<1>3. WaitsFor(c) # {}
  BY <1>1, <1>2 DEF GoesOn, Hangs, Done, Places
<1> QED
  BY <1>3 DEF WaitsFor, HoldsRwlock, HoldsMetalock, Remapping, Reading, Inside

\* Otherwise those of S that are not at their select would wait in a circle.
LEMMA WaitEnds == IInv /\ ReplyOwed => WaitHasEnd
<1> SUFFICES ASSUME IInv, ReplyOwed, NEW c \in Clients, NEW S \in SUBSET Clients,
                    pc[c] \notin {"idle", "exited"}, c \in S,
                    \A d \in S : WaitsFor(d) \subseteq S,
                    \A h \in S : ~GoesOn(h) /\ ~Hangs(h)
             PROVE  FALSE
  BY DEF WaitHasEnd
<1> DEFINE Busy == {d \in S : pc[d] \notin {"idle", "exited"}}
<1>1. Busy \in SUBSET Clients /\ Busy # {}
  OBVIOUS
<1>2. \A d \in Busy : WaitsFor(d) \cap Busy # {}
  BY WaitsForBusy
<1> HIDE DEF Busy
<1> QED
  BY <1>1, <1>2, LockOrder DEF NoCircle

\* Whatever a goroutine waits for in bolt's locks, somebody among those it waits for
\* can go on, or hangs in a call or with a late reply (db.go's locks under store.go).
THEOREM WaitHasEndAlways == Spec => []WaitHasEnd
<1>1. Init => ReplyOwed
  BY DEF Init, ReplyOwed
<1>2. IInv => TypeOK
  BY DEF IInv
<1> QED
  BY <1>1, <1>2, ReplyOwedStep, WaitEnds, Invariance, PTL DEF Spec

-----------------------------------------------------------------------------
(* What is stored                                                          *)

\* Who is inside a transaction, or committing, has a snapshot; a writer's is what is
\* stored now.
SnapshotOK ==
    \A c \in Clients :
        /\ snapshot[c] # NoContent <=> pc[c] \in Inside \cup {"grow", "growing"}
        /\ Writes(c) /\ snapshot[c] # NoContent => snapshot[c] = content

\* The inductive invariant of the transactions with their contents.
DataIInv == IInv /\ DataTypeOK /\ SnapshotOK

\* The steps that leave the contents alone, and keep who is inside inside.
Elsewhere(c) ==
    \/ Receive(c) \/ TimerFires(c) \/ Exit(c) \/ LockRw(c) \/ LockMeta(c)
    \/ StartCall(c) \/ CallReturns(c) \/ StartReply(c) \/ ReplyTaken(c)
    \/ StartGrow(c) \/ Grow(c) \/ RemoveTx(c)

\* What is stored does not change how the goroutines run.
LEMMA DataIsOnTop == [DataNext]_dataVars => [Next]_vars
  BY DEF DataNext, dataVars, Next, vars

\* A goroutine's step moves no other one.
LEMMA OthersStay ==
    ASSUME TypeOK, NEW c \in Clients,
           \/ Elsewhere(c) \/ BeginWrite(c) \/ BeginRead(c) \/ CommitOrRollback(c)
           \/ CommitGrown(c) \/ EndRead(c)
    PROVE  /\ \A d \in Clients : d # c => /\ pc'[d] = pc[d] /\ stage'[d] = stage[d]
                                       /\ Reads(d)' = Reads(d) /\ Writes(d)' = Writes(d)
<1>1. pc \in [Clients -> Places] /\ stage \in [Clients -> Nat \ {0}]
  BY DEF TypeOK
<1>2. CASE \E place : Goes(c, place)
  BY <1>1, <1>2 DEF Goes, Reads, Writes, Tx
<1>3. CASE Receive(c) \/ TimerFires(c) \/ ReplyTaken(c) \/ Over(c)
  BY <1>1, <1>3 DEF Receive, TimerFires, ReplyTaken, Over, Reads, Writes, Tx
<1> QED
  BY <1>2, <1>3 DEF Elsewhere, Exit, LockRw, LockMeta, StartCall, CallReturns, StartReply,
    StartGrow, Grow, RemoveTx, BeginWrite, BeginRead, CommitOrRollback, CommitGrown, EndRead, Step

\* A goroutine that goes elsewhere is inside or committing after the step if it was
\* before, and then at the same transaction.
LEMMA InsideStays ==
    ASSUME TypeOK, Modes, NEW c \in Clients, Elsewhere(c)
    PROVE  /\ pc'[c] \in Inside \cup {"grow", "growing"} <=> pc[c] \in Inside \cup {"grow", "growing"}
           /\ pc[c] \in Inside \cup {"grow", "growing"} => stage'[c] = stage[c]
<1>1. pc \in [Clients -> Places] /\ stage \in [Clients -> Nat \ {0}]
  BY DEF TypeOK
<1>2. ASSUME NEW from, NEW place, Step(c, from, place)
      PROVE  pc[c] \in from /\ pc'[c] = place /\ stage' = stage
  BY <1>1, <1>2 DEF Step, Goes
<1>3. CASE Receive(c)
  BY <1>1, <1>3 DEF Receive, Begins, Inside
<1>4. CASE TimerFires(c) \/ ReplyTaken(c)
  BY <1>1, <1>4 DEF TimerFires, ReplyTaken, Inside
<1>5. CASE StartGrow(c)
  BY <1>1, <1>5 DEF StartGrow, Goes, Done, Inside
<1>6. CASE RemoveTx(c)
  BY <1>1, <1>6 DEF RemoveTx, Over, Begins, Inside
<1>7. CASE Exit(c) \/ LockRw(c) \/ LockMeta(c)
  BY <1>2, <1>7 DEF Exit, LockRw, LockMeta, Inside
<1>8. CASE StartCall(c) \/ CallReturns(c) \/ StartReply(c) \/ Grow(c)
  BY <1>2, <1>8 DEF StartCall, CallReturns, StartReply, Grow, Inside
<1> QED
  BY <1>3, <1>4, <1>5, <1>6, <1>7, <1>8 DEF Elsewhere

\* Nobody is in a transaction to begin with.
LEMMA DataInitInv == DataInit => DataIInv
<1> SUFFICES ASSUME DataInit PROVE DataIInv
  OBVIOUS
<1>1. IInv
  BY InitInv DEF DataInit
<1>2. DataTypeOK /\ SnapshotOK
  BY <1>1 DEF DataInit, Init, IInv, DataTypeOK, SnapshotOK, Inside
<1> QED
  BY <1>1, <1>2 DEF DataIInv

\* Every step keeps the invariant: only who holds rwlock has what is stored to
\* change, and nobody else has it then.
LEMMA DataStepInv == DataIInv /\ [DataNext]_dataVars => DataIInv'
<1> SUFFICES ASSUME DataIInv, [DataNext]_dataVars PROVE DataIInv'
  OBVIOUS
<1> USE DEF Inside
<1>0. /\ TypeOK /\ Modes /\ Exclusion /\ DataTypeOK /\ SnapshotOK
      /\ pc \in [Clients -> Places] /\ snapshot \in [Clients -> Contents \cup {NoContent}]
      /\ content \in Contents /\ NoContent \notin Contents
  BY StoreDataAssumption DEF DataIInv, IInv, DataTypeOK, TypeOK
<1>1. IInv' /\ TypeOK'
  BY StepInv, DataIsOnTop DEF DataIInv, IInv
<1>2. SUFFICES /\ content' \in Contents /\ snapshot' \in [Clients -> Contents \cup {NoContent}]
               /\ SnapshotOK'
  BY <1>1 DEF DataIInv, DataTypeOK
<1>3. CASE UNCHANGED dataVars \/ ((Cancel \/ Close) /\ UNCHANGED <<content, snapshot>>)
  BY <1>0, <1>3 DEF dataVars, Cancel, Close, SnapshotOK, Writes, Tx
<1>4. ASSUME NEW c \in Clients, BeginWrite(c) \/ BeginRead(c), TakeSnapshot(c)
      PROVE  /\ content' \in Contents /\ snapshot' \in [Clients -> Contents \cup {NoContent}]
             /\ SnapshotOK'
  <2>1. pc'[c] = "open" /\ snapshot'[c] = content /\ content' = content
    BY <1>0, <1>4 DEF BeginWrite, BeginRead, Step, Goes, TakeSnapshot
  <2>2. \A d \in Clients : d # c => snapshot'[d] = snapshot[d]
    BY <1>0, <1>4 DEF TakeSnapshot
  <2>3. \A d \in Clients : d # c => pc'[d] = pc[d] /\ Writes(d)' = Writes(d)
    BY <1>0, <1>4, OthersStay
  <2>4. snapshot' \in [Clients -> Contents \cup {NoContent}]
    BY <1>0, <1>4 DEF TakeSnapshot
  <2> QED
    BY <1>0, <2>1, <2>2, <2>3, <2>4 DEF SnapshotOK
<1>5. ASSUME NEW c \in Clients,
             \/ (CommitOrRollback(c) \/ CommitGrown(c)) /\ (Publish(c) \/ Discard(c))
             \/ EndRead(c) /\ Discard(c)
      PROVE  /\ content' \in Contents /\ snapshot' \in [Clients -> Contents \cup {NoContent}]
             /\ SnapshotOK'
  <2>1. /\ snapshot' = [snapshot EXCEPT ![c] = NoContent]
        /\ snapshot'[c] = NoContent /\ \A d \in Clients : d # c => snapshot'[d] = snapshot[d]
    BY <1>0, <1>5 DEF Publish, Discard, DropSnapshot
  <2>2. pc'[c] \notin Inside \cup {"grow", "growing"}
    BY <1>0, <1>5 DEF CommitOrRollback, CommitGrown, EndRead, Over, Goes, Begins
  <2>3. \A d \in Clients : d # c => pc'[d] = pc[d] /\ Writes(d)' = Writes(d)
    BY <1>0, <1>5, OthersStay
  <2>4. CASE Discard(c)
    BY <1>0, <2>1, <2>2, <2>3, <2>4 DEF SnapshotOK, Discard
  <2>5. CASE (CommitOrRollback(c) \/ CommitGrown(c)) /\ Publish(c)
    <3>1. HoldsRwlock(c) /\ pc[c] \in Inside \cup {"grow", "growing"}
      BY <1>0, <1>5, <2>5 DEF CommitOrRollback, CommitGrown, Done, Modes, HoldsRwlock
    <3>2. snapshot[c] \in Contents
      BY <1>0, <3>1 DEF SnapshotOK
    <3>3. content' \in Contents
      BY <2>5, <3>2, StoreDataAssumption DEF Publish
    <3>4. \A d \in Clients : d # c /\ Writes(d) => snapshot[d] = NoContent
      BY <1>0, <3>1 DEF Exclusion, SnapshotOK, HoldsRwlock
    <3> QED
      BY <1>0, <2>1, <2>2, <2>3, <3>3, <3>4 DEF SnapshotOK
  <2> QED
    BY <1>5, <2>4, <2>5
<1>6. ASSUME NEW c \in Clients, Elsewhere(c), UNCHANGED <<content, snapshot>>
      PROVE  /\ content' \in Contents /\ snapshot' \in [Clients -> Contents \cup {NoContent}]
             /\ SnapshotOK'
  <2>1. \A d \in Clients : d # c => pc'[d] = pc[d] /\ Writes(d)' = Writes(d)
    BY <1>0, <1>6, OthersStay
  <2>2. pc'[c] \in Inside \cup {"grow", "growing"} <=> pc[c] \in Inside \cup {"grow", "growing"}
    BY <1>0, <1>6, InsideStays
  <2>3. snapshot[c] # NoContent => Writes(c)' = Writes(c)
    BY <1>0, <1>6, InsideStays DEF SnapshotOK, Writes, Tx
  <2> QED
    BY <1>0, <1>6, <2>1, <2>2, <2>3 DEF SnapshotOK
<1> QED
  BY <1>3, <1>4, <1>5, <1>6 DEF DataNext, Elsewhere

\* The invariant holds of every reachable state.
LEMMA DataInvariance == DataSpec => []DataIInv
  BY DataInitInv, DataStepInv, PTL DEF DataSpec

\* The transactions with what is stored run like those without: what is proved of
\* Spec above holds of them too (store.go).
THEOREM DataImplementsTx == DataSpec => Spec
  BY DataIsOnTop, PTL DEF DataSpec, DataInit, Spec

\* What is stored, and what transactions see of it, keeps its type.
THEOREM DataTyping == DataSpec => []DataTypeOK
<1>1. DataIInv => DataTypeOK
  BY DEF DataIInv
<1> QED
  BY <1>1, DataInvariance, PTL

\* To begin with, nobody looks at the store.
LEMMA StoreInit == DataInit => Store!Init
<1> SUFFICES ASSUME DataInit PROVE Store!Init
  OBVIOUS
<1>1. [c \in Clients |-> IF Reads(c) THEN snapshot[c] ELSE NoContent] = [c \in Clients |-> NoContent]
  BY DEF DataInit
<1> QED
  BY <1>1 DEF DataInit, Store!Init

\* Every step is one of the atomic store, or none: a commit is the update, made of
\* what is stored as the writer's snapshot still is that; a reader looks from its
\* begin to its end.
LEMMA StoreStep == DataIInv /\ [DataNext]_dataVars => [Store!Next]_(Store!vars)
<1> SUFFICES ASSUME DataIInv, [DataNext]_dataVars PROVE [Store!Next]_(Store!vars)
  OBVIOUS
<1> USE DEF Inside
<1> DEFINE looks == [c \in Clients |-> IF Reads(c) THEN snapshot[c] ELSE NoContent]
<1>0. /\ TypeOK /\ Modes /\ SnapshotOK
      /\ pc \in [Clients -> Places] /\ snapshot \in [Clients -> Contents \cup {NoContent}]
      /\ content \in Contents /\ NoContent \notin Contents
  BY StoreDataAssumption DEF DataIInv, IInv, DataTypeOK, TypeOK
<1>1. CASE UNCHANGED dataVars \/ ((Cancel \/ Close) /\ UNCHANGED <<content, snapshot>>)
  <2>1. UNCHANGED <<content, snapshot, stage>>
    BY <1>1 DEF dataVars, Cancel, Close
  <2> QED
    BY <2>1 DEF Store!vars, Reads, Tx
<1>2. ASSUME NEW c \in Clients, BeginRead(c), TakeSnapshot(c) PROVE Store!Look(c)
  <2>1. Reads(c) /\ snapshot[c] = NoContent /\ stage' = stage /\ content' = content
    BY <1>0, <1>2 DEF BeginRead, Step, Goes, Modes, SnapshotOK, TakeSnapshot
  <2>2. \A d \in Clients : Reads(d)' = Reads(d)
    BY <2>1 DEF Reads, Tx
  <2>3. snapshot' = [snapshot EXCEPT ![c] = content]
    BY <1>2 DEF TakeSnapshot
  <2>4. looks' = [looks EXCEPT ![c] = content]
    BY <1>0, <2>1, <2>2, <2>3
  <2> QED
    BY <2>1, <2>4 DEF Store!Look
<1>3. ASSUME NEW c \in Clients, BeginWrite(c), TakeSnapshot(c) PROVE UNCHANGED <<content, looks>>
  <2>1. ~Reads(c) /\ stage' = stage /\ content' = content
    BY <1>0, <1>3, ModeOfTx DEF BeginWrite, Step, Goes, TakeSnapshot
  <2>2. \A d \in Clients : Reads(d)' = Reads(d)
    BY <2>1 DEF Reads, Tx
  <2>3. \A d \in Clients : d # c => snapshot'[d] = snapshot[d]
    BY <1>0, <1>3 DEF TakeSnapshot
  <2> QED
    BY <2>1, <2>2, <2>3
<1>4. ASSUME NEW c \in Clients, CommitOrRollback(c) \/ CommitGrown(c), Publish(c) \/ Discard(c)
      PROVE  Store!Update(c) \/ UNCHANGED <<content, looks>>
  <2>1. Writes(c) /\ ~Reads(c) /\ pc[c] \in Inside \cup {"grow", "growing"}
    BY <1>0, <1>4, ModeOfTx DEF CommitOrRollback, CommitGrown, Done, Modes
  <2>2. snapshot[c] = content
    BY <1>0, <2>1 DEF SnapshotOK
  <2>3. \A d \in Clients : d # c => Reads(d)' = Reads(d) /\ snapshot'[d] = snapshot[d]
    BY <1>0, <1>4, OthersStay DEF Publish, Discard, DropSnapshot
  <2>4. snapshot'[c] = NoContent
    BY <1>0, <1>4 DEF Publish, Discard, DropSnapshot
  <2>5. looks' = looks
    BY <2>1, <2>3, <2>4
  <2> QED
    BY <1>4, <2>2, <2>5 DEF Publish, Discard, Store!Update
<1>5. ASSUME NEW c \in Clients, EndRead(c), Discard(c) PROVE Store!LookAway(c)
  <2>1. stage' = stage /\ content' = content /\ snapshot' = [snapshot EXCEPT ![c] = NoContent]
    BY <1>5 DEF EndRead, Goes, Discard, DropSnapshot
  <2>2. \A d \in Clients : Reads(d)' = Reads(d)
    BY <2>1 DEF Reads, Tx
  <2>3. looks' = [looks EXCEPT ![c] = NoContent]
    BY <1>0, <2>1, <2>2
  <2> QED
    BY <2>1, <2>3 DEF Store!LookAway
<1>6. ASSUME NEW c \in Clients, Elsewhere(c), UNCHANGED <<content, snapshot>>
      PROVE  UNCHANGED <<content, looks>>
  <2>1. \A d \in Clients : d # c => Reads(d)' = Reads(d)
    BY <1>0, <1>6, OthersStay
  <2>2. snapshot[c] # NoContent => Reads(c)' = Reads(c)
    BY <1>0, <1>6, InsideStays DEF SnapshotOK, Reads, Tx
  <2> QED
    BY <1>6, <2>1, <2>2
<1> QED
  BY <1>1, <1>2, <1>3, <1>4, <1>5, <1>6 DEF DataNext, Elsewhere, Store!Next, Store!vars

\* bolt's transactions as the plugins use them are the steps of an atomic store
\* (store.go: "This allows you to transform data atomically").
THEOREM StoreRefinement == DataSpec => ImplementsStore
  BY DataInvariance, StoreInit, StoreStep, PTL DEF DataSpec, ImplementsStore, Store!Spec
\* Behind a writer that is stuck nobody commits: it does not itself, and all others
\* lack rwlock.
LEMMA NobodyCommits ==
    ASSUME DataIInv, [DataNext]_dataVars, NEW c \in Clients, Stuck(c), Writes(c)
    PROVE  content' = content
<1>1. TypeOK /\ Modes /\ Exclusion /\ pc[c] = "replying" /\ HoldsRwlock(c)
  BY DEF DataIInv, IInv, Stuck, HoldsRwlock, Inside
<1>2. ASSUME NEW d \in Clients, CommitOrRollback(d) \/ CommitGrown(d) PROVE FALSE
  <2>1. HoldsRwlock(d)
    BY <1>1, <1>2 DEF CommitOrRollback, CommitGrown, Done, Modes, HoldsRwlock, Inside
  <2>2. pc[d] # "replying"
    BY <1>2 DEF CommitOrRollback, CommitGrown, Done
  <2> QED
    BY <1>1, <2>1, <2>2 DEF Exclusion
<1> QED
  BY <1>2 DEF DataNext, dataVars, TakeSnapshot, Discard

\* A step behind a stuck writer stores nothing.
THEOREM NothingStoredAgainEver == DataSpec => NothingStoredAgain
<1>1. DataIInv /\ [DataNext]_dataVars => [NothingStored]_dataVars
  BY NobodyCommits DEF NothingStored
<1> QED
  BY <1>1, DataInvariance, PTL DEF DataSpec, NothingStoredAgain

\* And for ever: what is stored when a writer's reply comes too late stays as it is,
\* whatever any plugin is asked (spotify.go nowPlaying inside Update).
THEOREM FrozenForGood ==
    ASSUME NEW c \in Clients, NEW v
    PROVE  DataSpec => [](Stuck(c) /\ Writes(c) /\ content = v => [](content = v))
<1> DEFINE Frozen == Stuck(c) /\ Writes(c) /\ content = v
<1>1. DataIInv /\ Frozen /\ [DataNext]_dataVars => Frozen'
  <2> SUFFICES ASSUME DataIInv, Frozen, [DataNext]_dataVars PROVE Frozen'
    OBVIOUS
  <2>1. Stuck(c)' /\ stage'[c] = stage[c]
    BY StuckForGood, DataIsOnTop DEF DataIInv, IInv
  <2>2. Writes(c)'
    BY <2>1 DEF Writes, Tx
  <2>3. content' = v
    BY NobodyCommits
  <2> QED
    BY <2>1, <2>2, <2>3
<1>2. Frozen => content = v
  OBVIOUS
<1> HIDE DEF Frozen
<1>3. DataSpec => [](Frozen => [](content = v))
  BY <1>1, <1>2, DataInvariance, PTL DEF DataSpec
<1> QED
  BY <1>3 DEF Frozen
=============================================================================
