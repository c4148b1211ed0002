---------------------------- MODULE Events_proof ----------------------------
(***************************************************************************)
(* Who hears what, how often and in which order, for any messages,         *)
(* deliveries and hooks, across any number of crashes.                     *)
(***************************************************************************)
EXTENDS Events, FiniteSetTheorems, TLAPS

\* A delivery's handler is as far as its state says.
NextOK ==
    \A d \in Deliveries :
        /\ handler[d] \in {"away", "ignored"} => next[d] = 1
        /\ handler[d] = "sending" => next[d] <= Len(Order)
        /\ handler[d] = "answered" => next[d] = Len(Order) + 1

\* The hooks before the one it sends to next have heard it, and no other.
HeardOK ==
    \A d \in Deliveries : \A i \in DOMAIN Order : Contains(log[Order[i]], d) <=> i < next[d]

\* No hook hears a delivery twice.
OnceOK == \A h \in Hooks : \A i, j \in DOMAIN log[h] : log[h][i] = log[h][j] => i = j

\* What was answered stays so.
BeforeOK == \A d \in Deliveries : before[d] \subseteq Answered

\* The inductive invariant.
IInv == TypeOK /\ NextOK /\ HeardOK /\ OnceOK /\ BeforeOK /\ InOrder

\* A sequence with one element more.
LEMMA AppendIs ==
    ASSUME NEW S, NEW s \in Seq(S), NEW e \in S
    PROVE  /\ Append(s, e) \in Seq(S)
           /\ Len(s) \in Nat /\ DOMAIN s = 1..Len(s)
           /\ DOMAIN Append(s, e) = 1..(Len(s) + 1) /\ Len(Append(s, e)) = Len(s) + 1
           /\ \A i \in 1..Len(s) : Append(s, e)[i] = s[i]
           /\ Append(s, e)[Len(s) + 1] = e
  OBVIOUS

\* It contains what the sequence contained, and that element.
LEMMA AppendContains ==
    ASSUME NEW S, NEW s \in Seq(S), NEW e \in S, NEW x
    PROVE  Contains(Append(s, e), x) <=> Contains(s, x) \/ x = e
<1>1. Contains(Append(s, e), x) => Contains(s, x) \/ x = e
  <2> SUFFICES ASSUME NEW i \in 1..Len(Append(s, e)), Append(s, e)[i] = x
               PROVE  Contains(s, x) \/ x = e
    BY DEF Contains
  <2>1. CASE i \in 1..Len(s)
    BY <2>1, AppendIs DEF Contains
  <2>2. CASE i = Len(s) + 1
    BY <2>2, AppendIs
  <2> QED
    BY <2>1, <2>2, AppendIs
<1>2. Contains(s, x) => Contains(Append(s, e), x)
  <2> SUFFICES ASSUME NEW i \in 1..Len(s), s[i] = x
               PROVE  Contains(Append(s, e), x)
    BY DEF Contains
  <2>1. i \in 1..Len(Append(s, e)) /\ Append(s, e)[i] = x
    BY AppendIs
  <2> QED
    BY <2>1 DEF Contains
<1>3. x = e => Contains(Append(s, e), x)
  <2>1. Len(s) + 1 \in 1..Len(Append(s, e)) /\ Append(s, e)[Len(s) + 1] = e
    BY AppendIs
  <2> QED
    BY <2>1 DEF Contains
<1> QED
  BY <1>1, <1>2, <1>3

\* Every hook has one position.
LEMMA OrderSeq ==
    /\ Len(Order) \in Nat /\ DOMAIN Order = 1..Len(Order)
    /\ \A i \in DOMAIN Order : Order[i] \in Hooks
    /\ \A h \in Hooks : \E i \in DOMAIN Order : Order[i] = h
    /\ \A i, j \in DOMAIN Order : Order[i] = Order[j] => i = j
    /\ Order = <<>> <=> Len(Order) = 0
  BY EventsAssumption DEF Hooks, ToSet, IsInjective

\* Nothing was delivered to begin with.
LEMMA InitInv == Init => IInv
<1> SUFFICES ASSUME Init PROVE IInv
  OBVIOUS
<1>1. TypeOK
  <2>1. 1 \in 1..(Len(Order) + 1)
    BY OrderSeq
  <2>2. next \in [Deliveries -> 1..(Len(Order) + 1)]
    BY <2>1 DEF Init
  <2>3. log \in [Hooks -> Seq(Deliveries)]
    BY DEF Init
  <2> QED
    BY <2>2, <2>3 DEF Init, TypeOK
<1>2. NextOK /\ BeforeOK
  BY DEF Init, NextOK, BeforeOK
<1>3. HeardOK
  <2> SUFFICES ASSUME NEW d \in Deliveries, NEW i \in DOMAIN Order
               PROVE  Contains(log[Order[i]], d) <=> i < next[d]
    BY DEF HeardOK
  <2>1. log[Order[i]] = <<>> /\ next[d] = 1 /\ i \in 1..Len(Order)
    BY OrderSeq DEF Init
  <2>2. ~Contains(<<>>, d)
    BY DEF Contains
  <2> QED
    BY <2>1, <2>2, OrderSeq
<1>4. OnceOK /\ InOrder
  BY DEF Init, OnceOK, InOrder
<1> QED
  BY <1>1, <1>2, <1>3, <1>4 DEF IInv

\* A step after which the logs are the same and no answer is taken back.
LEMMA QuietInv ==
    ASSUME IInv, TypeOK', NextOK', BeforeOK', InOrder', UNCHANGED <<next, log>>
    PROVE  IInv'
<1>1. HeardOK' /\ OnceOK'
  BY DEF IInv, HeardOK, OnceOK
<1> QED
  BY <1>1 DEF IInv

\* A delivery that has not arrived is in no log.
LEMMA AwayUnheard ==
    ASSUME IInv, NEW d \in Deliveries, next[d] = 1, NEW h \in Hooks, NEW i \in DOMAIN log[h]
    PROVE  log[h][i] # d
<1>1. PICK k \in DOMAIN Order : Order[k] = h
  BY OrderSeq
<1>2. ~(k < next[d])
  BY OrderSeq
<1>3. ~Contains(log[h], d)
  BY <1>1, <1>2 DEF IInv, HeardOK
<1>4. DOMAIN log[h] = 1..Len(log[h])
  BY DEF IInv, TypeOK
<1> QED
  BY <1>3, <1>4 DEF Contains

\* A delivery that comes is in no log, so what was answered before it is settled.
LEMMA ComesInv ==
    ASSUME IInv, NEW d \in Deliveries, handler[d] = "away",
           NEW to \in {"sending", "answered", "ignored"},
           to = "sending" => Order # <<>>,
           to = "answered" => Order = <<>>,
           handler' = [handler EXCEPT ![d] = to],
           before' = [before EXCEPT ![d] = Answered],
           UNCHANGED <<botId, cancelled, next, hook, log>>
    PROVE  IInv'
<1>0. TypeOK /\ NextOK /\ BeforeOK /\ InOrder
  BY DEF IInv
<1>r. /\ handler'[d] = to /\ before'[d] = Answered
      /\ \A e \in Deliveries : e # d => handler'[e] = handler[e] /\ before'[e] = before[e]
  BY <1>0 DEF TypeOK
<1>1. TypeOK'
  BY <1>0 DEF TypeOK, Answered
<1>2. NextOK'
  <2> SUFFICES ASSUME NEW e \in Deliveries
               PROVE  /\ handler'[e] \in {"away", "ignored"} => next[e] = 1
                      /\ handler'[e] = "sending" => next[e] <= Len(Order)
                      /\ handler'[e] = "answered" => next[e] = Len(Order) + 1
    BY DEF NextOK
  <2>1. CASE e = d
    BY <1>0, <1>r, <2>1, OrderSeq DEF NextOK
  <2>2. CASE e # d
    BY <1>0, <1>r, <2>2 DEF NextOK
  <2> QED
    BY <2>1, <2>2
<1>3. BeforeOK'
  <2>1. Answered \subseteq Answered'
    BY <1>r DEF Answered
  <2> QED
    BY <1>0, <1>r, <2>1 DEF BeforeOK
<1>4. InOrder'
  <2> SUFFICES ASSUME NEW h \in Hooks, NEW i \in DOMAIN log[h], NEW j \in DOMAIN log[h],
                      log[h][j] \in before'[log[h][i]]
               PROVE  j < i
    BY DEF InOrder
  <2>1. log[h][i] # d
    BY <1>0, AwayUnheard DEF NextOK
  <2>2. log[h][i] \in Deliveries
    BY <1>0 DEF TypeOK
  <2> QED
    BY <1>0, <1>r, <2>1, <2>2 DEF InOrder
<1> QED
  BY <1>1, <1>2, <1>3, <1>4, QuietInv

\* A hook that takes a delivery has not had it, nor anything that came after its answer.
LEMMA HearInv ==
    ASSUME IInv, NEW d \in Deliveries, Hear(d)
    PROVE  IInv'
<1>0. TypeOK /\ NextOK /\ HeardOK /\ OnceOK /\ BeforeOK /\ InOrder
  BY DEF IInv
<1> DEFINE k == next[d]
           r == Order[k]
           n == Len(log[r])
<1>k. /\ k \in DOMAIN Order /\ k \in Nat /\ k <= Len(Order) /\ r \in Hooks
      /\ handler[d] = "sending"
  BY <1>0, OrderSeq DEF Hear, TypeOK, NextOK
<1>s. log[r] \in Seq(Deliveries) /\ n \in Nat /\ DOMAIN log[r] = 1..n
  BY <1>0, <1>k DEF TypeOK
<1>r. /\ next' \in [Deliveries -> 1..(Len(Order) + 1)]
      /\ next'[d] = k + 1 /\ \A e \in Deliveries : e # d => next'[e] = next[e]
      /\ handler'[d] = IF k = Len(Order) THEN "answered" ELSE "sending"
      /\ \A e \in Deliveries : e # d => handler'[e] = handler[e]
      /\ log'[r] = Append(log[r], d) /\ \A h \in Hooks : h # r => log'[h] = log[h]
      /\ UNCHANGED <<botId, cancelled, before>>
  BY <1>0, <1>k, OrderSeq DEF Hear, Sent, Receiver, TypeOK
<1>1. TypeOK'
  <2>1. log' \in [Hooks -> Seq(Deliveries)]
    <3>1. log' = [log EXCEPT ![r] = Append(@, d)] /\ Append(log[r], d) \in Seq(Deliveries)
      BY <1>s, AppendIs DEF Hear, Receiver
    <3> QED
      BY <1>0, <3>1 DEF TypeOK
  <2>2. handler' \in [Deliveries -> {"away", "sending", "answered", "ignored", "lost"}]
    BY <1>0 DEF Hear, Sent, TypeOK
  <2>3. hook' \in [Hooks -> {"idle", "busy", "stuck", "gone"}]
    BY <1>0 DEF Hear, TypeOK
  <2> QED
    BY <1>0, <1>r, <2>1, <2>2, <2>3 DEF TypeOK
<1>2. NextOK'
  <2> SUFFICES ASSUME NEW e \in Deliveries
               PROVE  /\ handler'[e] \in {"away", "ignored"} => next'[e] = 1
                      /\ handler'[e] = "sending" => next'[e] <= Len(Order)
                      /\ handler'[e] = "answered" => next'[e] = Len(Order) + 1
    BY DEF NextOK
  <2>1. CASE e = d
    BY <1>k, <1>r, <2>1, OrderSeq
  <2>2. CASE e # d
    BY <1>0, <1>r, <2>2 DEF NextOK
  <2> QED
    BY <2>1, <2>2
<1>3. HeardOK'
  <2> SUFFICES ASSUME NEW e \in Deliveries, NEW i \in DOMAIN Order
               PROVE  Contains(log'[Order[i]], e) <=> i < next'[e]
    BY DEF HeardOK
  <2>0. Order[i] \in Hooks /\ i \in Nat /\ (Order[i] = r <=> i = k) /\ next[e] \in Nat
    BY <1>0, <1>k, OrderSeq DEF TypeOK
  <2>1. Contains(log[Order[i]], e) <=> i < next[e]
    BY <1>0 DEF HeardOK
  <2>2. CASE i # k
    <3>1. log'[Order[i]] = log[Order[i]]
      BY <1>r, <2>0, <2>2
    <3>2. i < next'[e] <=> i < next[e]
      BY <1>k, <1>r, <2>0, <2>2
    <3> QED
      BY <2>1, <3>1, <3>2
  <2>3. CASE i = k
    <3>1. Contains(log'[r], e) <=> Contains(log[r], e) \/ e = d
      BY <1>r, <1>s, AppendContains
    <3>2. k < next'[e] <=> k < next[e] \/ e = d
      BY <1>k, <1>r, <2>0
    <3> QED
      BY <2>1, <2>3, <3>1, <3>2
  <2> QED
    BY <2>2, <2>3
<1>n. \A i \in 1..n : log[r][i] # d
  <2>1. ~Contains(log[r], d)
    BY <1>0, <1>k DEF HeardOK
  <2> QED
    BY <2>1 DEF Contains
<1>a. /\ DOMAIN log'[r] = 1..(n + 1) /\ log'[r][n + 1] = d
      /\ \A i \in 1..n : log'[r][i] = log[r][i]
  BY <1>r, <1>s, AppendIs
<1>4. OnceOK'
  <2> SUFFICES ASSUME NEW h \in Hooks, NEW i \in DOMAIN log'[h], NEW j \in DOMAIN log'[h],
                      log'[h][i] = log'[h][j]
               PROVE  i = j
    BY DEF OnceOK
  <2>1. CASE h # r
    BY <1>0, <1>r, <2>1 DEF OnceOK
  <2>2. CASE h = r
    <3>1. i \in 1..(n + 1) /\ j \in 1..(n + 1)
      BY <1>a, <2>2
    <3>2. CASE i \in 1..n /\ j \in 1..n
      BY <1>0, <1>a, <1>k, <1>s, <2>2, <3>2 DEF OnceOK
    <3>3. log'[r][i] = log'[r][j]
      BY <2>2
    <3>4. CASE i = n + 1 /\ j \in 1..n
      BY <1>a, <1>n, <3>3, <3>4
    <3>5. CASE j = n + 1 /\ i \in 1..n
      BY <1>a, <1>n, <3>3, <3>5
    <3> QED
      BY <1>s, <3>1, <3>2, <3>4, <3>5
  <2> QED
    BY <2>1, <2>2
<1>5. BeforeOK'
  <2>1. Answered \subseteq Answered'
    BY <1>k, <1>r DEF Answered
  <2> QED
    BY <1>0, <1>r, <2>1 DEF BeforeOK
<1>6. InOrder'
  <2> SUFFICES ASSUME NEW h \in Hooks, NEW i \in DOMAIN log'[h], NEW j \in DOMAIN log'[h],
                      log'[h][j] \in before[log'[h][i]]
               PROVE  j < i
    BY <1>r DEF InOrder
  <2>1. CASE h # r
    BY <1>0, <1>r, <2>1 DEF InOrder
  <2>2. CASE h = r
    <3>1. i \in 1..(n + 1) /\ j \in 1..(n + 1)
      BY <1>a, <2>2
    <3>2. log'[r][i] \in Deliveries
      <4>1. CASE i \in 1..n
        BY <1>a, <1>s, <4>1
      <4>2. CASE i = n + 1
        BY <1>a, <4>2
      <4> QED
        BY <1>s, <3>1, <4>1, <4>2
    <3>3. d \notin before[log'[r][i]]
      BY <1>0, <1>k, <3>2 DEF BeforeOK, Answered
    <3>4. j \in 1..n
      BY <1>a, <1>s, <2>2, <3>1, <3>3
    <3>5. CASE i = n + 1
      BY <1>s, <3>4, <3>5
    <3>6. CASE i \in 1..n
      BY <1>0, <1>a, <1>k, <1>s, <2>2, <3>4, <3>6 DEF InOrder
    <3> QED
      BY <1>s, <3>1, <3>5, <3>6
  <2> QED
    BY <2>1, <2>2
<1> QED
  BY <1>1, <1>2, <1>3, <1>4, <1>5, <1>6 DEF IInv

\* Every step keeps the invariant.
LEMMA StepInv == IInv /\ [Next]_vars => IInv'
<1> SUFFICES ASSUME IInv, [Next]_vars PROVE IInv'
  OBVIOUS
<1>0. TypeOK /\ NextOK /\ BeforeOK /\ InOrder
  BY DEF IInv
<1>1. ASSUME UNCHANGED <<handler, next, log, before>>, TypeOK' PROVE IInv'
  BY <1>0, <1>1, QuietInv DEF NextOK, BeforeOK, Answered, InOrder
<1>2. CASE InitInfo \/ Cancel
  BY <1>0, <1>1, <1>2 DEF InitInfo, Cancel, TypeOK
<1>3. CASE Restart
  <2>1. TypeOK'
    BY <1>0, <1>3 DEF Restart, TypeOK
  <2>2. \A d \in Deliveries : handler'[d] = IF handler[d] = "sending" THEN "lost" ELSE handler[d]
    BY <1>3 DEF Restart
  <2>3. NextOK'
    BY <1>0, <1>3, <2>2 DEF Restart, NextOK
  <2>4. BeforeOK'
    BY <1>0, <1>3, <2>2 DEF Restart, BeforeOK, Answered
  <2>5. InOrder'
    BY <1>0, <1>3 DEF Restart, InOrder
  <2> QED
    BY <1>3, <2>1, <2>3, <2>4, <2>5, QuietInv DEF Restart
<1>4. ASSUME NEW d \in Deliveries, Arrive(d) PROVE IInv'
  <2>1. CASE Order = <<>>
    BY <1>4, <2>1, ComesInv DEF Arrive, Due
  <2>2. CASE Order # <<>>
    BY <1>4, <2>2, ComesInv DEF Arrive, Due
  <2> QED
    BY <2>1, <2>2
<1>5. ASSUME NEW d \in Deliveries, Ignore(d) PROVE IInv'
  BY <1>5, ComesInv DEF Ignore, Due
<1>6. ASSUME NEW d \in Deliveries, Hear(d) PROVE IInv'
  BY <1>6, HearInv
<1>7. ASSUME NEW h \in Hooks, Finish(h) \/ Hang(h) \/ Leave(h) PROVE IInv'
  BY <1>0, <1>1, <1>7 DEF Finish, Hang, Leave, HookStep, TypeOK
<1>8. CASE UNCHANGED vars
  BY <1>0, <1>1, <1>8 DEF vars, TypeOK
<1> QED
  BY <1>2, <1>3, <1>4, <1>5, <1>6, <1>7, <1>8 DEF Next

\* The inductive invariant holds throughout.
LEMMA Always == Spec => []IInv
  BY InitInv, StepInv, PTL DEF Spec

\* The handlers, the hooks and their logs keep their types (events.go, plugins.go).
THEOREM Typing == Spec => []TypeOK
<1>1. IInv => TypeOK
  BY DEF IInv
<1> QED
  BY Always, <1>1, PTL

\* Slack is told of no message that a hook did not take (events.go handleSlackEvent).
THEOREM AnsweredIsHeardAlways == Spec => []AnsweredIsHeard
<1>1. IInv => AnsweredIsHeard
  <2> SUFFICES ASSUME IInv, NEW d \in Deliveries, handler[d] = "answered", NEW h \in Hooks
               PROVE  Contains(log[h], d)
    BY DEF AnsweredIsHeard
  <2>1. PICK i \in DOMAIN Order : Order[i] = h
    BY OrderSeq
  <2>2. i < next[d]
    BY OrderSeq DEF IInv, NextOK
  <2> QED
    BY <2>1, <2>2 DEF IInv, HeardOK
<1> QED
  BY Always, <1>1, PTL

\* The numbers up to n are finitely many.
LEMMA UpTo == ASSUME NEW n \in Nat PROVE IsFiniteSet(1..n)
<1>1. 1 \in Int /\ n \in Int
  OBVIOUS
<1> QED
  BY <1>1, FS_Interval

\* As no hook hears a delivery twice, it heard a message once for each delivery it took.
LEMMA TimesIs ==
    ASSUME IInv, NEW h \in Hooks, NEW m \in Messages
    PROVE  LET taken == {n \in 1..Attempts[m] : Contains(log[h], <<m, n>>)}
           IN  IsFiniteSet(taken) /\ Cardinality(taken) \in Nat /\ Times(h, m) = Cardinality(taken)
<1> DEFINE at == {i \in DOMAIN log[h] : log[h][i][1] = m}
           taken == {n \in 1..Attempts[m] : Contains(log[h], <<m, n>>)}
           f == [i \in at |-> log[h][i][2]]
<1>1. log[h] \in Seq(Deliveries) /\ DOMAIN log[h] = 1..Len(log[h]) /\ Len(log[h]) \in Nat
  BY DEF IInv, TypeOK
<1>2. \A i \in DOMAIN log[h] : log[h][i] \in Deliveries
  BY <1>1
<1>3. Attempts[m] \in Nat
  BY EventsAssumption
<1>4. ASSUME NEW i \in at PROVE log[h][i] = <<m, f[i]>> /\ f[i] \in taken
  <2>1. PICK k \in Messages : \E n \in 1..Attempts[k] : log[h][i] = <<k, n>>
    BY <1>2 DEF Deliveries
  <2>2. PICK n \in 1..Attempts[k] : log[h][i] = <<k, n>>
    BY <2>1
  <2>3. k = m /\ f[i] = n
    BY <2>2
  <2> QED
    BY <1>1, <2>2, <2>3 DEF Contains
<1>5. ASSUME NEW n \in taken PROVE \E i \in at : f[i] = n
  <2>1. PICK i \in 1..Len(log[h]) : log[h][i] = <<m, n>>
    BY <1>5 DEF Contains
  <2>2. i \in at /\ f[i] = n
    BY <1>1, <2>1
  <2> QED
    BY <2>2
<1>6. ASSUME NEW i \in at, NEW j \in at, f[i] = f[j] PROVE i = j
  <2>1. log[h][i] = log[h][j]
    BY <1>4, <1>6
  <2>2. i \in DOMAIN log[h] /\ j \in DOMAIN log[h]
    OBVIOUS
  <2> QED
    BY <2>1, <2>2 DEF IInv, OnceOK
<1>7. f \in [at -> taken]
  BY <1>4
<1>8. f \in Bijection(at, taken)
  BY <1>5, <1>6, <1>7 DEF Bijection, Injection, Surjection, IsInjective
<1>9. IsFiniteSet(at)
  <2>1. IsFiniteSet(1..Len(log[h]))
    BY <1>1, UpTo
  <2>2. at \in SUBSET (1..Len(log[h]))
    BY <1>1
  <2> QED
    BY <2>1, <2>2, FS_Subset
<1> QED
  BY <1>8, <1>9, FS_Bijection, FS_CardinalityType DEF ExistsBijection, Times

\* A repeat is heard by the hooks in their order, and by all of them unless it was cut
\* short (plugins.go dispatchHooks).
THEOREM HeardAlikeAlways == Spec => []HeardAlike
<1>1. IInv => HeardAlike
  <2> SUFFICES ASSUME IInv, NEW m \in Messages, NEW i \in DOMAIN Order, NEW j \in DOMAIN Order, i < j
               PROVE  /\ Times(Order[j], m) <= Times(Order[i], m)
                      /\ Times(Order[i], m) <= Times(Order[j], m) + Cardinality(CutShort(m))
    BY DEF HeardAlike
  <2> DEFINE a == {n \in 1..Attempts[m] : Contains(log[Order[i]], <<m, n>>)}
             b == {n \in 1..Attempts[m] : Contains(log[Order[j]], <<m, n>>)}
  <2>0. /\ TypeOK /\ NextOK /\ HeardOK /\ Attempts[m] \in Nat
        /\ Order[i] \in Hooks /\ Order[j] \in Hooks
        /\ i \in 1..Len(Order) /\ j \in 1..Len(Order) /\ Len(Order) \in Nat
    BY OrderSeq, EventsAssumption DEF IInv
  <2>1. /\ IsFiniteSet(a) /\ Cardinality(a) \in Nat /\ Times(Order[i], m) = Cardinality(a)
        /\ IsFiniteSet(b) /\ Cardinality(b) \in Nat /\ Times(Order[j], m) = Cardinality(b)
    BY <2>0, TimesIs
  <2>2. ASSUME NEW n \in 1..Attempts[m] PROVE <<m, n>> \in Deliveries /\ next[<<m, n>>] \in Nat
    <3>1. <<m, n>> \in Deliveries
      BY DEF Deliveries
    <3> QED
      BY <2>0, <3>1 DEF TypeOK
  <2>3. b \subseteq a
    <3> SUFFICES ASSUME NEW n \in b PROVE n \in a
      OBVIOUS
    <3>1. j < next[<<m, n>>]
      BY <2>0, <2>2 DEF HeardOK
    <3> QED
      BY <2>0, <2>2, <3>1 DEF HeardOK
  <2>4. a \ b \subseteq CutShort(m)
    <3> SUFFICES ASSUME NEW n \in a \ b PROVE handler[<<m, n>>] \in {"sending", "lost"}
      BY DEF CutShort
    <3>1. i < next[<<m, n>>] /\ ~(j < next[<<m, n>>])
      BY <2>0, <2>2 DEF HeardOK
    <3>2. next[<<m, n>>] # 1 /\ next[<<m, n>>] # Len(Order) + 1
      BY <2>0, <2>2, <3>1
    <3> QED
      BY <2>0, <2>2, <3>2 DEF NextOK, TypeOK
  <2>5. IsFiniteSet(CutShort(m)) /\ Cardinality(CutShort(m)) \in Nat
    <3>1. IsFiniteSet(1..Attempts[m])
      BY <2>0, UpTo
    <3>2. CutShort(m) \in SUBSET (1..Attempts[m])
      BY DEF CutShort
    <3> QED
      BY <3>1, <3>2, FS_Subset, FS_CardinalityType
  <2> HIDE DEF a, b
  <2>6. Cardinality(b) <= Cardinality(a)
    BY <2>1, <2>3, FS_Subset
  <2> DEFINE c == a \ b
  <2>7. IsFiniteSet(c) /\ Cardinality(c) \in Nat /\ Cardinality(c) <= Cardinality(CutShort(m))
    BY <2>4, <2>5, FS_Subset, FS_CardinalityType
  <2>8. a = b \cup c /\ b \cap c = {}
    BY <2>3
  <2> HIDE DEF c
  <2>9. Cardinality(a) = Cardinality(b) + Cardinality(c) - Cardinality({})
    BY <2>1, <2>7, <2>8, FS_Union
  <2>10. Cardinality({}) = 0
    BY FS_EmptySet
  <2>11. Cardinality(a) <= Cardinality(b) + Cardinality(CutShort(m))
    BY <2>1, <2>5, <2>7, <2>9, <2>10
  <2> QED
    BY <2>1, <2>6, <2>11
<1> QED
  BY Always, <1>1, PTL

\* Messages that follow each other's answers are heard in that order (events.go
\* handleSlackEvent, plugins.go dispatchHooks).
THEOREM InOrderAlways == Spec => []InOrder
<1>1. IInv => InOrder
  BY DEF IInv
<1> QED
  BY Always, <1>1, PTL
=============================================================================
