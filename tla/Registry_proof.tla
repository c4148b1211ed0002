--------------------------- MODULE Registry_proof ---------------------------
(***************************************************************************)
(* What is registered, what runs and what is counted, for any plugins and  *)
(* whatever they register.                                                 *)
(***************************************************************************)
EXTENDS Registry, FiniteSetTheorems, TLAPS

\* Whoever registers is alone, and is at an item it has.
AtOK ==
    /\ \A p, q \in Plugins : result[p] \in Registering /\ result[q] \in Registering => p = q
    /\ \A p \in Plugins :
          /\ at[p] \in Nat \ {0}
          /\ result[p] \in {"publish", "add", "go"} => at[p] \in DOMAIN Items[p]
          /\ result[p] \in {"todo", "bucket", "load"} => at[p] = 1
          /\ result[p] = "ok" => at[p] > Len(Items[p])

Reached(p, i) == i < at[p] \/ (i = at[p] /\ result[p] \in {"add", "go"})

\* Served are the items before the one a plugin is at, and that one once published.
ServedOK == \A p \in Plugins : \A i \in DOMAIN Items[p] : <<p, i>> \in Served <=> Reached(p, i)

\* A goroutine runs for items a plugin is past.
RunningOK == \A x \in running : x[2] < at[x[1]]

\* What runs or is about to once the database is closed was counted too late.
LateOK ==
    stop = "closed" =>
        /\ running \subseteq late
        /\ \A p \in Plugins : result[p] = "go" => Current(p) \in late

\* The inductive invariant.
IInv == TypeOK /\ AtOK /\ ServedOK /\ RunningOK /\ LateOK /\ Counted

Going == {p \in Plugins : result[p] = "go"}

\* The items of a plugin are numbered from 1.
LEMMA ItemsSeq ==
    ASSUME NEW p \in Plugins
    PROVE  /\ Len(Items[p]) \in Nat /\ DOMAIN Items[p] = 1..Len(Items[p])
           /\ Items[p] = <<>> <=> Len(Items[p]) = 0
  BY RegistryAssumption

\* An item is one of some plugin's.
LEMMA ItemOfPlugin ==
    /\ \A x \in AllItems :
          x[1] \in Plugins /\ x[2] \in DOMAIN Items[x[1]] /\ x = <<x[1], x[2]>>
    /\ \A p \in Plugins : \A i \in DOMAIN Items[p] : <<p, i>> \in AllItems
  BY DEF AllItems, ItemsOf

\* So the item a plugin is at is one.
LEMMA CurrentItem ==
    ASSUME AtOK, NEW p \in Plugins, result[p] \in {"publish", "add", "go"}
    PROVE  Current(p) \in AllItems /\ Current(p)[1] = p /\ Current(p)[2] = at[p]
  BY ItemOfPlugin DEF AtOK, Current

\* While one plugin registers, no other is about to start a goroutine.
LEMMA OthersDoNotGo ==
    ASSUME AtOK, NEW p \in Plugins, result[p] \in Registering
    PROVE  /\ result[p] # "go" => Going = {}
           /\ result[p] = "go" => Going = {p}
  BY DEF AtOK, Going, Registering

\* The sets that are counted are finite.
LEMMA Finite ==
    ASSUME TypeOK, AtOK
    PROVE  /\ IsFiniteSet(running) /\ Cardinality(running) \in Nat
           /\ IsFiniteSet(Going) /\ Cardinality(Going) \in Nat
<1>1. IsFiniteSet(running)
  BY RegistryAssumption, FS_Subset DEF TypeOK
<1>2. IsFiniteSet(Going)
  <2>1. CASE Going = {}
    BY <2>1, FS_EmptySet
  <2>2. CASE Going # {}
    <3>1. PICK p \in Plugins : result[p] = "go"
      BY <2>2 DEF Going
    <3>2. Going = {p}
      BY <3>1, OthersDoNotGo DEF Registering
    <3> QED
      BY <3>2, FS_Singleton
  <2> QED
    BY <2>1, <2>2
<1> QED
  BY <1>1, <1>2, FS_CardinalityType

\* Nothing is registered to begin with.
LEMMA InitInv == Init => IInv
<1> SUFFICES ASSUME Init PROVE IInv
  OBVIOUS
<1>1. TypeOK
  BY DEF Init, TypeOK
<1>2. AtOK
  BY DEF Init, AtOK, Registering
<1>3. ServedOK
  <2>1. Served = {}
    BY RegistryAssumption DEF Init, Served, Keys
  <2> QED
    BY <2>1, ItemsSeq DEF Init, ServedOK, Reached
<1>4. RunningOK /\ LateOK
  BY DEF Init, RunningOK, LateOK
<1>5. Counted
  <2>1. Cardinality({}) = 0
    BY FS_EmptySet
  <2>2. {p \in Plugins : result[p] = "go"} = {}
    BY DEF Init
  <2> QED
    BY <2>1, <2>2 DEF Init, Counted
<1> QED
  BY <1>1, <1>2, <1>3, <1>4, <1>5 DEF IInv

\* A step of a plugin that neither publishes nor starts anything.
LEMMA QuietInv ==
    ASSUME IInv, NEW p \in Plugins, NEW r,
           result[p] \in {"todo", "bucket", "load", "publish"},
           result[p] = "todo" => \A q \in Plugins : result[q] \notin Registering,
           To(p, r),
           r \in {"bucket", "load", "publish", "ok", "error"},
           r \in {"bucket", "load"} => at[p] = 1,
           r = "publish" => at[p] \in DOMAIN Items[p],
           r = "ok" => at[p] > Len(Items[p]),
           buckets' \subseteq {Id[q] : q \in Plugins},
           UNCHANGED <<at, owner, slices, wg, running, hung, stop, late>>
    PROVE  IInv'
<1>0. TypeOK /\ AtOK /\ ServedOK /\ RunningOK /\ LateOK /\ Counted
  BY DEF IInv
<1>r. /\ result'[p] = r
      /\ \A q \in Plugins : q # p => result'[q] = result[q]
      /\ result' \in [Plugins -> Registering \cup {"todo", "ok", "error"}]
  BY <1>0 DEF To, TypeOK, Registering
<1>1. TypeOK'
  BY <1>0, <1>r DEF TypeOK
<1>2. AtOK'
  <2>1. \A a, b \in Plugins : result'[a] \in Registering /\ result'[b] \in Registering => a = b
    <3> SUFFICES ASSUME NEW a \in Plugins, NEW b \in Plugins,
                        result'[a] \in Registering, result'[b] \in Registering, a # b
                 PROVE  FALSE
      OBVIOUS
    <3>1. CASE a # p /\ b # p
      BY <1>0, <1>r, <3>1 DEF AtOK
    <3>2. CASE a = p \/ b = p
      <4>1. PICK q \in Plugins : q # p /\ result[q] \in Registering
        BY <1>r, <3>2
      <4>2. result[p] \in Registering \/ result[p] = "todo"
        BY DEF Registering
      <4> QED
        BY <1>0, <4>1, <4>2 DEF AtOK
    <3> QED
      BY <3>1, <3>2
  <2>2. ASSUME NEW q \in Plugins
        PROVE  /\ at'[q] \in Nat \ {0}
               /\ result'[q] \in {"publish", "add", "go"} => at'[q] \in DOMAIN Items[q]
               /\ result'[q] \in {"todo", "bucket", "load"} => at'[q] = 1
               /\ result'[q] = "ok" => at'[q] > Len(Items[q])
    <3>1. CASE q = p
      BY <1>0, <1>r, <3>1 DEF AtOK
    <3>2. CASE q # p
      BY <1>0, <1>r, <3>2 DEF AtOK
    <3> QED
      BY <3>1, <3>2
  <2> QED
    BY <2>1, <2>2 DEF AtOK
<1>3. ServedOK'
  <2>1. Served' = Served
    BY DEF Served
  <2>2. \A q \in Plugins : \A i \in DOMAIN Items[q] : Reached(q, i)' <=> Reached(q, i)
    BY <1>r DEF Reached
  <2> QED
    BY <1>0, <2>1, <2>2 DEF ServedOK
<1>4. RunningOK'
  BY <1>0 DEF RunningOK
<1>5. {q \in Plugins : result'[q] = "go"} = {q \in Plugins : result[q] = "go"}
  BY <1>r
<1>6. LateOK'
  BY <1>0, <1>5 DEF LateOK, Current
<1>7. Counted'
  BY <1>0, <1>5 DEF Counted
<1> QED
  BY <1>1, <1>2, <1>3, <1>4, <1>6, <1>7 DEF IInv

\* A step that makes the item at hand served: by its name, or in a slice.
LEMMA PublishInv ==
    ASSUME IInv, NEW p \in Plugins, result[p] = "publish", To(p, "add"),
           Served' = Served \cup {Current(p)},
           owner' \in [Keys -> AllItems \cup {None}], slices' \subseteq AllItems,
           UNCHANGED <<at, buckets, wg, running, hung, stop, late>>
    PROVE  IInv'
<1>0. TypeOK /\ AtOK /\ ServedOK /\ RunningOK /\ LateOK /\ Counted
  BY DEF IInv
<1>r. /\ result'[p] = "add"
      /\ \A q \in Plugins : q # p => result'[q] = result[q]
      /\ result' \in [Plugins -> Registering \cup {"todo", "ok", "error"}]
  BY <1>0 DEF To, TypeOK, Registering
<1>1. TypeOK'
  BY <1>0, <1>r DEF TypeOK
<1>2. AtOK'
  BY <1>0, <1>r DEF AtOK, Registering
<1>3. ServedOK'
  <2> SUFFICES ASSUME NEW q \in Plugins, NEW i \in DOMAIN Items[q]
               PROVE  <<q, i>> \in Served' <=> Reached(q, i)'
    BY DEF ServedOK
  <2>1. <<q, i>> \in Served' <=> <<q, i>> \in Served \/ (q = p /\ i = at[p])
    BY DEF Current
  <2>2. <<q, i>> \in Served <=> Reached(q, i)
    BY <1>0 DEF ServedOK
  <2> QED
    BY <1>r, <2>1, <2>2 DEF Reached
<1>4. RunningOK'
  BY <1>0 DEF RunningOK
<1>5. {q \in Plugins : result'[q] = "go"} = {q \in Plugins : result[q] = "go"}
  BY <1>r
<1>6. LateOK'
  BY <1>0, <1>5 DEF LateOK, Current
<1>7. Counted'
  BY <1>0, <1>5 DEF Counted
<1> QED
  BY <1>1, <1>2, <1>3, <1>4, <1>6, <1>7 DEF IInv

\* A step of the goroutines or of Stop leaves the registration alone.
LEMMA NoPluginInv ==
    ASSUME IInv, UNCHANGED <<result, at, buckets, owner, slices, late>>,
           running' \subseteq running, hung' \subseteq running',
           stop' \in {"no", "cancelled", "waiting", "closed"}, wg' \in Nat,
           LateOK', Counted'
    PROVE  IInv'
<1>0. TypeOK /\ AtOK /\ ServedOK /\ RunningOK
  BY DEF IInv
<1>1. TypeOK'
  BY <1>0 DEF TypeOK
<1>2. AtOK'
  BY <1>0 DEF AtOK
<1>3. ServedOK'
  BY <1>0 DEF ServedOK, Served, Reached
<1>4. RunningOK'
  BY <1>0 DEF RunningOK
<1> QED
  BY <1>1, <1>2, <1>3, <1>4 DEF IInv

\* Every step keeps the invariant.
LEMMA StepInv == IInv /\ [Next]_vars => IInv'
<1> SUFFICES ASSUME IInv, [Next]_vars PROVE IInv'
  OBVIOUS
<1>0. TypeOK /\ AtOK /\ ServedOK /\ RunningOK /\ LateOK /\ Counted
  BY DEF IInv
<1>1. ASSUME NEW p \in Plugins, Begin(p) PROVE IInv'
  <2>1. at[p] = 1
    BY <1>0, <1>1 DEF Begin, AtOK
  <2> QED
    BY <1>0, <1>1, <2>1, QuietInv DEF Begin, TypeOK
<1>2. ASSUME NEW p \in Plugins, InitPluginBucket(p) PROVE IInv'
  <2>1. at[p] = 1 /\ buckets' \subseteq {Id[q] : q \in Plugins}
    BY <1>0, <1>2 DEF InitPluginBucket, AtOK, TypeOK
  <2> QED
    BY <1>2, <2>1, QuietInv DEF InitPluginBucket
<1>3. ASSUME NEW p \in Plugins, InitPluginBucketFails(p) \/ LoadFails(p) \/ Duplicate(p) PROVE IInv'
  <2>1. buckets' \subseteq {Id[q] : q \in Plugins}
    BY <1>0, <1>3 DEF InitPluginBucketFails, LoadFails, Duplicate, TypeOK
  <2> QED
    BY <1>3, <2>1, QuietInv DEF InitPluginBucketFails, LoadFails, Duplicate
<1>4. ASSUME NEW p \in Plugins, Load(p) PROVE IInv'
  <2>1. at[p] = 1 /\ buckets' \subseteq {Id[q] : q \in Plugins}
    BY <1>0, <1>4 DEF Load, AtOK, TypeOK
  <2>2. CASE Items[p] = <<>>
    <3>1. at[p] > Len(Items[p])
      BY <2>1, <2>2, ItemsSeq
    <3> QED
      BY <1>4, <2>1, <2>2, <3>1, QuietInv DEF Load
  <2>3. CASE Items[p] # <<>>
    <3>1. at[p] \in DOMAIN Items[p]
      BY <2>1, <2>3, ItemsSeq
    <3> QED
      BY <1>4, <2>1, <2>3, <3>1, QuietInv DEF Load
  <2> QED
    BY <2>2, <2>3
<1>5. ASSUME NEW p \in Plugins, Publish(p) PROVE IInv'
  <2>1. Current(p) \in AllItems
    BY <1>0, <1>5, CurrentItem DEF Publish
  <2>2. Item(Current(p)) \in Keys
    BY <1>5, <2>1 DEF Publish, Keys
  <2>3. owner' \in [Keys -> AllItems \cup {None}]
    BY <1>0, <1>5, <2>1 DEF Publish, TypeOK
  <2>4. owner'[Item(Current(p))] = Current(p)
    BY <1>0, <1>5, <2>2 DEF Publish, TypeOK
  <2>5. \A k \in Keys : k # Item(Current(p)) => owner'[k] = owner[k]
    BY <1>0, <1>5 DEF Publish, TypeOK
  <2>6. ASSUME NEW x \in AllItems
        PROVE  x \in Served' <=> x \in Served \/ x = Current(p)
    <3>1. Item(x).kind \in Keyed => Item(x) \in Keys
      BY DEF Keys
    <3>2. slices' = slices /\ Item(Current(p)).kind \in Keyed /\ owner[Item(Current(p))] = None
      BY <1>5 DEF Publish
    <3>3. CASE Item(x) = Item(Current(p))
      BY <2>4, <3>2, <3>3, RegistryAssumption DEF Served
    <3>4. CASE Item(x) # Item(Current(p))
      BY <2>5, <3>1, <3>2, <3>4 DEF Served
    <3> QED
      BY <3>3, <3>4
  <2>7. Served' = Served \cup {Current(p)}
    BY <2>1, <2>6 DEF Served
  <2> QED
    BY <1>0, <1>5, <2>3, <2>7, PublishInv DEF Publish, TypeOK
<1>6. ASSUME NEW p \in Plugins, AppendHook(p) PROVE IInv'
  <2>1. Current(p) \in AllItems
    BY <1>0, <1>6, CurrentItem DEF AppendHook
  <2>2. Served' = Served \cup {Current(p)}
    BY <1>6, <2>1 DEF AppendHook, Served
  <2> QED
    BY <1>0, <1>6, <2>1, <2>2, PublishInv DEF AppendHook, TypeOK
<1>7. ASSUME NEW p \in Plugins, Add(p) PROVE IInv'
  <2>1. Current(p) \in AllItems
    BY <1>0, <1>7, CurrentItem DEF Add
  <2>r. /\ result[p] = "add" /\ result'[p] = "go"
        /\ \A q \in Plugins : q # p => result'[q] = result[q]
        /\ result' \in [Plugins -> Registering \cup {"todo", "ok", "error"}]
        /\ UNCHANGED <<at, buckets, owner, slices, running, hung, stop>> /\ wg' = wg + 1
    BY <1>0, <1>7 DEF Add, To, TypeOK, Registering
  <2>l. /\ late \subseteq late' /\ late' \subseteq AllItems
        /\ stop = "closed" => Current(p) \in late'
    BY <1>0, <1>7, <2>1 DEF Add, TypeOK
  <2>2. TypeOK'
    BY <1>0, <2>r, <2>l DEF TypeOK
  <2>3. AtOK'
    BY <1>0, <2>r DEF AtOK, Registering
  <2>4. ServedOK'
    <3>1. Served' = Served
      BY <2>r DEF Served
    <3>2. \A q \in Plugins : \A i \in DOMAIN Items[q] : Reached(q, i)' <=> Reached(q, i)
      BY <2>r DEF Reached
    <3> QED
      BY <1>0, <3>1, <3>2 DEF ServedOK
  <2>5. RunningOK'
    BY <1>0, <2>r DEF RunningOK
  <2>6. LateOK'
    <3> SUFFICES ASSUME stop = "closed"
                 PROVE  /\ running \subseteq late'
                        /\ \A q \in Plugins : result'[q] = "go" => Current(q) \in late'
      BY <2>r DEF LateOK, Current
    <3>1. running \subseteq late'
      BY <1>0, <2>l DEF LateOK
    <3>2. ASSUME NEW q \in Plugins, result'[q] = "go" PROVE Current(q) \in late'
      BY <1>0, <2>r, <2>l, <3>2 DEF LateOK
    <3> QED
      BY <3>1, <3>2
  <2>7. Counted'
    <3>1. Going = {} /\ {q \in Plugins : result'[q] = "go"} = {p}
      BY <1>0, <2>r, OthersDoNotGo DEF Registering, Going
    <3>2. Cardinality(Going) = 0 /\ Cardinality({p}) = 1
      BY <3>1, FS_EmptySet, FS_Singleton
    <3>3. wg = Cardinality(running)
      BY <1>0, <3>2, Finite DEF Counted, Going
    <3> QED
      BY <1>0, <2>r, <3>1, <3>2, <3>3, Finite DEF Counted
  <2> QED
    BY <2>2, <2>3, <2>4, <2>5, <2>6, <2>7 DEF IInv
<1>8. ASSUME NEW p \in Plugins, Go(p) PROVE IInv'
  <2>1. Current(p) \in AllItems /\ Current(p)[1] = p /\ Current(p)[2] = at[p]
    BY <1>0, <1>8, CurrentItem DEF Go
  <2>n. at[p] \in DOMAIN Items[p] /\ at[p] \in Nat /\ at[p] \in 1..Len(Items[p]) /\ Len(Items[p]) \in Nat
    BY <1>0, <1>8, ItemsSeq DEF Go, AtOK
  <2>r. /\ result[p] = "go"
        /\ result'[p] = IF at[p] = Len(Items[p]) THEN "ok" ELSE "publish"
        /\ \A q \in Plugins : q # p => result'[q] = result[q] /\ at'[q] = at[q]
        /\ result' \in [Plugins -> Registering \cup {"todo", "ok", "error"}]
        /\ at' \in [Plugins -> Nat] /\ at'[p] = at[p] + 1
        /\ running' = running \cup {Current(p)}
        /\ UNCHANGED <<buckets, owner, slices, wg, hung, stop, late>>
    BY <1>0, <1>8, <2>n DEF Go, To, TypeOK, Registering
  <2>2. TypeOK'
    BY <1>0, <2>1, <2>r DEF TypeOK
  <2>3. AtOK'
    <3>1. \A a, b \in Plugins : result'[a] \in Registering /\ result'[b] \in Registering => a = b
      BY <1>0, <2>r DEF AtOK, Registering
    <3>2. ASSUME NEW q \in Plugins
          PROVE  /\ at'[q] \in Nat \ {0}
                 /\ result'[q] \in {"publish", "add", "go"} => at'[q] \in DOMAIN Items[q]
                 /\ result'[q] \in {"todo", "bucket", "load"} => at'[q] = 1
                 /\ result'[q] = "ok" => at'[q] > Len(Items[q])
      <4>1. CASE q = p
        <5>1. at[p] # Len(Items[p]) => at[p] + 1 \in DOMAIN Items[p]
          BY <2>n, ItemsSeq
        <5> QED
          BY <2>n, <2>r, <4>1, <5>1
      <4>2. CASE q # p
        BY <1>0, <2>r, <4>2 DEF AtOK
      <4> QED
        BY <4>1, <4>2
    <3> QED
      BY <3>1, <3>2 DEF AtOK
  <2>4. ServedOK'
    <3> SUFFICES ASSUME NEW q \in Plugins, NEW i \in DOMAIN Items[q]
                 PROVE  <<q, i>> \in Served' <=> Reached(q, i)'
      BY DEF ServedOK
    <3>1. Served' = Served
      BY <2>r DEF Served
    <3>2. <<q, i>> \in Served <=> Reached(q, i)
      BY <1>0 DEF ServedOK
    <3>3. i \in Nat
      BY ItemsSeq
    <3>4. CASE q = p
      BY <2>n, <2>r, <3>1, <3>2, <3>3, <3>4 DEF Reached
    <3>5. CASE q # p
      BY <2>r, <3>1, <3>2, <3>5 DEF Reached
    <3> QED
      BY <3>4, <3>5
  <2>5. RunningOK'
    <3> SUFFICES ASSUME NEW x \in running' PROVE x[2] < at'[x[1]]
      BY DEF RunningOK
    <3>1. CASE x = Current(p)
      BY <2>1, <2>n, <2>r, <3>1
    <3>2. CASE x \in running
      <4>1. x[2] < at[x[1]] /\ x[1] \in Plugins /\ x[2] \in DOMAIN Items[x[1]]
        BY <1>0, <3>2, ItemOfPlugin DEF RunningOK, TypeOK
      <4>2. x[2] \in Nat
        BY <4>1, ItemsSeq
      <4> QED
        BY <2>n, <2>r, <4>1, <4>2
    <3> QED
      BY <2>r, <3>1, <3>2
  <2>6. LateOK'
    <3> SUFFICES ASSUME stop = "closed"
                 PROVE  /\ running' \subseteq late
                        /\ \A q \in Plugins : result'[q] = "go" => <<q, at'[q]>> \in late
      BY <2>r DEF LateOK, Current
    <3>1. running' \subseteq late
      BY <1>0, <2>r DEF LateOK
    <3>2. ASSUME NEW q \in Plugins, result'[q] = "go" PROVE FALSE
      BY <1>0, <2>r, <3>2 DEF AtOK, Registering
    <3> QED
      BY <3>1, <3>2
  <2>7. Counted'
    <3>1. Going = {p} /\ {q \in Plugins : result'[q] = "go"} = {}
      BY <1>0, <2>r, OthersDoNotGo DEF Registering, Going
    <3>2. Cardinality(Going) = 1 /\ Cardinality({}) = 0
      BY <3>1, FS_EmptySet, FS_Singleton
    <3>3. Current(p) \notin running
      BY <1>0, <2>1, <2>n DEF RunningOK
    <3>4. Cardinality(running \cup {Current(p)}) = Cardinality(running) + 1
      BY <1>0, <3>3, Finite, FS_AddElement
    <3>5. wg = Cardinality(running) + 1
      BY <1>0, <3>2 DEF Counted, Going
    <3>6. Cardinality(running') = wg'
      BY <2>r, <3>4, <3>5
    <3>7. wg' \in Nat
      BY <1>0, <2>r DEF TypeOK
    <3> QED
      BY <3>1, <3>2, <3>6, <3>7 DEF Counted
  <2> QED
    BY <2>2, <2>3, <2>4, <2>5, <2>6, <2>7 DEF IInv
<1>9. ASSUME NEW x \in AllItems, Return(x) PROVE IInv'
  <2>1. Cardinality(running \ {x}) = Cardinality(running) - 1 /\ running # {}
    BY <1>0, <1>9, Finite, FS_RemoveElement DEF Return
  <2>2. Cardinality(running \ {x}) \in Nat
    BY <1>0, Finite, FS_RemoveElement, FS_CardinalityType
  <2>3. {q \in Plugins : result'[q] = "go"} = Going
    BY <1>9 DEF Return, Going
  <2>4. Counted' /\ wg' \in Nat
    BY <1>0, <1>9, <2>1, <2>2, <2>3, Finite DEF Return, Counted, Going
  <2>5. LateOK'
    BY <1>0, <1>9 DEF Return, LateOK, Current
  <2> QED
    BY <1>0, <1>9, <2>4, <2>5, NoPluginInv DEF Return, TypeOK
<1>10. CASE ParentCancelled \/ Stop \/ \E x \in AllItems : Hang(x)
  <2>1. Counted' /\ LateOK'
    BY <1>0, <1>10 DEF ParentCancelled, Stop, Hang, Counted, LateOK, Current
  <2> QED
    BY <1>0, <1>10, <2>1, NoPluginInv DEF ParentCancelled, Stop, Hang, TypeOK
<1>11. CASE Close
  <2>1. Counted'
    BY <1>0, <1>11 DEF Close, Counted
  <2>2. Cardinality(running) = 0 /\ Cardinality(Going) = 0
    BY <1>0, <1>11, Finite DEF Close, Counted, Going
  <2>3. running = {} /\ Going = {}
    BY <1>0, <2>2, Finite, FS_EmptySet
  <2>4. LateOK'
    BY <1>11, <2>3 DEF Close, LateOK, Going
  <2> QED
    BY <1>0, <1>11, <2>1, <2>4, NoPluginInv DEF Close, TypeOK
<1>12. CASE UNCHANGED vars
  <2>1. Counted' /\ LateOK'
    BY <1>0, <1>12 DEF vars, Counted, LateOK, Current
  <2> QED
    BY <1>0, <1>12, <2>1, NoPluginInv DEF vars, TypeOK
<1> QED
  BY <1>1, <1>2, <1>3, <1>4, <1>5, <1>6, <1>7, <1>8, <1>9, <1>10, <1>11, <1>12 DEF Next

\* The inductive invariant holds throughout.
LEMMA Always == Spec => []IInv
  BY InitInv, StepInv, PTL DEF Spec

\* The maps, the slices and the counter keep their types (plugins.go, bot.go).
THEOREM Typing == Spec => []TypeOK
<1>1. IInv => TypeOK
  BY DEF IInv
<1> QED
  BY Always, <1>1, PTL

\* A plugin's registration that fails leaves a beginning of it (plugins.go RegisterPlugin).
THEOREM PrefixServedAlways == Spec => []PrefixServed
<1>1. IInv => PrefixServed
  <2> SUFFICES ASSUME IInv, NEW p \in Plugins
               PROVE  /\ \A i, j \in DOMAIN Items[p] :
                            i < j /\ <<p, j>> \in Served => <<p, i>> \in Served
                      /\ result[p] = "ok" => ItemsOf(p) \subseteq Served
                      /\ result[p] \in {"todo", "bucket", "load"} => ItemsOf(p) \cap Served = {}
    BY DEF PrefixServed
  <2>1. /\ DOMAIN Items[p] = 1..Len(Items[p]) /\ Len(Items[p]) \in Nat /\ at[p] \in Nat
        /\ \A i \in DOMAIN Items[p] : <<p, i>> \in Served <=> Reached(p, i)
        /\ result[p] \in {"todo", "bucket", "load"} => at[p] = 1
        /\ result[p] = "ok" => at[p] > Len(Items[p])
    BY ItemsSeq DEF IInv, AtOK, ServedOK
  <2>2. \A i, j \in DOMAIN Items[p] : i < j /\ <<p, j>> \in Served => <<p, i>> \in Served
    BY <2>1 DEF Reached
  <2>3. result[p] = "ok" => ItemsOf(p) \subseteq Served
    BY <2>1 DEF Reached, ItemsOf
  <2>4. result[p] \in {"todo", "bucket", "load"} => ItemsOf(p) \cap Served = {}
    BY <2>1 DEF Reached, ItemsOf
  <2> QED
    BY <2>2, <2>3, <2>4
<1> QED
  BY Always, <1>1, PTL

\* A goroutine that runs is found by what it is for (plugins.go RegisterPlugin).
THEOREM RunningIsServedAlways == Spec => []RunningIsServed
<1>1. IInv => RunningIsServed
  <2> SUFFICES ASSUME IInv, NEW x \in running PROVE x \in Served
    BY DEF RunningIsServed
  <2>1. x[1] \in Plugins /\ x[2] \in DOMAIN Items[x[1]] /\ x = <<x[1], x[2]>> /\ x[2] < at[x[1]]
    BY ItemOfPlugin DEF IInv, TypeOK, RunningOK
  <2>2. <<x[1], x[2]>> \in Served <=> Reached(x[1], x[2])
    BY <2>1 DEF IInv, ServedOK
  <2> QED
    BY <2>1, <2>2 DEF Reached
<1> QED
  BY Always, <1>1, PTL

\* The wait group's counter is what it stands for (plugins.go wg.Add, bot.go Stop).
THEOREM CountedAlways == Spec => []Counted
<1>1. IInv => Counted
  BY DEF IInv
<1> QED
  BY Always, <1>1, PTL

\* Stop closes the database under no goroutine but those registered once it was called
\* (bot.go Stop, plugins.go RegisterPlugin).
THEOREM ClosedUnderNoneAlways == Spec => []ClosedUnderNone
<1>1. IInv => ClosedUnderNone
  BY DEF IInv, LateOK, ClosedUnderNone
<1> QED
  BY Always, <1>1, PTL

\* No registration takes a name away from the plugin that has it (plugins.go
\* RegisterPlugin).
THEOREM FirstKeepsNameEver == Spec => FirstKeepsName
<1>1. IInv /\ [Next]_vars => [NamesStay]_vars
  <2> SUFFICES ASSUME IInv, Next PROVE NamesStay
    OBVIOUS
  <2>1. ASSUME NEW p \in Plugins, Publish(p) PROVE NamesStay
    BY <2>1 DEF Publish, NamesStay, IInv, TypeOK
  <2>2. CASE owner' = owner
    BY <2>2 DEF NamesStay
  <2> QED
    BY <2>1, <2>2 DEF Next, Begin, InitPluginBucket, InitPluginBucketFails, Load, LoadFails,
      Duplicate, AppendHook, Add, Go, Return, Hang, ParentCancelled, Stop, Close
<1> QED
  BY Always, <1>1, PTL DEF Spec, FirstKeepsName
=============================================================================
