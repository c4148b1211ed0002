------------------------------ MODULE Registry ------------------------------
(***************************************************************************)
(* RegisterPlugin (plugins.go), called for one plugin after another, and   *)
(* Stop (bot.go), which may be called meanwhile: the maps and slices the   *)
(* requests are dispatched by, the buckets, and the wait group that counts *)
(* the plugins' goroutines.                                                *)
(***************************************************************************)
EXTENDS Naturals, Sequences, FiniteSets

CONSTANTS
    Plugins,
    Id,         \* [Plugins -> what GetId returns]
    Items,      \* [Plugins -> Seq([kind, name])], in the order of RegisterPlugin
    None        \* nobody has registered the name

Keyed == {"command", "webhook", "interaction"}      \* kinds kept in a map, by name
Kinds == Keyed \cup {"hook", "reactionHook"}        \* and those in a slice
ItemsOf(p) == {<<p, i>> : i \in DOMAIN Items[p]}
AllItems == UNION {ItemsOf(p) : p \in Plugins}
Item(x) == Items[x[1]][x[2]]
Keys == {Item(x) : x \in {y \in AllItems : Item(y).kind \in Keyed}}

ASSUME RegistryAssumption ==
    /\ None \notin AllItems
    /\ DOMAIN Id = Plugins
    /\ DOMAIN Items = Plugins
    /\ \A x \in AllItems : Item(x).kind \in Kinds
    /\ \A p \in Plugins : Items[p] \in Seq({Item(x) : x \in ItemsOf(p)})
    /\ IsFiniteSet(AllItems)

VARIABLES
    result,     \* each plugin: what RegisterPlugin has come to
    at,         \* the item it has come to
    buckets,    \* the ids that have a bucket
    owner,      \* Bot.commands, webhooks and interactions: each key's item, or None
    slices,     \* the items in Bot.hooks and Bot.reactionHooks
    wg,         \* the wait group's counter
    running,    \* the items whose goroutines run
    hung,       \* those among them that never return
    stop,       \* the bot: no, cancelled (by its parent context), waiting (in Stop), closed
    late        \* the items counted after Stop was called (history)

vars == <<result, at, buckets, owner, slices, wg, running, hung, stop, late>>

Registering == {"bucket", "load", "publish", "add", "go"}

TypeOK ==
    /\ result \in [Plugins -> Registering \cup {"todo", "ok", "error"}]
    /\ at \in [Plugins -> Nat]
    /\ buckets \subseteq {Id[p] : p \in Plugins}
    /\ owner \in [Keys -> AllItems \cup {None}]
    /\ slices \subseteq AllItems
    /\ wg \in Nat
    /\ running \subseteq AllItems /\ hung \subseteq running /\ late \subseteq AllItems
    /\ stop \in {"no", "cancelled", "waiting", "closed"}

Init ==
    /\ result = [p \in Plugins |-> "todo"]
    /\ at = [p \in Plugins |-> 1]
    /\ buckets = {}
    /\ owner = [k \in Keys |-> None]
    /\ slices = {} /\ running = {} /\ hung = {} /\ late = {}
    /\ wg = 0
    /\ stop = "no"

-----------------------------------------------------------------------------
(* RegisterPlugin                                                          *)

Current(p) == <<p, at[p]>>
To(p, r) == result' = [result EXCEPT ![p] = r]

\* The caller registers one plugin at a time.
Begin(p) ==
    /\ result[p] = "todo"
    /\ \A q \in Plugins : result[q] \notin Registering
    /\ To(p, "bucket")
    /\ UNCHANGED <<at, buckets, owner, slices, wg, running, hung, stop, late>>

\* InitPluginBucket; the bucket may be there already.
InitPluginBucket(p) ==
    /\ result[p] = "bucket" /\ stop # "closed"
    /\ buckets' = buckets \cup {Id[p]}
    /\ To(p, "load")
    /\ UNCHANGED <<at, owner, slices, wg, running, hung, stop, late>>

\* The database is closed, or the disk fails.
InitPluginBucketFails(p) ==
    /\ result[p] = "bucket"
    /\ To(p, "error")
    /\ UNCHANGED <<at, buckets, owner, slices, wg, running, hung, stop, late>>

Load(p) ==
    /\ result[p] = "load"
    /\ To(p, IF Items[p] = <<>> THEN "ok" ELSE "publish")
    /\ UNCHANGED <<at, buckets, owner, slices, wg, running, hung, stop, late>>

LoadFails(p) ==
    /\ result[p] = "load"
    /\ To(p, "error")
    /\ UNCHANGED <<at, buckets, owner, slices, wg, running, hung, stop, late>>

\* The map has no such name: from here on requests are dispatched to it.
Publish(p) ==
    /\ result[p] = "publish"
    /\ Item(Current(p)).kind \in Keyed
    /\ owner[Item(Current(p))] = None
    /\ owner' = [owner EXCEPT ![Item(Current(p))] = Current(p)]
    /\ To(p, "add")
    /\ UNCHANGED <<at, buckets, slices, wg, running, hung, stop, late>>

\* Variant: the rest of the plugin is registered all the same.
DuplicateSkipped(p) ==
    /\ result[p] = "publish"
    /\ Item(Current(p)).kind \in Keyed
    /\ owner[Item(Current(p))] # None
    /\ at' = [at EXCEPT ![p] = @ + 1]
    /\ To(p, IF at[p] = Len(Items[p]) THEN "error" ELSE "publish")
    /\ UNCHANGED <<buckets, owner, slices, wg, running, hung, stop, late>>

\* "Command already exists": what was registered before it stays.
Duplicate(p) ==
    /\ result[p] = "publish"
    /\ Item(Current(p)).kind \in Keyed
    /\ owner[Item(Current(p))] # None
    /\ To(p, "error")
    /\ UNCHANGED <<at, buckets, owner, slices, wg, running, hung, stop, late>>

AppendHook(p) ==
    /\ result[p] = "publish"
    /\ Item(Current(p)).kind \notin Keyed
    /\ slices' = slices \cup {Current(p)}
    /\ To(p, "add")
    /\ UNCHANGED <<at, buckets, owner, wg, running, hung, stop, late>>

\* wg.Add(1)
Add(p) ==
    /\ result[p] = "add"
    /\ wg' = wg + 1
    /\ late' = IF stop \in {"waiting", "closed"} THEN late \cup {Current(p)} ELSE late
    /\ To(p, "go")
    /\ UNCHANGED <<at, buckets, owner, slices, running, hung, stop>>

\* The goroutine is started, and the next item's turn comes.
Go(p) ==
    /\ result[p] = "go"
    /\ running' = running \cup {Current(p)}
    /\ at' = [at EXCEPT ![p] = @ + 1]
    /\ To(p, IF at[p] = Len(Items[p]) THEN "ok" ELSE "publish")
    /\ UNCHANGED <<buckets, owner, slices, wg, hung, stop, late>>

-----------------------------------------------------------------------------
(* The goroutines and Stop                                                 *)

\* Variant: Done is not deferred, and a goroutine that returns early misses it.
ReturnUncounted(x) ==
    /\ x \in running \ hung
    /\ running' = running \ {x}
    /\ UNCHANGED <<result, at, buckets, owner, slices, wg, hung, stop, late>>

\* The run function returns: its context is cancelled, or it gave up by itself.
\* The deferred wg.Done counts it.
Return(x) ==
    /\ x \in running \ hung
    /\ running' = running \ {x}
    /\ wg' = wg - 1
    /\ UNCHANGED <<result, at, buckets, owner, slices, hung, stop, late>>

\* It replies too late, calls what never answers, or, being admin's, calls Stop and
\* waits for itself: it sees no more of its context.
Hang(x) ==
    /\ x \in running \ hung
    /\ hung' = hung \cup {x}
    /\ UNCHANGED <<result, at, buckets, owner, slices, wg, running, stop, late>>

\* The context NewBot was given is cancelled; the database stays open until somebody
\* calls Stop.
ParentCancelled ==
    /\ stop = "no"
    /\ stop' = "cancelled"
    /\ UNCHANGED <<result, at, buckets, owner, slices, wg, running, hung, late>>

\* b.cancel(), and b.wg.Wait() begins.
Stop ==
    /\ stop \in {"no", "cancelled"}
    /\ stop' = "waiting"
    /\ UNCHANGED <<result, at, buckets, owner, slices, wg, running, hung, late>>

\* Variant: Stop does not wait.
CloseAtOnce ==
    /\ stop = "waiting"
    /\ stop' = "closed"
    /\ UNCHANGED <<result, at, buckets, owner, slices, wg, running, hung, late>>

\* b.wg.Wait() returns and the database is closed.
Close ==
    /\ stop = "waiting" /\ wg = 0
    /\ stop' = "closed"
    /\ UNCHANGED <<result, at, buckets, owner, slices, wg, running, hung, late>>

Next ==
    \/ \E p \in Plugins :
          \/ Begin(p) \/ InitPluginBucket(p) \/ InitPluginBucketFails(p)
          \/ Load(p) \/ LoadFails(p)
          \/ Publish(p) \/ Duplicate(p) \/ AppendHook(p) \/ Add(p) \/ Go(p)
    \/ \E x \in AllItems : Return(x) \/ Hang(x)
    \/ ParentCancelled \/ Stop \/ Close

Spec == Init /\ [][Next]_vars

\* RegisterPlugin goes on once its plugin is loaded, a goroutine that has not hung sees
\* in its select that its context is cancelled, and Stop, once called, sees that the
\* counter is zero.  Nobody need call Stop, and nothing keeps a goroutine from hanging.
Fairness ==
    /\ \A p \in Plugins : WF_vars(Publish(p) \/ Duplicate(p) \/ AppendHook(p) \/ Add(p) \/ Go(p))
    /\ \A x \in AllItems : WF_vars(stop # "no" /\ Return(x))
    /\ WF_vars(Close)

FairSpec == Spec /\ Fairness

-----------------------------------------------------------------------------
Served == {x \in AllItems : x \in slices \/ (Item(x).kind \in Keyed /\ owner[Item(x)] = x)}

\* What a plugin has in the maps and slices is the beginning of what it has to
\* register: all of it when RegisterPlugin returned no error, and otherwise, load
\* errors and names already taken included, nothing behind the item it failed at.
PrefixServed ==
    \A p \in Plugins :
        /\ \A i, j \in DOMAIN Items[p] : i < j /\ <<p, j>> \in Served => <<p, i>> \in Served
        /\ result[p] = "ok" => ItemsOf(p) \subseteq Served
        /\ result[p] \in {"todo", "bucket", "load"} => ItemsOf(p) \cap Served = {}

\* No goroutine runs that nothing is dispatched to.
RunningIsServed == running \subseteq Served

\* No name changes hands in this step.
NamesStay == \A k \in Keys : owner[k] # None => owner'[k] = owner[k]

\* A name, once registered, stays with its plugin, whatever else is registered.
FirstKeepsName == [][NamesStay]_vars

\* The database is closed under no goroutine, one that hangs included, but one that
\* was registered when Stop had been called.
ClosedUnderNone == stop = "closed" => running \subseteq late

\* The counter Stop waits for is the number of goroutines, those about to start
\* included.
Counted ==
    wg = Cardinality(running) + Cardinality({p \in Plugins : result[p] = "go"})

\* Stop, once called, comes to its end however the registrations and the goroutines
\* interleave, unless a goroutine hangs.
StopReturns == stop = "waiting" ~> (stop = "closed" \/ hung # {})
=============================================================================
