------------------------------ MODULE StoreTx ------------------------------
(***************************************************************************)
(* The plugins' transactions on the one bolt database (store.go), with     *)
(* bolt's three locks as its db.go takes and releases them, and what some  *)
(* plugins do inside a transaction: they call a service that may never     *)
(* answer, and they send a reply whose receiver may have gone.             *)
(*                                                                         *)
(* rwlock is held by a write transaction from begin to end; metalock only  *)
(* while a transaction begins or a read transaction ends; mmaplock shared  *)
(* by the read transactions that are open, and alone by a commit that has  *)
(* to map a larger file.  A lock's holder follows from where it is.        *)
(*                                                                         *)
(* What is stored is left to the modules of the plugins; how a reply gets  *)
(* late is the subject of Dispatch.                                        *)
(***************************************************************************)
EXTENDS Naturals, Sequences

CONSTANTS
    Clients,    \* plugin goroutines that use the store
    Script      \* [Clients -> the transactions one message takes, in order]

\* What a transaction is and what happens inside: a reply on an unbuffered
\* channel, a call of a service.
Transactions == [mode : {"read", "write"}, reply : BOOLEAN, call : BOOLEAN]

ASSUME StoreTxAssumption ==
    Script \in [Clients -> Seq(Transactions) \ {<<>>}]

VARIABLES
    pc,         \* where each goroutine is (see Places)
    stage,      \* which transaction of its script it is at
    receiver,   \* of the reply it owes: none, listening or gone
    cancelled,  \* the bot's context is cancelled
    closed      \* Stop has closed the database

vars == <<pc, stage, receiver, cancelled, closed>>

Places == {
    "idle",      \* in its select
    "exited",    \* its context was cancelled
    "rwlock",    \* beginRWTx: waits for rwlock
    "metalock",  \* waits for metalock; a writer already has rwlock
    "mmaplock",  \* beginTx: has metalock and waits for mmaplock, shared
    "open",      \* in the function it gave to Update or View
    "calling",   \* the same, waiting for a service
    "work",      \* the same, the service having answered or the reply being taken
    "replying",  \* the same, in the send of its reply
    "grow",      \* Commit, mmap: waits for mmaplock, alone
    "growing",   \* has it
    "ending"}    \* removeTx: has released mmaplock, waits for metalock

TypeOK ==
    /\ pc \in [Clients -> Places]
    /\ stage \in [Clients -> Nat \ {0}]
    /\ \A c \in Clients : stage[c] \in DOMAIN Script[c]
    /\ receiver \in [Clients -> {"none", "listening", "gone"}]
    /\ cancelled \in BOOLEAN /\ closed \in BOOLEAN

Init ==
    /\ pc = [c \in Clients |-> "idle"]
    /\ stage = [c \in Clients |-> 1]
    /\ receiver = [c \in Clients |-> "none"]
    /\ cancelled = FALSE /\ closed = FALSE

-----------------------------------------------------------------------------
(* The locks                                                               *)

Tx(c) == Script[c][stage[c]]
Reads(c) == Tx(c).mode = "read"
Writes(c) == Tx(c).mode = "write"

Inside == {"open", "calling", "work", "replying"}

HoldsRwlock(c) == Writes(c) /\ pc[c] \in Inside \cup {"metalock", "grow", "growing"}
HoldsMetalock(c) == pc[c] = "mmaplock"

\* Variant: removeTx takes metalock before it releases mmaplock.
ReadingToTheEnd(c) == Reads(c) /\ pc[c] \in Inside \cup {"ending"}

Reading(c) == Reads(c) /\ pc[c] \in Inside

\* Variant: new readers pass a writer that waits.
RemappingAlone(c) == pc[c] = "growing"

\* sync.RWMutex: a waiting writer keeps new readers out.
Remapping(c) == pc[c] \in {"grow", "growing"}

Free(Holds(_)) == \A c \in Clients : ~Holds(c)

-----------------------------------------------------------------------------
(* The bot                                                                 *)

Begins(c, i) == IF Script[c][i].mode = "write" THEN "rwlock" ELSE "metalock"

Goes(c, place) ==
    /\ pc' = [pc EXCEPT ![c] = place]
    /\ UNCHANGED <<stage, receiver, cancelled, closed>>

Step(c, from, place) == pc[c] \in from /\ Goes(c, place)

\* A message or command arrives; the handler of a command that is answered
\* inside a transaction waits for the answer.
Receive(c) ==
    /\ pc[c] = "idle"
    /\ pc' = [pc EXCEPT ![c] = Begins(c, 1)]
    /\ stage' = [stage EXCEPT ![c] = 1]
    /\ receiver' = [receiver EXCEPT ![c] =
          IF \E i \in DOMAIN Script[c] : Script[c][i].reply THEN "listening" ELSE "none"]
    /\ UNCHANGED <<cancelled, closed>>

\* 2.5 seconds after the command was accepted its handler leaves.
TimerFires(c) ==
    /\ receiver[c] = "listening"
    /\ receiver' = [receiver EXCEPT ![c] = "gone"]
    /\ UNCHANGED <<pc, stage, cancelled, closed>>

\* A transaction is over.  The goroutine takes the next of its script or, the
\* transaction having failed or left it nothing to store, the next message.
Over(c) ==
    /\ \/ /\ stage[c] < Len(Script[c])
          /\ pc' = [pc EXCEPT ![c] = Begins(c, stage[c] + 1)]
          /\ stage' = [stage EXCEPT ![c] = @ + 1]
          /\ UNCHANGED receiver
       \/ /\ pc' = [pc EXCEPT ![c] = "idle"]
          /\ receiver' = [receiver EXCEPT ![c] = "none"]
          /\ UNCHANGED stage
    /\ UNCHANGED <<cancelled, closed>>

\* Stop cancels the context, waits for the goroutines and closes the database.
Cancel ==
    /\ ~cancelled
    /\ cancelled' = TRUE
    /\ UNCHANGED <<pc, stage, receiver, closed>>

Exit(c) == cancelled /\ Step(c, {"idle"}, "exited")

Close ==
    /\ cancelled /\ ~closed
    /\ \A c \in Clients : pc[c] = "exited"
    /\ closed' = TRUE
    /\ UNCHANGED <<pc, stage, receiver, cancelled>>

-----------------------------------------------------------------------------
(* Beginning                                                               *)

\* Variant: bolt's write transactions do not exclude each other.
LockRwShared(c) == Step(c, {"rwlock"}, "metalock")

\* Store.Update, UpdateRaw, GetAndUpdate and ForEach.
LockRw(c) == Free(HoldsRwlock) /\ Step(c, {"rwlock"}, "metalock")

\* metalock is let go again at once.
BeginWrite(c) == Writes(c) /\ Free(HoldsMetalock) /\ Step(c, {"metalock"}, "open")

\* Store.Get.
LockMeta(c) == Reads(c) /\ Free(HoldsMetalock) /\ Step(c, {"metalock"}, "mmaplock")

\* metalock is let go as soon as mmaplock is held.
BeginRead(c) == Free(Remapping) /\ Step(c, {"mmaplock"}, "open")

-----------------------------------------------------------------------------
(* Inside                                                                  *)

StartCall(c) == Tx(c).call /\ Step(c, {"open"}, "calling")

CallReturns(c) == Step(c, {"calling"}, "work")

StartReply(c) == Tx(c).reply /\ receiver[c] # "none" /\ Step(c, {"open", "work"}, "replying")

\* Variant: whoever finds the timer fired takes the reply all the same.
ReplyAlwaysTaken(c) ==
    /\ pc[c] = "replying"
    /\ pc' = [pc EXCEPT ![c] = "work"]
    /\ receiver' = [receiver EXCEPT ![c] = "none"]
    /\ UNCHANGED <<stage, cancelled, closed>>

ReplyTaken(c) ==
    /\ pc[c] = "replying" /\ receiver[c] = "listening"
    /\ pc' = [pc EXCEPT ![c] = "work"]
    /\ receiver' = [receiver EXCEPT ![c] = "none"]
    /\ UNCHANGED <<stage, cancelled, closed>>

-----------------------------------------------------------------------------
(* Ending                                                                  *)

Done(c) == pc[c] \in {"open", "work"}

\* The function returned an error, or what it stored fits the file.
CommitOrRollback(c) == Writes(c) /\ Done(c) /\ Over(c)

StartGrow(c) == Writes(c) /\ Done(c) /\ Goes(c, "grow")

Grow(c) == Free(Reading) /\ Step(c, {"grow"}, "growing")

CommitGrown(c) == pc[c] = "growing" /\ Over(c)

EndRead(c) == Reads(c) /\ Done(c) /\ Goes(c, "ending")

RemoveTx(c) == pc[c] = "ending" /\ Free(HoldsMetalock) /\ Over(c)

-----------------------------------------------------------------------------
Next ==
    \/ Cancel \/ Close
    \/ \E c \in Clients :
          \/ Receive(c) \/ TimerFires(c) \/ Exit(c)
          \/ LockRw(c) \/ BeginWrite(c) \/ LockMeta(c) \/ BeginRead(c)
          \/ StartCall(c) \/ CallReturns(c) \/ StartReply(c) \/ ReplyTaken(c)
          \/ CommitOrRollback(c) \/ StartGrow(c) \/ Grow(c) \/ CommitGrown(c)
          \/ EndRead(c) \/ RemoveTx(c)

Spec == Init /\ [][Next]_vars

\* Go's mutexes serve who waits in turn; a goroutine waits for one lock at a
\* time, so one condition stands for all of them.  A function given to a transaction
\* goes on, and a reply that is awaited is taken.  Nothing makes messages arrive,
\* timers fire, a service answer, a file grow or the bot stop.
Fairness ==
    \A c \in Clients :
        /\ SF_vars(LockRw(c) \/ BeginWrite(c) \/ LockMeta(c) \/ BeginRead(c)
                   \/ Grow(c) \/ RemoveTx(c))
        /\ WF_vars(ReplyTaken(c) \/ CommitOrRollback(c) \/ CommitGrown(c) \/ EndRead(c))

-----------------------------------------------------------------------------
\* Its send has no receiver any more: it stays where it is.
Stuck(c) == pc[c] = "replying" /\ receiver[c] = "gone"

\* Whom a goroutine waits for.
WaitsFor(c) ==
    {h \in Clients :
        \/ pc[c] = "rwlock" /\ HoldsRwlock(h)
        \/ pc[c] \in {"metalock", "ending"} /\ HoldsMetalock(h)
        \/ pc[c] = "mmaplock" /\ Remapping(h)
        \/ pc[c] = "grow" /\ Reading(h)}

\* One transaction writes at a time, and none reads while the file is mapped
\* anew.
Exclusion ==
    /\ \A c, d \in Clients : HoldsRwlock(c) /\ HoldsRwlock(d) => c = d
    /\ \A c, d \in Clients : pc[c] = "growing" => ~Reading(d)

\* The goroutines never wait for each other in a circle, however the locks of
\* readers, writers, growing files and ending transactions are taken: who waits,
\* waits in the end for a goroutine that is inside a transaction's function.
NoCircle ==
    ~\E S \in SUBSET Clients : S # {} /\ \A c \in S : WaitsFor(c) \cap S # {}

WriterStuck ==
    \A c \in Clients : Stuck(c) /\ Writes(c) =>
        /\ Stuck(c)'
        /\ \A d \in Clients \ {c} : ~HoldsRwlock(d)'

\* A reply that is late inside a write transaction is never over, and takes the
\* writer's lock with it: no transaction of any plugin writes again.
NoWriteAgain == [][WriterStuck]_vars

AllStuck ==
    \A c, w \in Clients : Stuck(c) /\ Reads(c) /\ pc[w] = "grow" =>
        /\ Stuck(c)' /\ pc'[w] = "grow"
        /\ \A d \in Clients : pc'[d] = "open" => pc[d] = "open"

\* One that is late inside a read transaction lets the others be until a commit
\* has to grow the file.  That commit then waits for ever, and no transaction of
\* any plugin begins.
NoneBeginsAgain == [][AllStuck]_vars

\* It needs nothing but its turn: the guard of an action that Fairness is about.
GoesOn(c) ==
    \/ Done(c) \/ pc[c] = "growing"
    \/ pc[c] = "replying" /\ receiver[c] = "listening"
    \/ /\ pc[c] \in {"rwlock", "metalock", "mmaplock", "grow", "ending"}
       /\ WaitsFor(c) = {}

\* It stays where it is until a service answers, or for ever.
Hangs(c) == Stuck(c) \/ pc[c] = "calling"

\* Of those whom a goroutine in the middle of a transaction waits for, directly or
\* through others, one can go on or hangs: what OnlyHangsBlock comes to at one moment.
WaitHasEnd ==
    \A c \in Clients, S \in SUBSET Clients :
        /\ pc[c] \notin {"idle", "exited"}
        /\ c \in S /\ \A d \in S : WaitsFor(d) \subseteq S
        => \E h \in S : GoesOn(h) \/ Hangs(h)

\* Every goroutine gets back to its select, again and again, unless one of them
\* hangs for ever in a service's call or with a late reply.
OnlyHangsBlock ==
    \/ \A c \in Clients : []<>(pc[c] \in {"idle", "exited"})
    \/ \E h \in Clients : <>[](Stuck(h) \/ pc[h] = "calling")

=============================================================================
