----------------------------- MODULE StoreData -----------------------------
(***************************************************************************)
(* The transactions of StoreTx with what is stored: bolt gives each one a  *)
(* copy of the page that leads to what the last commit left, and a writer  *)
(* puts in its place what its function made of that copy.                  *)
(***************************************************************************)
EXTENDS StoreTx

CONSTANTS
    Contents,   \* what the database can hold
    Makes,      \* [Clients -> [Contents -> what its function may make of them]]
    NoContent

ASSUME StoreDataAssumption ==
    /\ NoContent \notin Contents
    /\ Makes \in [Clients -> [Contents -> SUBSET Contents]]

VARIABLES
    content,    \* what the last commit left
    snapshot    \* what each open transaction started from, or NoContent

dataVars == <<pc, stage, receiver, cancelled, closed, content, snapshot>>

DataTypeOK ==
    /\ TypeOK
    /\ content \in Contents
    /\ snapshot \in [Clients -> Contents \cup {NoContent}]

DataInit ==
    /\ Init
    /\ content \in Contents
    /\ snapshot = [c \in Clients |-> NoContent]

\* Tx.init, once its kind's locks are held.
TakeSnapshot(c) ==
    /\ snapshot' = [snapshot EXCEPT ![c] = content]
    /\ UNCHANGED content

DropSnapshot(c) == snapshot' = [snapshot EXCEPT ![c] = NoContent]

\* The page is written, then rwlock let go.
Publish(c) == content' \in Makes[c][snapshot[c]] /\ DropSnapshot(c)

\* The function, or writing, failed.
Discard(c) == UNCHANGED content /\ DropSnapshot(c)

DataNext ==
    \/ (Cancel \/ Close) /\ UNCHANGED <<content, snapshot>>
    \/ \E c \in Clients :
          \/ BeginWrite(c) /\ TakeSnapshot(c)
          \/ BeginRead(c) /\ TakeSnapshot(c)
          \/ CommitOrRollback(c) /\ (Publish(c) \/ Discard(c))
          \/ CommitGrown(c) /\ (Publish(c) \/ Discard(c))
          \/ EndRead(c) /\ Discard(c)
          \/ /\ \/ Receive(c) \/ TimerFires(c) \/ Exit(c) \/ LockRw(c) \/ LockMeta(c)
                \/ StartCall(c) \/ CallReturns(c) \/ StartReply(c) \/ ReplyTaken(c)
                \/ StartGrow(c) \/ Grow(c) \/ RemoveTx(c)
             /\ UNCHANGED <<content, snapshot>>

DataSpec == DataInit /\ [][DataNext]_dataVars

FairDataSpec == DataSpec /\ Fairness

-----------------------------------------------------------------------------
Store == INSTANCE AtomicStore WITH
    seen <- [c \in Clients |-> IF Reads(c) THEN snapshot[c] ELSE NoContent]

\* However the plugins' transactions interleave, what one stores is made of all that
\* was stored before it: no update is lost, as GetAndUpdate's comment has it.
ImplementsStore == Store!Spec

\* Once a writer's reply is late, nothing of any plugin is stored any more.
NothingStored == \A c \in Clients : Stuck(c) /\ Writes(c) => content' = content

NothingStoredAgain == [][NothingStored]_dataVars
=============================================================================
