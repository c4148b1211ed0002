------------------------------ MODULE Infobot ------------------------------
(***************************************************************************)
(* The infobot plugin: the fact store kept in memory (factpacks.go), saved *)
(* whole under one key of the plugin's bucket (infobot.go, store.go) after *)
(* every change, and loaded once when the process starts.                  *)
(*                                                                         *)
(* One goroutine handles the messages one at a time, so a message is three *)
(* steps: change the memory, save it, say so.  The process may die between *)
(* any two of them; a bolt transaction is done or not done.                *)
(***************************************************************************)
CONSTANTS
    Names,      \* what facts are about
    Values,     \* what they say
    Absent,     \* no fact of that name
    Missing,    \* the key "facts" was never written
    Unset       \* nothing is promised about a name

ASSUME InfobotAssumption ==
    /\ Absent \notin Values
    /\ Unset \notin Values \cup {Absent}
    /\ Unset \notin [name : Names, value : Values \cup {Absent}]
    /\ Missing \notin [Names -> Values \cup {Absent}]

VARIABLES
    up,         \* the process runs
    facts,      \* factStore.Facts
    hasMap,     \* Facts is a map, not nil
    disk,       \* what the bucket holds under "facts", or Missing
    step,       \* idle, save (memory changed), ack (saved, not yet said so)
    heard,      \* the change the message at hand asks for
    promised,   \* what the bot last confirmed about a name (history)
    failed      \* the last save failed (history)

vars == <<up, facts, hasMap, disk, step, heard, promised, failed>>

Facts == [Names -> Values \cup {Absent}]
Empty == [n \in Names |-> Absent]

TypeOK ==
    /\ up \in BOOLEAN /\ hasMap \in BOOLEAN
    /\ failed \in BOOLEAN
    /\ facts \in Facts
    /\ disk \in Facts \cup {Missing}
    /\ step \in {"idle", "save", "ack"}
    /\ heard \in [name : Names, value : Values \cup {Absent}] \cup {Unset}
    /\ promised \in [Names -> Values \cup {Absent, Unset}]

Init ==
    /\ up = FALSE
    /\ facts = Empty /\ hasMap = TRUE
    /\ disk = Missing
    /\ step = "idle" /\ heard = Unset
    /\ promised = [n \in Names |-> Unset]
    /\ failed = FALSE

-----------------------------------------------------------------------------
\* Variant: Load unmarshals into a local store and drops it.
LoadedNothing == Empty

\* What Load leaves in memory.  Without the key the store keeps the empty map it
\* was made with.  An empty map marshals to no bytes at all, which bolt returns
\* as a non-nil empty value, and unmarshalling that leaves Facts nil.
Loaded == IF disk = Missing THEN Empty ELSE disk

Load ==
    /\ ~up
    /\ up' = TRUE
    /\ facts' = Loaded
    /\ hasMap' = (disk # Empty)
    /\ failed' = FALSE
    /\ UNCHANGED <<disk, step, heard, promised>>

\* The change is made in memory; the user's earlier confirmation is outdated.
Change(n, v) ==
    /\ up /\ step = "idle"
    /\ facts' = [facts EXCEPT ![n] = v]
    /\ heard' = [name |-> n, value |-> v]
    /\ promised' = [promised EXCEPT ![n] = Unset]
    /\ step' = "save"
    /\ UNCHANGED <<up, hasMap, disk, failed>>

\* "@bot n is v"
HumanFactSet(n, v) == hasMap /\ Change(n, v)

\* "@bot forget n", with a fact of that name.
HumanFactForget(n) == facts[n] # Absent /\ Change(n, Absent)

\* The process goes down: memory and the message at hand are lost.
Down ==
    /\ up' = FALSE
    /\ facts' = Empty /\ hasMap' = TRUE
    /\ step' = "idle" /\ heard' = Unset
    /\ failed' = FALSE
    /\ UNCHANGED disk

\* SetFact assigns into the nil map: the goroutine panics and the bot is gone.
SetPanics(n) ==
    /\ up /\ step = "idle" /\ ~hasMap
    /\ Down
    /\ UNCHANGED promised

\* Variant: only the change is written, over what was there at the start.
SaveChangeOnly ==
    /\ step = "save"
    /\ disk' = [Empty EXCEPT ![heard.name] = heard.value]
    /\ step' = "ack"
    /\ failed' = FALSE
    /\ UNCHANGED <<up, facts, hasMap, heard, promised>>

\* Serialize and Store.Update: the whole map under one key, in one transaction.
Save ==
    /\ step = "save"
    /\ disk' = facts
    /\ step' = "ack"
    /\ failed' = FALSE
    /\ UNCHANGED <<up, facts, hasMap, heard, promised>>

\* Variant: the error is logged and the change confirmed all the same.
SaveFailsConfirmed ==
    /\ step = "save"
    /\ step' = "ack"
    /\ failed' = TRUE
    /\ UNCHANGED <<up, facts, hasMap, disk, heard, promised>>

\* The transaction fails: no confirmation, and the memory keeps the change.
SaveFails ==
    /\ step = "save"
    /\ step' = "idle" /\ heard' = Unset
    /\ failed' = TRUE
    /\ UNCHANGED <<up, facts, hasMap, disk, promised>>

\* "Alright."
Respond ==
    /\ step = "ack"
    /\ promised' = [promised EXCEPT ![heard.name] = heard.value]
    /\ step' = "idle" /\ heard' = Unset
    /\ UNCHANGED <<up, facts, hasMap, disk, failed>>

Crash ==
    /\ up
    /\ Down
    /\ UNCHANGED promised

Next ==
    \/ Load \/ Save \/ SaveFails \/ Respond \/ Crash
    \/ \E n \in Names :
          \/ \E v \in Values : HumanFactSet(n, v)
          \/ HumanFactForget(n)
          \/ SetPanics(n)

Spec == Init /\ [][Next]_vars

-----------------------------------------------------------------------------
\* What the bot confirmed is on disk, whatever fails or crashes afterwards,
\* until the next message about the same name: a failed or unconfirmed change
\* of one fact never costs another.
Durable ==
    \A n \in Names : promised[n] # Unset => disk # Missing /\ disk[n] = promised[n]

\* And it is what the bot answers (LookupFact), before and after a restart.
Remembered ==
    \A n \in Names : up /\ promised[n] # Unset => facts[n] = promised[n]

\* Between messages, memory and disk say the same unless the last save failed:
\* only then can a restart change the bot's answers.
InStep ==
    up /\ step = "idle" /\ ~failed => facts = Loaded

\* Setting a fact takes the process down (SetPanics) only on a store from which
\* the last fact was forgotten, so nothing that was confirmed is at stake; and the
\* panic leaves the disk as it is, so that it happens again after every restart.
NothingToLose ==
    ~hasMap =>
        /\ up /\ disk = Empty
        /\ \A n \in Names : promised[n] \in {Unset, Absent}
=============================================================================
