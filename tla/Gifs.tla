-------------------------------- MODULE Gifs --------------------------------
(***************************************************************************)
(* The gifs plugin: what /g, /gsave and the good-bot and bad-bot reactions *)
(* do to the plugin's bucket, and the migration that runs when the plugin  *)
(* is loaded.  Every Store call is one bolt transaction.  /g needs two: it *)
(* replies inside the first and remembers what it replied in the second,   *)
(* and the other goroutines, or a crash, may come in between.              *)
(*                                                                         *)
(* A list of replies is the set of its URLs: diffAppendReply keeps one     *)
(* reply per URL and no order.                                             *)
(***************************************************************************)
CONSTANTS
    Phrases,    \* what users ask for
    Urls,       \* gifs
    Nothing,    \* no such key
    Legacy      \* [Phrases -> Urls \cup {Nothing}]: version 1 keys, never deleted

ASSUME GifsAssumption ==
    /\ Nothing \notin Phrases \cup Urls
    /\ Legacy \in [Phrases -> Urls \cup {Nothing}]
    /\ Nothing \notin [allowed : SUBSET Urls, blocked : SUBSET Urls]

VARIABLES
    phase,      \* down, migrate, mark or up
    alias,      \* [Phrases -> the alias key or Nothing]
    urlKey,     \* [Urls -> the phrase under "url:" or Nothing]
    migrated,   \* the key meta:v2Migration exists
    asked,      \* the phrase of the /g at hand and the replies its read transaction sees
    found,      \* the gif that /g has got from giphy and said, or Nothing
    since,      \* what was taught about its phrase since it began (history)
    posted,     \* gifs the bot ever said (history)
    fetched,    \* pairs: the gif was got from giphy for the phrase, and said (history)
    saved,      \* pairs: the gif was migrated or saved for the phrase (history)
    unmarked    \* writing meta:v2Migration failed and was ignored (history)

command == <<asked, found, since>>
history == <<posted, fetched, saved, unmarked>>
vars == <<phase, alias, urlKey, migrated, command, history>>

Alias == [allowed : SUBSET Urls, blocked : SUBSET Urls]
NoReplies == [allowed |-> {}, blocked |-> {}]

TypeOK ==
    /\ phase \in {"down", "migrate", "mark", "up"}
    /\ alias \in [Phrases -> Alias \cup {Nothing}]
    /\ urlKey \in [Urls -> Phrases \cup {Nothing}]
    /\ migrated \in BOOLEAN /\ unmarked \in BOOLEAN
    /\ asked \in [phrase : Phrases, replies : Alias] \cup {Nothing}
    /\ found \in Urls \cup {Nothing}
    /\ since \in Alias
    /\ posted \subseteq Urls
    /\ fetched \subseteq Phrases \X Urls
    /\ saved \subseteq Phrases \X Urls

Init ==
    /\ phase = "down"
    /\ alias = [p \in Phrases |-> Nothing]
    /\ urlKey = [u \in Urls |-> Nothing]
    /\ migrated = FALSE /\ unmarked = FALSE
    /\ asked = Nothing /\ found = Nothing /\ since = NoReplies
    /\ posted = {} /\ fetched = {} /\ saved = {}

\* getAlias, with an alias of no replies for a phrase that has none.
Replies(p) == IF alias[p] = Nothing THEN NoReplies ELSE alias[p]

-----------------------------------------------------------------------------
(* appendUrl                                                               *)

\* Variant: the stored alias is not read first, as if forceNew were always set.
AppendUrlAfresh(p, u, block) ==
    IF block THEN [NoReplies EXCEPT !.blocked = {u}]
             ELSE [NoReplies EXCEPT !.allowed = {u}]

\* What the alias of p becomes when u is allowed, or blocked, for it.
AppendUrl(p, u, block) ==
    IF block THEN [Replies(p) EXCEPT !.blocked = @ \cup {u}]
             ELSE [Replies(p) EXCEPT !.allowed = @ \cup {u}]

-----------------------------------------------------------------------------
(* gifLoad                                                                 *)

\* Variant: the note that the migration is done is written before it is.
LoadMarksFirst ==
    /\ phase = "down"
    /\ phase' = IF migrated THEN "up" ELSE "mark"
    /\ UNCHANGED <<alias, urlKey, migrated, command, history>>

Load ==
    /\ phase = "down"
    /\ phase' = IF migrated THEN "up" ELSE "migrate"
    /\ UNCHANGED <<alias, urlKey, migrated, command, history>>

\* One transaction makes an alias of every version 1 key, forceNew: an alias
\* that is already there is replaced.  The bucket is written while it is walked,
\* which bolt leaves undefined; as nothing is deleted the walk sees every key at
\* least once, and twice is as good as once.
Migrate ==
    /\ phase = "migrate"
    /\ alias' = [p \in Phrases |->
          IF Legacy[p] = Nothing THEN alias[p] ELSE [allowed |-> {Legacy[p]}, blocked |-> {}]]
    /\ saved' = saved \cup {pu \in Phrases \X Urls : Legacy[pu[1]] = pu[2]}
    /\ phase' = "mark"
    /\ UNCHANGED <<urlKey, migrated, command, posted, fetched, unmarked>>

\* It fails and is rolled back: the plugin is not registered until the next start.
MigrateFails ==
    /\ phase = "migrate"
    /\ phase' = "down"
    /\ UNCHANGED <<alias, urlKey, migrated, command, history>>

\* Variant: the migration is never marked as done.
MarkForgotten ==
    /\ phase = "mark"
    /\ phase' = "up"
    /\ UNCHANGED <<alias, urlKey, migrated, command, history>>

Mark ==
    /\ phase = "mark"
    /\ migrated' = TRUE
    /\ phase' = "up"
    /\ UNCHANGED <<alias, urlKey, command, history>>

\* The error of the last write is assigned and dropped: the plugin loads.
MarkFails ==
    /\ phase = "mark"
    /\ unmarked' = TRUE
    /\ phase' = "up"
    /\ UNCHANGED <<alias, urlKey, migrated, command, posted, fetched, saved>>

\* The goroutine of /g is free again.
Done == asked' = Nothing /\ found' = Nothing /\ since' = NoReplies

Crash ==
    /\ phase # "down"
    /\ phase' = "down"
    /\ Done
    /\ UNCHANGED <<alias, urlKey, migrated, history>>

-----------------------------------------------------------------------------
(* /g, /gsave and the reactions                                            *)

\* Variant: every /g gets a goroutine of its own, and they share their variables.
AskAtOnce(p) ==
    /\ phase = "up"
    /\ asked' = [phrase |-> p, replies |-> Replies(p)]
    /\ since' = NoReplies
    /\ UNCHANGED <<phase, alias, urlKey, migrated, found, history>>

\* /g p opens its read transaction.  Whatever is saved until it replies, giphy
\* being asked in between, it does not see.
Ask(p) ==
    /\ phase = "up" /\ asked = Nothing
    /\ asked' = [phrase |-> p, replies |-> Replies(p)]
    /\ since' = NoReplies
    /\ UNCHANGED <<phase, alias, urlKey, migrated, found, history>>

\* There are allowed replies: one of them is said.
GiveKnown(u) ==
    /\ asked # Nothing /\ found = Nothing
    /\ u \in asked.replies.allowed
    /\ posted' = posted \cup {u}
    /\ Done
    /\ UNCHANGED <<phase, alias, urlKey, migrated, fetched, saved, unmarked>>

Fetched(u) ==
    /\ posted' = posted \cup {u}
    /\ fetched' = fetched \cup {<<asked.phrase, u>>}
    /\ found' = u
    /\ UNCHANGED <<phase, alias, urlKey, migrated, asked, since, saved, unmarked>>

\* Variant: what giphy answers is said without a look at what is blocked.
GiveFreshUnchecked(u) ==
    /\ asked # Nothing /\ found = Nothing
    /\ asked.replies.allowed = {}
    /\ Fetched(u)

\* There are none: giphy is asked, up to ten times, for one that is not blocked.
GiveFresh(u) ==
    /\ asked # Nothing /\ found = Nothing
    /\ asked.replies.allowed = {} /\ u \notin asked.replies.blocked
    /\ Fetched(u)

\* giphy fails, or all ten are blocked: an error is said.
GiveNone ==
    /\ asked # Nothing /\ found = Nothing
    /\ asked.replies.allowed = {}
    /\ Done
    /\ UNCHANGED <<phase, alias, urlKey, migrated, history>>

\* The second transaction of /g: the phrase the gif was fetched for.
Remember ==
    /\ found # Nothing
    /\ urlKey' = [urlKey EXCEPT ![found] = asked.phrase]
    /\ Done
    /\ UNCHANGED <<phase, alias, migrated, history>>

\* It fails, which is only logged.
RememberFails ==
    /\ found # Nothing
    /\ Done
    /\ UNCHANGED <<phase, alias, urlKey, migrated, history>>

\* u is allowed, or blocked, for p; a /g that asks for p meanwhile does not see it.
Teach(p, u, block) ==
    /\ alias' = [alias EXCEPT ![p] = AppendUrl(p, u, block)]
    /\ since' = IF asked = Nothing \/ asked.phrase # p THEN since
                ELSE [allowed |-> since.allowed \cup (Replies(p)'.allowed \ Replies(p).allowed),
                      blocked |-> since.blocked \cup (Replies(p)'.blocked \ Replies(p).blocked)]
    /\ UNCHANGED <<phase, urlKey, migrated, asked, found, posted, fetched, unmarked>>

\* /gsave u p
Gsave(p, u) ==
    /\ phase = "up"
    /\ Teach(p, u, FALSE)
    /\ saved' = saved \cup {<<p, u>>}

\* A reaction to a message of the bot: the gif in it counts for, or against, the
\* phrase that gif was last fetched for.
React(u, block) ==
    /\ phase = "up"
    /\ u \in posted
    /\ \E p \in Phrases : urlKey[u] = p /\ Teach(p, u, block)
    /\ UNCHANGED saved

GoodBot(u) == React(u, FALSE)
BadBot(u) == React(u, TRUE)

Next ==
    \/ Load \/ Migrate \/ MigrateFails \/ Mark \/ MarkFails \/ Crash
    \/ \E p \in Phrases : Ask(p) \/ \E u \in Urls : Gsave(p, u)
    \/ GiveNone \/ Remember \/ RememberFails
    \/ \E u \in Urls : GiveKnown(u) \/ GiveFresh(u) \/ GoodBot(u) \/ BadBot(u)

Spec == Init /\ [][Next]_vars

-----------------------------------------------------------------------------
\* A reply is stored for a phrase because it was saved or migrated for that phrase,
\* or because /g said it in answer to that phrase and somebody reacted; only the
\* latter are blocked.  A gif that was said for two phrases counts for the one
\* remembered last, whichever message is reacted to; a gif whose phrase could not be
\* remembered counts for none; never does it count for a phrase it was not said for.
Credited ==
    /\ \A p \in Phrases :
          /\ {p} \X Replies(p).allowed \subseteq saved \cup fetched
          /\ {p} \X Replies(p).blocked \subseteq fetched
    /\ \A u \in Urls : urlKey[u] # Nothing => <<urlKey[u], u>> \in fetched

\* /g works from what it read before it asked giphy, which may be old by the time it
\* speaks, but never on what it could have known: it says a new gif for a phrase that
\* has replies, or one that is blocked, only if these were stored after it began;
\* and the replies it chooses from are still the phrase's.
NothingOverlooked ==
    asked # Nothing =>
        LET current == Replies(asked.phrase)
        IN  /\ asked.replies.allowed \subseteq current.allowed
            /\ found # Nothing =>
                  /\ current.allowed \subseteq since.allowed
                  /\ found \in current.blocked => found \in since.blocked

\* Once the plugin has loaded, every gif of version 1 can be given for its phrase,
\* whatever crashed or failed between the migration and its note.
LegacyServed ==
    phase = "up" =>
        \A p \in Phrases : Legacy[p] # Nothing => Legacy[p] \in Replies(p).allowed

\* What users taught the bot about p is not lost in this step.
Kept(p) ==
    /\ Replies(p).allowed \subseteq Replies(p)'.allowed
    /\ Replies(p).blocked \subseteq Replies(p)'.blocked

\* The two action properties, as actions.
NoneForgotten == ~unmarked => \A p \in Phrases : Kept(p)
NewPhrasesKept == \A p \in Phrases : Legacy[p] = Nothing => Kept(p)

\* Nothing is ever lost, across crashes in the middle of a migration and across
\* restarts, unless the note that the migration is done could not be written.
NothingForgotten == [][NoneForgotten]_vars

\* gifLoad registers the plugin whether the note was written or not; what a
\* later start forgets then is only about phrases of version 1.
OldPhrasesOnly == [][NewPhrasesKept]_vars
=============================================================================
