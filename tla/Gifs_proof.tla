----------------------------- MODULE Gifs_proof -----------------------------
(***************************************************************************)
(* Whose gifs are whose, and what the migration keeps, for any phrases and *)
(* gifs and any bucket of version 1.                                       *)
(***************************************************************************)
EXTENDS Gifs, TLAPS

\* What a /g at hand has fetched is on record as fetched for its phrase.
FoundOK == found # Nothing => asked # Nothing /\ <<asked.phrase, found>> \in fetched

\* While a /g is at hand, what was read for it and what was taught since make up the
\* phrase's replies.
AskedOK ==
    asked # Nothing =>
        /\ phase = "up"
        /\ asked.replies.allowed \subseteq Replies(asked.phrase).allowed
        /\ Replies(asked.phrase).allowed \subseteq asked.replies.allowed \cup since.allowed
        /\ Replies(asked.phrase).blocked \subseteq asked.replies.blocked \cup since.blocked
        /\ found # Nothing => asked.replies.allowed = {} /\ found \notin asked.replies.blocked

\* From the migration on, its note written or not, the gifs of version 1 are there.
MigratedOK ==
    migrated \/ phase \in {"mark", "up"} =>
        \A p \in Phrases : Legacy[p] # Nothing => Legacy[p] \in Replies(p).allowed

\* Until the note is written, or could not be, users have taught the bot nothing.
UntaughtOK ==
    ~migrated /\ ~unmarked =>
        /\ phase # "up"
        /\ \A p \in Phrases :
              /\ Legacy[p] = Nothing => Replies(p).allowed = {}
              /\ Replies(p).allowed \subseteq {Legacy[p]}
              /\ Replies(p).blocked = {}

\* The load does not migrate again what is noted as migrated.
OnceOK == phase \in {"migrate", "mark"} => ~migrated

\* The inductive invariant.
IInv == TypeOK /\ Credited /\ FoundOK /\ AskedOK /\ MigratedOK /\ UntaughtOK /\ OnceOK

\* A phrase's replies, if it has none, are two empty sets.
LEMMA RepliesType ==
    ASSUME TypeOK, NEW p \in Phrases
    PROVE  Replies(p) \in Alias /\ Replies(p).allowed \subseteq Urls /\ Replies(p).blocked \subseteq Urls
  BY DEF TypeOK, Replies, NoReplies, Alias

\* appendUrl adds one gif to one of the two lists.
LEMMA Appended ==
    ASSUME TypeOK, NEW p \in Phrases, NEW u \in Urls, NEW block \in BOOLEAN
    PROVE  /\ AppendUrl(p, u, block) \in Alias
           /\ AppendUrl(p, u, block) # Nothing
           /\ block => /\ AppendUrl(p, u, block).allowed = Replies(p).allowed
                       /\ AppendUrl(p, u, block).blocked = Replies(p).blocked \cup {u}
           /\ ~block => /\ AppendUrl(p, u, block).allowed = Replies(p).allowed \cup {u}
                        /\ AppendUrl(p, u, block).blocked = Replies(p).blocked
<1>1. AppendUrl(p, u, block) \in Alias
  BY RepliesType DEF AppendUrl, Alias
<1>2. AppendUrl(p, u, block) # Nothing
  BY <1>1, GifsAssumption DEF Alias
<1>3. /\ block => /\ AppendUrl(p, u, block).allowed = Replies(p).allowed
                  /\ AppendUrl(p, u, block).blocked = Replies(p).blocked \cup {u}
      /\ ~block => /\ AppendUrl(p, u, block).allowed = Replies(p).allowed \cup {u}
                   /\ AppendUrl(p, u, block).blocked = Replies(p).blocked
  BY RepliesType DEF AppendUrl, Alias
<1> QED
  BY <1>1, <1>2, <1>3

\* What users teach the bot: one phrase has one reply more, and the others stay.
LEMMA Taught ==
    ASSUME TypeOK, NEW p \in Phrases, NEW u \in Urls, NEW block \in BOOLEAN,
           alias' = [alias EXCEPT ![p] = AppendUrl(p, u, block)]
    PROVE  /\ alias' \in [Phrases -> Alias \cup {Nothing}]
           /\ \A q \in Phrases :
                 /\ Replies(q).allowed \subseteq Replies(q)'.allowed
                 /\ Replies(q).blocked \subseteq Replies(q)'.blocked
                 /\ \A w \in Replies(q)'.allowed : w \in Replies(q).allowed \/ (~block /\ q = p /\ w = u)
                 /\ \A w \in Replies(q)'.blocked : w \in Replies(q).blocked \/ (block /\ q = p /\ w = u)
<1>1. alias' \in [Phrases -> Alias \cup {Nothing}]
  BY Appended DEF TypeOK
<1>2. \A q \in Phrases : q # p => Replies(q)' = Replies(q)
  BY DEF TypeOK, Replies
<1>3. Replies(p)' = AppendUrl(p, u, block)
  <2>1. AppendUrl(p, u, block) # Nothing
    BY Appended
  <2>2. alias'[p] = AppendUrl(p, u, block)
    BY DEF TypeOK
  <2> QED
    BY <2>1, <2>2 DEF Replies
<1>4. ASSUME NEW q \in Phrases
      PROVE  /\ Replies(q).allowed \subseteq Replies(q)'.allowed
             /\ Replies(q).blocked \subseteq Replies(q)'.blocked
             /\ \A w \in Replies(q)'.allowed : w \in Replies(q).allowed \/ (~block /\ q = p /\ w = u)
             /\ \A w \in Replies(q)'.blocked : w \in Replies(q).blocked \/ (block /\ q = p /\ w = u)
  <2>1. CASE q = p
    BY <1>3, <2>1, Appended
  <2>2. CASE q # p
    BY <1>2, <2>2
  <2> QED
    BY <2>1, <2>2
<1> QED
  BY <1>1, <1>4

\* What Migrate makes of a phrase.
LEMMA Migrated ==
    ASSUME TypeOK, Migrate, NEW p \in Phrases
    PROVE  /\ Legacy[p] = Nothing => Replies(p)' = Replies(p)
           /\ Legacy[p] # Nothing => Replies(p)' = [allowed |-> {Legacy[p]}, blocked |-> {}]
<1>1. alias'[p] = IF Legacy[p] = Nothing THEN alias[p]
                  ELSE [allowed |-> {Legacy[p]}, blocked |-> {}]
  BY DEF Migrate
<1>2. Legacy[p] # Nothing => [allowed |-> {Legacy[p]}, blocked |-> {}] # Nothing
  BY GifsAssumption
<1> QED
  BY <1>1, <1>2 DEF Replies

\* Nothing is stored to begin with.
LEMMA InitInv == Init => IInv
<1> SUFFICES ASSUME Init PROVE IInv
  OBVIOUS
<1>1. TypeOK
  BY DEF Init, TypeOK, Alias, NoReplies
<1>2. \A p \in Phrases : Replies(p) = NoReplies
  BY DEF Init, Replies
<1>3. Credited /\ FoundOK /\ AskedOK /\ MigratedOK /\ UntaughtOK /\ OnceOK
  BY <1>2 DEF Init, Credited, FoundOK, AskedOK, MigratedOK, UntaughtOK, OnceOK, NoReplies
<1> QED
  BY <1>1, <1>3 DEF IInv

\* A step that teaches the bot something keeps the invariant.
LEMMA TeachInv ==
    ASSUME IInv, phase = "up", NEW p \in Phrases, NEW u \in Urls, NEW block \in BOOLEAN,
           Teach(p, u, block), saved \subseteq saved', saved' \subseteq Phrases \X Urls,
           IF block THEN <<p, u>> \in fetched ELSE <<p, u>> \in saved' \cup fetched
    PROVE  IInv'
<1>0. TypeOK /\ Credited /\ FoundOK /\ AskedOK /\ MigratedOK /\ UntaughtOK /\ OnceOK
  BY DEF IInv
<1>1. /\ alias' = [alias EXCEPT ![p] = AppendUrl(p, u, block)]
      /\ UNCHANGED <<phase, urlKey, migrated, asked, found, posted, fetched, unmarked>>
  BY DEF Teach
<1>2. /\ alias' \in [Phrases -> Alias \cup {Nothing}]
      /\ \A q \in Phrases :
            /\ Replies(q).allowed \subseteq Replies(q)'.allowed
            /\ Replies(q).blocked \subseteq Replies(q)'.blocked
            /\ \A w \in Replies(q)'.allowed : w \in Replies(q).allowed \/ (~block /\ q = p /\ w = u)
            /\ \A w \in Replies(q)'.blocked : w \in Replies(q).blocked \/ (block /\ q = p /\ w = u)
  BY <1>0, <1>1, Taught
<1>3. since' \in Alias /\ (asked = Nothing \/ asked.phrase # p => since' = since)
      /\ (asked # Nothing /\ asked.phrase = p =>
            /\ since'.allowed = since.allowed \cup (Replies(p)'.allowed \ Replies(p).allowed)
            /\ since'.blocked = since.blocked \cup (Replies(p)'.blocked \ Replies(p).blocked))
  <2>1. Replies(p).allowed \subseteq Urls /\ Replies(p).blocked \subseteq Urls
    BY <1>0, RepliesType
  <2>2. Replies(p)'.allowed \subseteq Urls /\ Replies(p)'.blocked \subseteq Urls
    BY <1>2, <2>1
  <2> QED
    BY <1>0, <2>2 DEF Teach, TypeOK, Alias
<1>4. TypeOK'
  BY <1>0, <1>1, <1>2, <1>3 DEF TypeOK
<1>5. Credited'
  <2>1. ASSUME NEW q \in Phrases, NEW w \in Replies(q)'.allowed PROVE <<q, w>> \in saved' \cup fetched'
    BY <1>0, <1>1, <1>2, <2>1 DEF Credited
  <2>2. ASSUME NEW q \in Phrases, NEW w \in Replies(q)'.blocked PROVE <<q, w>> \in fetched'
    BY <1>0, <1>1, <1>2, <2>2 DEF Credited
  <2>3. \A w \in Urls : urlKey'[w] # Nothing => <<urlKey'[w], w>> \in fetched'
    BY <1>0, <1>1 DEF Credited
  <2> QED
    BY <2>1, <2>2, <2>3 DEF Credited
<1>6. FoundOK'
  BY <1>0, <1>1 DEF FoundOK
<1>7. AskedOK'
  <2> SUFFICES ASSUME asked # Nothing PROVE AskedOK'
    BY <1>1 DEF AskedOK
  <2>1. asked.phrase \in Phrases
    BY <1>0 DEF TypeOK
  <2>2. CASE asked.phrase = p
    BY <1>0, <1>1, <1>2, <1>3, <2>1, <2>2 DEF AskedOK
  <2>3. CASE asked.phrase # p
    BY <1>0, <1>1, <1>2, <1>3, <2>1, <2>3 DEF AskedOK
  <2> QED
    BY <2>2, <2>3
<1>8. MigratedOK'
  BY <1>0, <1>1, <1>2 DEF MigratedOK
<1>9. UntaughtOK'
  BY <1>0, <1>1 DEF UntaughtOK
<1> QED
  BY <1>0, <1>1, <1>4, <1>5, <1>6, <1>7, <1>8, <1>9 DEF IInv, OnceOK

\* A step that leaves the aliases alone keeps what is said of them.
LEMMA QuietInv ==
    ASSUME IInv, alias' = alias, TypeOK', FoundOK', AskedOK',
           fetched \subseteq fetched', saved \subseteq saved',
           \A u \in Urls : urlKey'[u] # Nothing => <<urlKey'[u], u>> \in fetched',
           migrated' \/ phase' \in {"mark", "up"} => migrated \/ phase \in {"mark", "up"},
           phase' \in {"migrate", "mark"} => ~migrated',
           ~migrated' /\ ~unmarked' => ~migrated /\ ~unmarked /\ phase' # "up"
    PROVE  IInv'
<1>0. TypeOK /\ Credited /\ FoundOK /\ MigratedOK /\ UntaughtOK /\ OnceOK
  BY DEF IInv
<1>1. \A p \in Phrases : Replies(p)' = Replies(p)
  BY DEF Replies
<1>2. Credited'
  <2>1. \A q \in Phrases :
           /\ {q} \X Replies(q)'.allowed \subseteq saved' \cup fetched'
           /\ {q} \X Replies(q)'.blocked \subseteq fetched'
    BY <1>0, <1>1 DEF Credited
  <2> QED
    BY <2>1 DEF Credited
<1>3. MigratedOK'
  BY <1>0, <1>1 DEF MigratedOK
<1>4. UntaughtOK'
  BY <1>0, <1>1 DEF UntaughtOK
<1> QED
  BY <1>2, <1>3, <1>4 DEF IInv, OnceOK

\* While the plugin is being loaded, no /g is at hand.
LEMMA Unasked == ASSUME IInv, phase # "up" PROVE asked = Nothing /\ found = Nothing
  BY DEF IInv, AskedOK, FoundOK

\* Every step keeps the invariant.
LEMMA StepInv == IInv /\ [Next]_vars => IInv'
<1> SUFFICES ASSUME IInv, [Next]_vars PROVE IInv'
  OBVIOUS
<1>0. TypeOK /\ Credited /\ FoundOK /\ AskedOK /\ MigratedOK /\ UntaughtOK /\ OnceOK
  BY DEF IInv
<1>a. ASSUME alias' = alias, NEW p \in Phrases PROVE Replies(p)' = Replies(p)
  BY <1>a DEF Replies
<1>b. Done => since' \in Alias /\ asked' = Nothing /\ found' = Nothing
  BY DEF Done, NoReplies, Alias
<1>1. CASE Load
  <2>1. TypeOK' /\ FoundOK' /\ AskedOK'
    BY <1>0, <1>1, Unasked DEF Load, command, history, TypeOK, FoundOK, AskedOK
  <2> QED
    BY <1>0, <1>1, <2>1, QuietInv DEF Load, command, history, Credited, UntaughtOK, OnceOK
<1>2. CASE Migrate
  <2>0. /\ asked' = Nothing /\ found' = Nothing
        /\ UNCHANGED <<urlKey, migrated, since, posted, fetched, unmarked>>
    BY <1>2, Unasked DEF Migrate, command
  <2>1. TypeOK'
    <3>1. \A p \in Phrases : Legacy[p] # Nothing => [allowed |-> {Legacy[p]}, blocked |-> {}] \in Alias
      BY GifsAssumption DEF Alias
    <3>2. alias' \in [Phrases -> Alias \cup {Nothing}]
      BY <1>0, <1>2, <3>1 DEF Migrate, TypeOK
    <3>3. saved' \subseteq Phrases \X Urls
      BY <1>0, <1>2 DEF Migrate, TypeOK
    <3> QED
      BY <1>0, <1>2, <2>0, <3>2, <3>3 DEF Migrate, TypeOK
  <2>2. Credited'
    <3>1. ASSUME NEW p \in Phrases, NEW u \in Replies(p)'.allowed
          PROVE  <<p, u>> \in saved' \cup fetched'
      <4>1. CASE Legacy[p] = Nothing
        BY <1>0, <1>2, <2>0, <3>1, <4>1, Migrated DEF Migrate, Credited
      <4>2. CASE Legacy[p] # Nothing
        <5>1. u = Legacy[p] /\ u \in Urls
          BY <1>0, <1>2, <3>1, <4>2, Migrated, GifsAssumption
        <5> QED
          BY <1>2, <5>1 DEF Migrate
      <4> QED
        BY <4>1, <4>2
    <3>2. ASSUME NEW p \in Phrases, NEW u \in Replies(p)'.blocked
          PROVE  <<p, u>> \in fetched'
      BY <1>0, <1>2, <2>0, <3>2, Migrated DEF Credited
    <3>3. \A u \in Urls : urlKey'[u] # Nothing => <<urlKey'[u], u>> \in fetched'
      BY <1>0, <2>0 DEF Credited
    <3> QED
      BY <3>1, <3>2, <3>3 DEF Credited
  <2>3. FoundOK' /\ AskedOK'
    BY <2>0 DEF FoundOK, AskedOK
  <2>4. MigratedOK'
    BY <1>0, <1>2, Migrated DEF MigratedOK
  <2>5. UntaughtOK'
    <3>1. phase' = "mark"
      BY <1>2 DEF Migrate
    <3> QED
      BY <1>0, <1>2, <2>0, <3>1, Migrated DEF UntaughtOK
  <2>6. OnceOK'
    BY <1>0, <1>2 DEF Migrate, OnceOK
  <2> QED
    BY <2>1, <2>2, <2>3, <2>4, <2>5, <2>6 DEF IInv
<1>3. CASE MigrateFails
  <2>1. TypeOK' /\ FoundOK' /\ AskedOK'
    BY <1>0, <1>3, Unasked DEF MigrateFails, command, history, TypeOK, FoundOK, AskedOK
  <2> QED
    BY <1>0, <1>3, <2>1, QuietInv DEF MigrateFails, command, history, Credited, OnceOK
<1>4. CASE Mark
  <2>1. TypeOK' /\ FoundOK' /\ AskedOK'
    BY <1>0, <1>4, Unasked DEF Mark, command, history, TypeOK, FoundOK, AskedOK
  <2> QED
    BY <1>0, <1>4, <2>1, QuietInv DEF Mark, command, history, Credited, OnceOK
<1>5. CASE MarkFails
  <2>1. TypeOK' /\ FoundOK' /\ AskedOK'
    BY <1>0, <1>5, Unasked DEF MarkFails, command, TypeOK, FoundOK, AskedOK
  <2> QED
    BY <1>0, <1>5, <2>1, QuietInv DEF MarkFails, command, Credited, OnceOK
<1>6. CASE Crash
  <2>1. TypeOK' /\ FoundOK' /\ AskedOK'
    BY <1>0, <1>b, <1>6 DEF Crash, history, TypeOK, FoundOK, AskedOK
  <2> QED
    BY <1>0, <1>6, <2>1, QuietInv DEF Crash, history, Credited, OnceOK
<1>7. ASSUME NEW p \in Phrases, Ask(p) PROVE IInv'
  <2>1. /\ alias' = alias /\ asked' = [phrase |-> p, replies |-> Replies(p)]
        /\ phase' = "up" /\ found' = Nothing /\ since' = NoReplies
        /\ UNCHANGED <<phase, urlKey, migrated, posted, fetched, saved, unmarked>>
    BY <1>0, <1>7 DEF Ask, history, FoundOK
  <2>2. TypeOK'
    BY <1>0, <2>1, RepliesType DEF TypeOK, NoReplies, Alias
  <2>3. AskedOK' /\ FoundOK'
    BY <1>a, <2>1 DEF AskedOK, FoundOK
  <2> QED
    BY <1>0, <2>1, <2>2, <2>3, QuietInv DEF Credited, UntaughtOK, OnceOK
<1>8. ASSUME NEW p \in Phrases, NEW u \in Urls, Gsave(p, u) PROVE IInv'
  <2>1. saved' \subseteq Phrases \X Urls
    BY <1>0, <1>8 DEF Gsave, TypeOK
  <2> QED
    BY <1>8, <2>1, TeachInv DEF Gsave
<1>9. CASE GiveNone
  <2>1. TypeOK' /\ FoundOK' /\ AskedOK' /\ phase = "up"
    BY <1>0, <1>b, <1>9 DEF GiveNone, history, TypeOK, FoundOK, AskedOK
  <2> QED
    BY <1>0, <1>9, <2>1, QuietInv DEF GiveNone, history, Credited, UntaughtOK, OnceOK
<1>10. CASE Remember
  <2>1. asked # Nothing /\ asked.phrase \in Phrases /\ <<asked.phrase, found>> \in fetched /\ phase = "up"
    BY <1>0, <1>10 DEF Remember, TypeOK, FoundOK, AskedOK
  <2>2. \A u \in Urls : urlKey'[u] # Nothing => <<urlKey'[u], u>> \in fetched'
    BY <1>0, <1>10, <2>1 DEF Remember, history, Credited, TypeOK
  <2>3. TypeOK' /\ FoundOK' /\ AskedOK'
    BY <1>0, <1>b, <1>10, <2>1 DEF Remember, history, TypeOK, FoundOK, AskedOK
  <2> QED
    BY <1>0, <1>10, <2>1, <2>2, <2>3, QuietInv DEF Remember, history, UntaughtOK, OnceOK
<1>11. CASE RememberFails
  <2>1. TypeOK' /\ FoundOK' /\ AskedOK' /\ phase = "up"
    BY <1>0, <1>b, <1>11 DEF RememberFails, history, TypeOK, FoundOK, AskedOK
  <2> QED
    BY <1>0, <1>11, <2>1, QuietInv DEF RememberFails, history, Credited, UntaughtOK, OnceOK
<1>12. ASSUME NEW u \in Urls, GiveKnown(u) PROVE IInv'
  <2>1. TypeOK' /\ FoundOK' /\ AskedOK' /\ phase = "up"
    BY <1>0, <1>b, <1>12 DEF GiveKnown, TypeOK, FoundOK, AskedOK
  <2> QED
    BY <1>0, <1>12, <2>1, QuietInv DEF GiveKnown, Credited, UntaughtOK, OnceOK
<1>13. ASSUME NEW u \in Urls, GiveFresh(u) PROVE IInv'
  <2>0. /\ asked # Nothing /\ asked.phrase \in Phrases /\ phase = "up"
        /\ asked.replies.allowed = {} /\ u \notin asked.replies.blocked
        /\ fetched' = fetched \cup {<<asked.phrase, u>>} /\ found' = u /\ posted' = posted \cup {u}
        /\ UNCHANGED <<phase, alias, urlKey, migrated, asked, since, saved, unmarked>>
    BY <1>0, <1>13 DEF GiveFresh, Fetched, TypeOK, AskedOK
  <2>1. TypeOK' /\ FoundOK'
    BY <1>0, <2>0 DEF TypeOK, FoundOK
  <2>2. AskedOK'
    BY <1>0, <1>a, <2>0 DEF AskedOK
  <2> QED
    BY <1>0, <2>0, <2>1, <2>2, QuietInv DEF Credited, UntaughtOK, OnceOK
<1>14. ASSUME NEW u \in Urls, NEW block \in BOOLEAN, React(u, block) PROVE IInv'
  <2>1. PICK p \in Phrases : urlKey[u] = p /\ Teach(p, u, block)
    BY <1>14 DEF React
  <2>2. <<p, u>> \in fetched
    BY <1>0, <2>1, GifsAssumption DEF Credited
  <2>3. saved' = saved /\ saved \subseteq Phrases \X Urls
    BY <1>0, <1>14 DEF React, TypeOK
  <2> QED
    BY <1>14, <2>1, <2>2, <2>3, TeachInv DEF React
<1>15. CASE UNCHANGED vars
  <2>1. TypeOK' /\ FoundOK' /\ AskedOK'
    <3>1. UNCHANGED <<phase, alias, urlKey, migrated, asked, found, since, posted, fetched, saved, unmarked>>
      BY <1>15 DEF vars, command, history
    <3> QED
      BY <1>0, <1>a, <3>1 DEF TypeOK, FoundOK, AskedOK
  <2> QED
    BY <1>0, <1>15, <2>1, QuietInv DEF vars, command, history, Credited, UntaughtOK, OnceOK
<1> QED
  BY <1>1, <1>2, <1>3, <1>4, <1>5, <1>6, <1>7, <1>8, <1>9, <1>10, <1>11, <1>12, <1>13,
    <1>14, <1>15 DEF Next, GoodBot, BadBot

\* The inductive invariant holds throughout.
LEMMA Always == Spec => []IInv
  BY InitInv, StepInv, PTL DEF Spec

\* The bucket and what is at hand keep their types (gifs/quadlek.go).
THEOREM Typing == Spec => []TypeOK
<1>1. IInv => TypeOK
  BY DEF IInv
<1> QED
  BY Always, <1>1, PTL

\* A reply is stored for a phrase only if it was saved, migrated or said for it,
\* whichever message is reacted to (gifs/quadlek.go, the reaction hook).
THEOREM CreditedAlways == Spec => []Credited
<1>1. IInv => Credited
  BY DEF IInv
<1> QED
  BY Always, <1>1, PTL

\* What /g says against the bucket as it is now was stored after it began
\* (gifs/quadlek.go gifCommand).
THEOREM NothingOverlookedAlways == Spec => []NothingOverlooked
<1>1. IInv => NothingOverlooked
  BY DEF IInv, AskedOK, NothingOverlooked
<1> QED
  BY Always, <1>1, PTL

\* After the load, however the migration before it was cut short, version 1 is served
\* (gifs/quadlek.go gifLoad).
THEOREM LegacyServedAlways == Spec => []LegacyServed
<1>1. IInv => LegacyServed
  BY DEF IInv, MigratedOK, LegacyServed
<1> QED
  BY Always, <1>1, PTL

\* No step but Migrate takes a reply away, and Migrate takes none that users taught,
\* unless the note of an earlier one could not be written.
LEMMA StepKeeps ==
    ASSUME IInv, [Next]_vars, NEW p \in Phrases, ~unmarked \/ Legacy[p] = Nothing
    PROVE  Kept(p)
<1>0. TypeOK /\ UntaughtOK /\ OnceOK
  BY DEF IInv
<1>1. CASE alias' = alias
  <2>1. Replies(p)' = Replies(p)
    BY <1>1 DEF Replies
  <2> QED
    BY <2>1 DEF Kept
<1>2. CASE Migrate
  <2>1. CASE Legacy[p] = Nothing
    BY <1>0, <1>2, <2>1, Migrated DEF Kept
  <2>2. CASE ~unmarked /\ ~migrated
    BY <1>0, <1>2, <2>2, Migrated DEF Kept, UntaughtOK
  <2>3. CASE migrated
    BY <1>0, <1>2, <2>3 DEF Migrate, OnceOK
  <2> QED
    BY <2>1, <2>2, <2>3
<1>3. ASSUME NEW q \in Phrases, NEW u \in Urls, Gsave(q, u) PROVE Kept(p)
  BY <1>0, <1>3, Taught DEF Gsave, Teach, Kept
<1>4. ASSUME NEW u \in Urls, NEW block \in BOOLEAN, React(u, block) PROVE Kept(p)
  <2>1. PICK q \in Phrases : Teach(q, u, block)
    BY <1>4 DEF React
  <2> QED
    BY <1>0, <2>1, Taught DEF Teach, Kept
<1>5. CASE UNCHANGED vars
  BY <1>1, <1>5 DEF vars
<1> QED
  BY <1>1, <1>2, <1>3, <1>4, <1>5 DEF Next, Load, MigrateFails, Mark, MarkFails, Crash, Ask,
    GiveNone, Remember, RememberFails, GiveKnown, GiveFresh, Fetched, GoodBot, BadBot

\* Across crashes in the middle of the migration and restarts, nothing is lost, unless
\* writing its note failed (gifs/quadlek.go gifLoad, appendUrl).
THEOREM NothingForgottenEver == Spec => NothingForgotten
<1>1. IInv /\ [Next]_vars => [NoneForgotten]_vars
  BY StepKeeps DEF NoneForgotten
<1> QED
  BY Always, <1>1, PTL DEF Spec, NothingForgotten

\* Of what is not a phrase of version 1 nothing is lost at all (gifs/quadlek.go gifLoad).
THEOREM OldPhrasesOnlyEver == Spec => OldPhrasesOnly
<1>1. IInv /\ [Next]_vars => [NewPhrasesKept]_vars
  BY StepKeeps DEF NewPhrasesKept
<1> QED
  BY Always, <1>1, PTL DEF Spec, OldPhrasesOnly
=============================================================================
