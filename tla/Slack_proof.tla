----------------------------- MODULE Slack_proof -----------------------------
(***************************************************************************)
(* What the bot learns by asking Slack: of channels and users when it      *)
(* starts, for any channels, names, users and size of a page, and of a     *)
(* channel's past, for any messages, bounds and options.                   *)
(***************************************************************************)
EXTENDS Directory, MessageLog, WellFoundedInduction, SequenceTheorems, TLAPS

-----------------------------------------------------------------------------
(* Channels and users                                                      *)

\* What was read is what is filed, and only what is public is read.
ListedOK ==
    /\ listed \subseteq Public
    /\ \A c \in Channels : c \in listed <=> channels[c] # NoName

\* What is filed was the channel's name at some time since the start.
HadOK ==
    phase # "down" => \A c \in Channels :
        /\ name[c] # NoName => name[c] \in had[c]
        /\ channels[c] # NoName => channels[c] \in had[c]

\* When the last page is read, all that was there before the first was listed.
BeforeOK ==
    /\ before \cap Users \subseteq members
    /\ phase \in {"users", "up"} => before \cap Public \subseteq listed
    /\ phase = "up" => before \cap Users \subseteq users

\* The inductive invariant.
IInv == TypeOK /\ ListedOK /\ NamesAgree /\ HadOK /\ BeforeOK

\* A name that is on the page is filed with a channel of the page that has it.
LEMMA FiledNamed ==
    ASSUME NEW p, NEW n, Named(p, n) # {}
    PROVE  Filed(p, n) \in p /\ name[Filed(p, n)] = n
<1>1. Filed(p, n) \in Named(p, n)
  BY DEF Filed
<1> QED
  BY <1>1 DEF Named

\* Nothing is known to begin with.
LEMMA InitInv == Init => IInv
<1> SUFFICES ASSUME Init PROVE IInv
  OBVIOUS
<1>1. TypeOK
  BY DEF Init, TypeOK
<1>2. ListedOK /\ NamesAgree /\ HadOK /\ BeforeOK
  BY DEF Init, ListedOK, NamesAgree, GetChannel, GetChannelId, HadOK, BeforeOK
<1> QED
  BY <1>1, <1>2 DEF IInv

\* Every step keeps it.
LEMMA StepInv == IInv /\ [Next]_vars => IInv'
<1> SUFFICES ASSUME IInv, [Next]_vars PROVE IInv'
  OBVIOUS
<1>0. TypeOK /\ ListedOK /\ NamesAgree /\ HadOK /\ BeforeOK
  BY DEF IInv
<1>1. ASSUME NEW c \in Channels, NEW n \in Names, Name(c, n) PROVE IInv'
  <2>1. TypeOK'
    BY <1>0, <1>1 DEF Name, TypeOK
  <2>2. ListedOK' /\ NamesAgree' /\ BeforeOK'
    BY <1>0, <1>1 DEF Name, ListedOK, NamesAgree, GetChannel, GetChannelId, BeforeOK
  <2>3. HadOK'
    <3>1. \A d \in Channels : had[d] \subseteq had'[d]
      BY <1>0, <1>1 DEF Name, TypeOK
    <3>2. \A d \in Channels : name'[d] # name[d] => name'[d] \in had'[d]
      BY <1>0, <1>1 DEF Name, TypeOK
    <3> QED
      BY <1>0, <1>1, <3>1, <3>2 DEF Name, HadOK
  <2> QED
    BY <2>1, <2>2, <2>3 DEF IInv
<1>2. ASSUME NEW u \in Users, Join(u) PROVE IInv'
  BY <1>0, <1>2 DEF Join, IInv, TypeOK, ListedOK, NamesAgree, GetChannel, GetChannelId,
    HadOK, BeforeOK
<1>3. CASE Start
  <2>1. TypeOK'
    BY <1>0, <1>3 DEF Start, TypeOK
  <2>2. ListedOK' /\ NamesAgree' /\ BeforeOK'
    BY <1>0, <1>3 DEF Start, ListedOK, NamesAgree, GetChannel, GetChannelId, BeforeOK
  <2>3. HadOK'
    BY <1>0, <1>3 DEF Start, HadOK, TypeOK
  <2> QED
    BY <2>1, <2>2, <2>3 DEF IInv
<1>4. CASE Die
  BY <1>0, <1>4 DEF Die, IInv, TypeOK, ListedOK, NamesAgree, GetChannel, GetChannelId,
    HadOK, BeforeOK
<1>5. CASE AuthTest
  <2>1. TypeOK'
    BY <1>0, <1>5 DEF AuthTest, slack, TypeOK, There
  <2>2. ListedOK' /\ NamesAgree' /\ HadOK'
    BY <1>0, <1>5 DEF AuthTest, slack, ListedOK, NamesAgree, GetChannel, GetChannelId, HadOK
  <2>3. BeforeOK'
    BY <1>0, <1>5, DirectoryAssumption DEF AuthTest, slack, There, BeforeOK
  <2> QED
    BY <2>1, <2>2, <2>3 DEF IInv
<1>6. CASE ListPage
  <2> DEFINE rest == (There \cap Public) \ listed
  <2>1. PICK p \in Pages(rest) :
          /\ listed' = listed \cup p
          /\ channels' = [c \in Channels |-> IF c \in p THEN name[c] ELSE channels[c]]
          /\ human' = [n \in Names |-> Filed(p, n)]
          /\ (LastPage(p) /\ phase' = "users") \/ (p # rest /\ phase' = "channels")
    BY <1>6 DEF ListPage
  <2>2. phase = "channels" /\ UNCHANGED <<name, members, had, users, before>>
    BY <1>6 DEF ListPage, slack
  <2>3. p \subseteq Channels /\ p \subseteq Public /\ p \cap listed = {} /\ \A c \in p : name[c] # NoName
    BY DEF Pages, There
  <2>4. \A n \in Names : Named(p, n) = {} => Filed(p, n) = human[n]
    BY DEF Filed
  <2>5. TypeOK'
    <3>1. \A n \in Names : Filed(p, n) \in Channels \cup {NoChannel}
      BY <1>0, <2>3, <2>4, FiledNamed DEF TypeOK
    <3>2. human' \in [Names -> Channels \cup {NoChannel}]
      BY <2>1, <3>1
    <3>3. channels' \in [Channels -> Names \cup {NoName}]
      BY <1>0, <2>1 DEF TypeOK
    <3>4. listed' \subseteq Channels /\ phase' \in {"users", "channels"}
      BY <1>0, <2>1, <2>3 DEF TypeOK
    <3> QED
      BY <1>0, <2>2, <3>2, <3>3, <3>4 DEF TypeOK
  <2>6. ListedOK'
    BY <1>0, <2>1, <2>3 DEF ListedOK
  <2>7. NamesAgree'
    <3> SUFFICES ASSUME NEW n \in Names, human'[n] # NoChannel
                 PROVE  channels'[human'[n]] = n
      BY DEF NamesAgree, GetChannel, GetChannelId
    <3>1. human'[n] = Filed(p, n)
      BY <2>1
    <3>2. CASE Named(p, n) # {}
      <4>1. Filed(p, n) \in p /\ name[Filed(p, n)] = n
        BY <3>2, FiledNamed
      <4> QED
        BY <2>1, <2>3, <3>1, <4>1
    <3>3. CASE Named(p, n) = {}
      <4>1. human'[n] = human[n]
        BY <2>4, <3>1, <3>3
      <4>2. human[n] \in Channels /\ channels[human[n]] = n
        BY <1>0, <4>1 DEF TypeOK, NamesAgree, GetChannel, GetChannelId
      <4>3. human[n] \notin p
        BY <1>0, <2>3, <4>2, DirectoryAssumption DEF ListedOK
      <4> QED
        BY <2>1, <4>1, <4>2, <4>3
    <3> QED
      BY <3>2, <3>3
  <2>8. HadOK'
    BY <1>0, <2>1, <2>2 DEF HadOK
  <2>9. BeforeOK'
    <3>1. CASE phase' = "users"
      <4>1. LastPage(p)
        BY <2>1, <3>1
      <4> QED
        BY <1>0, <2>1, <2>2, <3>1, <4>1 DEF BeforeOK, LastPage
    <3>2. CASE phase' = "channels"
      BY <1>0, <2>2, <3>2 DEF BeforeOK
    <3> QED
      BY <2>1, <3>1, <3>2
  <2> QED
    BY <2>5, <2>6, <2>7, <2>8, <2>9 DEF IInv
<1>7. CASE ListUsers
  BY <1>0, <1>7 DEF ListUsers, slack, IInv, TypeOK, ListedOK, NamesAgree, GetChannel,
    GetChannelId, HadOK, BeforeOK
<1>8. CASE UNCHANGED vars
  BY <1>0, <1>8 DEF vars, IInv, TypeOK, ListedOK, NamesAgree, GetChannel, GetChannelId,
    HadOK, BeforeOK
<1> QED
  BY <1>1, <1>2, <1>3, <1>4, <1>5, <1>6, <1>7, <1>8 DEF Next

\* The inductive invariant holds throughout.
LEMMA Always == Spec => []IInv
  BY InitInv, StepInv, PTL DEF Spec

\* The variables keep their types (bot.go).
THEOREM Typing == Spec => []TypeOK
<1>1. IInv => TypeOK
  BY DEF IInv
<1> QED
  BY Always, <1>1, PTL

\* Once Start is through, a public channel and a user that were there when it began
\* are known, whatever was created or renamed between two pages (bot.go initInfo).
THEOREM KnownOnceUpAlways == Spec => []KnownOnceUp
<1>1. IInv => KnownOnceUp
  BY DirectoryAssumption DEF IInv, ListedOK, BeforeOK, KnownOnceUp, GetChannel, GetUser
<1> QED
  BY Always, <1>1, PTL

\* A name leads to a channel that is filed under it (bot.go initInfo, GetChannelId).
THEOREM NamesAgreeAlways == Spec => []NamesAgree
<1>1. IInv => NamesAgree
  BY DEF IInv
<1> QED
  BY Always, <1>1, PTL

\* A name leads to a channel that had it at some time since the bot was started
\* (bot.go initInfo, GetChannelId).
THEOREM PostsWhereNamedAlways == Spec => []PostsWhereNamed
<1>1. IInv => PostsWhereNamed
  <2> SUFFICES ASSUME IInv, NEW n \in Names, phase # "down", human[n] # NoChannel
               PROVE  n \in had[human[n]]
    BY DEF PostsWhereNamed, GetChannelId
  <2>1. human[n] \in Channels /\ channels[human[n]] = n
    BY DEF IInv, TypeOK, NamesAgree, GetChannel, GetChannelId
  <2> QED
    BY <2>1, DirectoryAssumption DEF IInv, HadOK
<1> QED
  BY Always, <1>1, PTL

-----------------------------------------------------------------------------
(* Filtering a sequence                                                    *)

\* Induction over the natural numbers, for a set of them: its least exception would
\* have a predecessor that is none.
LEMMA Induction ==
    ASSUME NEW S, 0 \in S, \A n \in Nat : n \in S => n + 1 \in S
    PROVE  Nat \subseteq S
<1> SUFFICES ASSUME ~(Nat \subseteq S) PROVE FALSE
  OBVIOUS
<1> DEFINE T == Nat \ S
<1>1. PICK n \in T : \A m \in T : <<m, n>> \notin OpToRel(<, Nat)
  <2>1. T # {} /\ T \subseteq Nat
    OBVIOUS
  <2> HIDE DEF T
  <2> QED
    BY <2>1, NatLessThanWellFounded, WFMin
<1>2. \A m \in T : ~(m < n)
  BY <1>1 DEF OpToRel
<1>3. n # 0 /\ n - 1 \in Nat
  OBVIOUS
<1> QED
  BY <1>2, <1>3

\* The function that Kept defines by recursion: what one more element makes of it.
Keep(s, S, n, f) ==
    [i \in 0..n |-> IF i = 0 THEN <<>>
                    ELSE IF s[i] \in S THEN Append(f[i - 1], s[i]) ELSE f[i - 1]]

\* There is such a function, so that Kept is one.
LEMMA KeptDefined ==
    ASSUME NEW T, NEW s \in Seq(T), NEW S
    PROVE  Kept(s, S) = Keep(s, S, Len(s), Kept(s, S))
<1> DEFINE D == {n \in Nat : \E f : f = Keep(s, S, n, f)}
<1>1. 0 \in D
  <2>1. [i \in {0} |-> <<>>] = Keep(s, S, 0, [i \in {0} |-> <<>>])
    BY DEF Keep
  <2> QED
    BY <2>1
<1>2. ASSUME NEW n \in D PROVE n + 1 \in D
  <2>1. n \in Nat /\ n + 1 \in Nat
    OBVIOUS
  <2>2. PICK f : f = Keep(s, S, n, f)
    OBVIOUS
  <2> DEFINE g == [i \in 0..(n + 1) |-> IF i <= n THEN f[i] ELSE
                      IF s[n + 1] \in S THEN Append(f[n], s[n + 1]) ELSE f[n]]
  <2>3. ASSUME NEW i \in 0..(n + 1)
        PROVE  g[i] = Keep(s, S, n + 1, g)[i]
    <3>1. CASE i <= n
      <4>1. g[i] = f[i] /\ i \in 0..n /\ (i # 0 => i - 1 \in 0..n /\ g[i - 1] = f[i - 1])
        BY <2>1, <3>1
      <4>2. f[i] = Keep(s, S, n, f)[i]
        BY <2>2
      <4> HIDE DEF g
      <4> QED
        BY <4>1, <4>2 DEF Keep
    <3>2. CASE i = n + 1
      <4>1. g[i] = (IF s[i] \in S THEN Append(f[n], s[i]) ELSE f[n])
        BY <2>1, <3>2
      <4>2. g[n] = f[n] /\ i # 0 /\ i - 1 = n
        BY <2>1, <3>2
      <4> HIDE DEF g
      <4> QED
        BY <4>1, <4>2 DEF Keep
    <3> QED
      BY <2>1, <3>1, <3>2
  <2>4. g = Keep(s, S, n + 1, g)
    <3>1. \A F, G : F = [i \in 0..(n + 1) |-> F[i]] /\ G = [i \in 0..(n + 1) |-> G[i]]
                    /\ (\A i \in 0..(n + 1) : F[i] = G[i]) => F = G
      OBVIOUS
    <3>2. g = [i \in 0..(n + 1) |-> g[i]]
      OBVIOUS
    <3>3. Keep(s, S, n + 1, g) = [i \in 0..(n + 1) |-> Keep(s, S, n + 1, g)[i]]
      BY DEF Keep
    <3> HIDE DEF g
    <3> QED
      BY <2>3, <3>1, <3>2, <3>3
  <2> QED
    BY <2>1, <2>4
<1>3. Len(s) \in D
  <2>1. Len(s) \in Nat
    BY LenProperties
  <2> HIDE DEF D
  <2>2. \A n \in Nat : n \in D => n + 1 \in D
    BY <1>2
  <2> QED
    BY <1>1, <2>1, <2>2, Induction
<1>4. \E f : f = Keep(s, S, Len(s), f)
  BY <1>3
<1>5. Kept(s, S) = CHOOSE f : f = Keep(s, S, Len(s), f)
  BY DEF Kept, Keep
<1> QED
  BY <1>4, <1>5

\* The times of a sequence of messages run backwards.
Backwards(s) == \A i, j \in 1..Len(s) : i < j => s[i].ts > s[j].ts

\* r is what is kept of the first n elements of s.
KeptOf(r, s, S, n) ==
    /\ r \in Seq(Messages)
    /\ \A k \in 1..Len(r) : r[k] \in S /\ \E j \in 1..n : r[k] = s[j]
    /\ \A j \in 1..n : s[j] \in S => \E k \in 1..Len(r) : r[k] = s[j]
    /\ Backwards(s) => Backwards(r)

\* One more element.
LEMMA KeepOne ==
    ASSUME NEW s \in Seq(Messages), NEW S, NEW n \in Nat, n + 1 <= Len(s),
           NEW r, KeptOf(r, s, S, n)
    PROVE  KeptOf(IF s[n + 1] \in S THEN Append(r, s[n + 1]) ELSE r, s, S, n + 1)
<1>1. CASE s[n + 1] \in S
  <2> DEFINE q == Append(r, s[n + 1])
  <2>1. s[n + 1] \in Messages /\ r \in Seq(Messages) /\ Len(r) \in Nat /\ Len(s) \in Nat
    BY DEF KeptOf
  <2>2. /\ q \in Seq(Messages) /\ Len(q) = Len(r) + 1 /\ q[Len(r) + 1] = s[n + 1]
        /\ \A k \in 1..Len(r) : q[k] = r[k]
    BY <2>1, AppendProperties
  <2> HIDE DEF q
  <2>3. \A k \in 1..Len(q) : q[k] \in S /\ \E j \in 1..(n + 1) : q[k] = s[j]
    <3> SUFFICES ASSUME NEW k \in 1..Len(q)
                 PROVE  q[k] \in S /\ \E j \in 1..(n + 1) : q[k] = s[j]
      OBVIOUS
    <3>1. CASE k = Len(r) + 1
      BY <1>1, <2>2, <3>1
    <3>2. CASE k \in 1..Len(r)
      <4>1. PICK j \in 1..n : r[k] = s[j]
        BY <3>2 DEF KeptOf
      <4> QED
        BY <2>2, <3>2, <4>1 DEF KeptOf
    <3> QED
      BY <2>1, <2>2, <3>1, <3>2
  <2>4. \A j \in 1..(n + 1) : s[j] \in S => \E k \in 1..Len(q) : q[k] = s[j]
    <3> SUFFICES ASSUME NEW j \in 1..(n + 1), s[j] \in S
                 PROVE  \E k \in 1..Len(q) : q[k] = s[j]
      OBVIOUS
    <3>1. CASE j = n + 1
      BY <2>1, <2>2, <3>1
    <3>2. CASE j \in 1..n
      <4>1. PICK k \in 1..Len(r) : r[k] = s[j]
        BY <3>2 DEF KeptOf
      <4>2. k \in 1..Len(q) /\ q[k] = s[j]
        BY <2>1, <2>2, <4>1
      <4> QED
        BY <4>2
    <3> QED
      BY <3>1, <3>2
  <2>5. ASSUME Backwards(s) PROVE Backwards(q)
    <3> SUFFICES ASSUME NEW k \in 1..Len(q), NEW l \in 1..Len(q), k < l
                 PROVE  q[k].ts > q[l].ts
      BY DEF Backwards
    <3>1. k \in 1..Len(r)
      BY <2>1, <2>2
    <3>2. CASE l = Len(r) + 1
      <4>1. PICK j \in 1..n : r[k] = s[j]
        BY <3>1 DEF KeptOf
      <4>2. j < n + 1 /\ j \in 1..Len(s) /\ n + 1 \in 1..Len(s)
        BY <2>1
      <4>3. s[j].ts > s[n + 1].ts
        BY <2>5, <4>2 DEF Backwards
      <4> QED
        BY <2>2, <3>1, <3>2, <4>1, <4>3
    <3>3. CASE l \in 1..Len(r)
      BY <2>2, <2>5, <3>1, <3>3 DEF KeptOf, Backwards
    <3> QED
      BY <2>1, <2>2, <3>2, <3>3
  <2> QED
    BY <1>1, <2>2, <2>3, <2>4, <2>5 DEF KeptOf, q
<1>2. CASE s[n + 1] \notin S
  <2>1. \A k \in 1..Len(r) : r[k] \in S /\ \E j \in 1..(n + 1) : r[k] = s[j]
    BY DEF KeptOf
  <2>2. \A j \in 1..(n + 1) : s[j] \in S => j \in 1..n
    BY <1>2
  <2> QED
    BY <1>2, <2>1, <2>2 DEF KeptOf
<1> QED
  BY <1>1, <1>2

\* What is in a sequence of messages.
LEMMA InToSet ==
    ASSUME NEW s \in Seq(Messages)
    PROVE  /\ \A i \in 1..Len(s) : s[i] \in ToSet(s) /\ s[i] \in Messages
           /\ \A m \in ToSet(s) : \E i \in 1..Len(s) : m = s[i]
           /\ ToSet(s) \subseteq Messages
<1>1. DOMAIN s = 1..Len(s)
  BY LenProperties
<1> QED
  BY <1>1 DEF ToSet

\* What a filter returns: of the sequence's elements those in the set, in their order.
THEOREM AmongKeeps ==
    ASSUME NEW s \in Seq(Messages), NEW S
    PROVE  /\ Among(s, S) \in Seq(Messages)
           /\ ToSet(Among(s, S)) = ToSet(s) \cap S
           /\ Backwards(s) => Backwards(Among(s, S))
<1> DEFINE K == Kept(s, S)
           D == {n \in Nat : n <= Len(s) => KeptOf(K[n], s, S, n)}
<1>1. Len(s) \in Nat
  BY LenProperties
<1>2. ASSUME NEW n \in 0..Len(s)
      PROVE  K[n] = IF n = 0 THEN <<>>
                    ELSE IF s[n] \in S THEN Append(K[n - 1], s[n]) ELSE K[n - 1]
  <2>1. K = Keep(s, S, Len(s), K)
    BY KeptDefined
  <2>2. Keep(s, S, Len(s), K)[n] = IF n = 0 THEN <<>>
                    ELSE IF s[n] \in S THEN Append(K[n - 1], s[n]) ELSE K[n - 1]
    BY DEF Keep
  <2> HIDE DEF K
  <2> QED
    BY <2>1, <2>2
<1> HIDE DEF K
<1>3. 0 \in D
  <2>1. K[0] = <<>>
    BY <1>1, <1>2
  <2>2. <<>> \in Seq(Messages) /\ Len(<<>>) = 0
    OBVIOUS
  <2>3. KeptOf(<<>>, s, S, 0)
    BY <2>2 DEF KeptOf, Backwards
  <2> QED
    BY <2>1, <2>3
<1>4. ASSUME NEW n \in Nat, n \in D PROVE n + 1 \in D
  <2> SUFFICES ASSUME n + 1 <= Len(s) PROVE KeptOf(K[n + 1], s, S, n + 1)
    OBVIOUS
  <2>1. KeptOf(K[n], s, S, n)
    BY <1>1, <1>4
  <2>2. n + 1 \in 0..Len(s) /\ n + 1 # 0 /\ (n + 1) - 1 = n
    BY <1>1
  <2>3. K[n + 1] = IF s[n + 1] \in S THEN Append(K[n], s[n + 1]) ELSE K[n]
    BY <1>2, <2>2
  <2> QED
    BY <2>1, <2>3, KeepOne
<1>5. Len(s) \in D
  <2> HIDE DEF D
  <2>1. \A n \in Nat : n \in D => n + 1 \in D
    BY <1>4
  <2> QED
    BY <1>1, <1>3, <2>1, Induction
<1>6. KeptOf(Among(s, S), s, S, Len(s))
  BY <1>1, <1>5 DEF Among, K
<1>7. ToSet(Among(s, S)) \subseteq ToSet(s) \cap S
  <2> SUFFICES ASSUME NEW m \in ToSet(Among(s, S)) PROVE m \in ToSet(s) /\ m \in S
    OBVIOUS
  <2>1. PICK k \in 1..Len(Among(s, S)) : m = Among(s, S)[k]
    BY <1>6, InToSet DEF KeptOf
  <2>2. m \in S /\ \E j \in 1..Len(s) : m = s[j]
    BY <1>6, <2>1 DEF KeptOf
  <2> QED
    BY <2>2, InToSet
<1>8. ToSet(s) \cap S \subseteq ToSet(Among(s, S))
  <2> SUFFICES ASSUME NEW m \in ToSet(s), m \in S PROVE m \in ToSet(Among(s, S))
    OBVIOUS
  <2>1. PICK j \in 1..Len(s) : m = s[j]
    BY InToSet
  <2>2. PICK k \in 1..Len(Among(s, S)) : Among(s, S)[k] = m
    BY <1>6, <2>1 DEF KeptOf
  <2> QED
    BY <1>6, <2>2, InToSet DEF KeptOf
<1> QED
  BY <1>6, <1>7, <1>8 DEF KeptOf

-----------------------------------------------------------------------------
(* A channel's past                                                        *)

\* A channel's messages stand in the order they were posted in, after the channel
\* was made and not later than now.
ChannelOK ==
    /\ Backwards(channel)
    /\ \A m \in ToSet(channel) : m.ts > Epoch /\ m.ts <= now

\* The inductive invariant.
LogIInv == LogTypeOK /\ ChannelOK /\ Conversation /\ NeitherBotsNorPeriod /\ AtOrBefore

\* What is not said in a thread, between two times.
Between(oldest, latest) ==
    {m \in Messages : ~m.kind.threaded /\ m.ts > oldest /\ m.ts <= latest}

LEMMA Numbers ==
    /\ Epoch \in Nat /\ Seconds \in Nat /\ MaxCount \in Nat /\ MaxPeriod \in Nat
    /\ 2 * MaxPeriod <= Epoch /\ Page \in Nat /\ Page # 0
  BY MessageLogAssumption

LEMMA TimesAreNat == Now \subseteq Nat /\ \A m \in Messages : m.ts \in Nat /\ m.ts \in Now
<1>1. Now \subseteq Nat
  BY Numbers DEF Now
<1>2. \A m \in Messages : m.ts \in Now
  BY DEF Messages
<1> QED
  BY <1>1, <1>2

\* Slack's answer to conversations.history: of what was said between the times the
\* newest, without a gap, and nothing only if there is nothing.
LEMMA HistoryIsNewest ==
    ASSUME LogTypeOK, ChannelOK, NEW limit \in Nat, NEW oldest \in Nat, NEW latest \in Nat
    PROVE  LET h == History(limit, oldest, latest)
               shown == ToSet(channel) \cap Between(oldest, latest)
           IN  /\ h \in Seq(Messages) /\ Backwards(h) /\ ToSet(h) \subseteq shown
               /\ \A m \in shown : \A l \in ToSet(h) : l.ts < m.ts => m \in ToSet(h)
               /\ \A m \in shown : Len(h) >= 1 /\ m.ts <= h[1].ts
               /\ limit = 1 => Len(h) <= 1
<1> DEFINE a == Among(channel, Between(oldest, latest))
           n == IF limit = 0 THEN Page ELSE limit
           top == IF Len(a) < n THEN Len(a) ELSE n
           h == History(limit, oldest, latest)
           shown == ToSet(channel) \cap Between(oldest, latest)
<1>1. channel \in Seq(Messages) /\ Backwards(channel)
  BY DEF LogTypeOK, ChannelOK
<1>2. a \in Seq(Messages) /\ ToSet(a) = shown /\ Backwards(a)
  BY <1>1, AmongKeeps
<1>3. n \in Nat \ {0}
  BY Numbers
<1>4. h = SubSeq(a, 1, top)
  BY DEF History, Between
<1> HIDE DEF a, n, h
<1>5. Len(a) \in Nat /\ top \in Nat /\ top <= Len(a) /\ \A i \in 1..Len(a) : a[i] \in Messages
  BY <1>2, <1>3, InToSet
<1>6. /\ h \in Seq(Messages) /\ Len(h) = top
      /\ \A i \in 1..top : h[i] = a[i]
  BY <1>4, <1>5, SubSeqProperties
<1>7. Backwards(h)
  BY <1>2, <1>5, <1>6 DEF Backwards
<1>8. ToSet(h) \subseteq shown
  BY <1>2, <1>5, <1>6, InToSet
<1>9. \A m \in shown : \A l \in ToSet(h) : l.ts < m.ts => m \in ToSet(h)
  <2> SUFFICES ASSUME NEW m \in shown, NEW l \in ToSet(h), l.ts < m.ts
               PROVE  m \in ToSet(h)
    OBVIOUS
  <2>1. PICK i \in 1..Len(a) : m = a[i]
    BY <1>2, InToSet
  <2>2. PICK j \in 1..top : l = a[j]
    BY <1>6, InToSet
  <2>3. m.ts \in Nat /\ l.ts \in Nat
    BY <1>5, <2>1, <2>2, TimesAreNat
  <2>4. i < j
    BY <1>2, <1>5, <2>1, <2>2, <2>3 DEF Backwards
  <2>5. i \in 1..Len(h) /\ h[i] = m
    BY <1>5, <1>6, <2>1, <2>4
  <2> QED
    BY <1>6, <2>5, InToSet
<1>10. \A m \in shown : Len(h) >= 1 /\ m.ts <= h[1].ts
  <2> SUFFICES ASSUME NEW m \in shown PROVE Len(h) >= 1 /\ m.ts <= h[1].ts
    OBVIOUS
  <2>1. PICK i \in 1..Len(a) : m = a[i]
    BY <1>2, InToSet
  <2>2. Len(a) >= 1 /\ top >= 1 /\ h[1] = a[1]
    BY <1>3, <1>5, <1>6, <2>1
  <2>3. m.ts \in Nat /\ a[1].ts \in Nat
    BY <1>5, <2>1, <2>2, TimesAreNat
  <2> QED
    BY <1>2, <1>5, <1>6, <2>1, <2>2, <2>3 DEF Backwards
<1>11. limit = 1 => Len(h) <= 1
  BY <1>5, <1>6 DEF n
<1> QED
  BY <1>6, <1>7, <1>8, <1>9, <1>10, <1>11 DEF h
-----------------------------------------------------------------------------
(* The steps                                                               *)

\* The channel is empty to begin with.
LEMMA LogInitInv == LogInit => LogIInv
<1> SUFFICES ASSUME LogInit PROVE LogIInv
  OBVIOUS
<1>1. now \in Now /\ channel = <<>> /\ answer = NoAnswer
  BY Numbers DEF LogInit, Now
<1>2. channel \in Seq(Messages) /\ Len(channel) = 0
  BY <1>1
<1>3. LogTypeOK
  BY <1>1, <1>2 DEF LogTypeOK
<1>4. ChannelOK
  <2>1. ToSet(channel) = {}
    <3> SUFFICES ASSUME NEW m \in ToSet(channel) PROVE FALSE
      OBVIOUS
    <3>1. PICK i \in 1..Len(channel) : m = channel[i]
      BY <1>2, InToSet
    <3> QED
      BY <1>2
  <2> QED
    BY <1>2, <2>1 DEF ChannelOK, Backwards
<1>5. Conversation /\ NeitherBotsNorPeriod /\ AtOrBefore
  BY <1>1 DEF Conversation, NeitherBotsNorPeriod, AtOrBefore, NoAnswer
<1> QED
  BY <1>3, <1>4, <1>5 DEF LogIInv

\* Nothing is claimed of an answer that was not given.
LEMMA NothingSaid ==
    ASSUME now' \in Now, channel' \in Seq(Messages), answer' = NoAnswer, ChannelOK'
    PROVE  LogIInv'
<1>1. Conversation' /\ NeitherBotsNorPeriod' /\ AtOrBefore'
  BY DEF Conversation, NeitherBotsNorPeriod, AtOrBefore, NoAnswer
<1>2. LogTypeOK'
  BY DEF LogTypeOK
<1> QED
  BY <1>1, <1>2 DEF LogIInv

\* A message is posted.
LEMMA PostInv ==
    ASSUME LogIInv, NEW k \in Kinds, Post(k)
    PROVE  LogIInv'
<1> DEFINE m == [ts |-> now + 1, kind |-> k]
<1>1. channel \in Seq(Messages) /\ now \in Now /\ now \in Nat /\ Epoch \in Nat /\ now >= Epoch
  BY Numbers, TimesAreNat DEF LogIInv, LogTypeOK, Now
<1>2. now' = now + 1 /\ now' \in Now /\ channel' = <<m>> \o channel /\ answer' = NoAnswer
  BY DEF Post
<1>3. m \in Messages /\ m.ts = now + 1
  BY <1>2 DEF Messages
<1> HIDE DEF m
<1>4. <<m>> \in Seq(Messages) /\ Len(<<m>>) = 1 /\ <<m>>[1] = m
  BY <1>3
<1>5. /\ channel' \in Seq(Messages) /\ Len(channel') = Len(channel) + 1 /\ Len(channel) \in Nat
      /\ channel'[1] = m /\ \A i \in 2..Len(channel') : i - 1 \in 1..Len(channel) /\ channel'[i] = channel[i - 1]
  BY <1>1, <1>2, <1>4, ConcatProperties
<1>6. \A i \in 1..Len(channel) : channel[i].ts \in Nat /\ channel[i].ts > Epoch /\ channel[i].ts <= now
  BY <1>1, InToSet, TimesAreNat DEF LogIInv, ChannelOK
<1>7. Backwards(channel')
  <2> SUFFICES ASSUME NEW i \in 1..Len(channel'), NEW j \in 1..Len(channel'), i < j
               PROVE  channel'[i].ts > channel'[j].ts
    BY DEF Backwards
  <2>1. j \in 2..Len(channel') /\ channel'[j] = channel[j - 1] /\ j - 1 \in 1..Len(channel)
    BY <1>5
  <2>2. CASE i = 1
    BY <1>1, <1>3, <1>5, <1>6, <2>1, <2>2
  <2>3. CASE i # 1
    <3>1. channel'[i] = channel[i - 1] /\ i - 1 \in 1..Len(channel) /\ i - 1 < j - 1
      BY <1>5, <2>3
    <3> QED
      BY <2>1, <3>1 DEF LogIInv, ChannelOK, Backwards
  <2> QED
    BY <2>2, <2>3
<1>8. ASSUME NEW c \in ToSet(channel') PROVE c.ts > Epoch /\ c.ts <= now'
  <2>1. PICK i \in 1..Len(channel') : c = channel'[i]
    BY <1>5, InToSet
  <2>2. CASE i = 1
    BY <1>1, <1>2, <1>3, <1>5, <2>1, <2>2
  <2>3. CASE i # 1
    BY <1>1, <1>2, <1>5, <1>6, <2>1, <2>3
  <2> QED
    BY <2>2, <2>3
<1>9. ChannelOK'
  BY <1>7, <1>8 DEF ChannelOK, Backwards
<1> QED
  BY <1>2, <1>5, <1>9, NothingSaid

\* A message is deleted.
LEMMA DeleteInv ==
    ASSUME LogIInv, NEW i \in DOMAIN channel, Delete(i)
    PROVE  LogIInv'
<1> DEFINE a == SubSeq(channel, 1, i - 1)
           b == SubSeq(channel, i + 1, Len(channel))
<1>1. /\ channel \in Seq(Messages) /\ Len(channel) \in Nat /\ i \in 1..Len(channel)
      /\ \A j \in 1..Len(channel) : channel[j] \in Messages
  BY InToSet DEF LogIInv, LogTypeOK
<1>2. now' = now /\ now' \in Now /\ channel' = a \o b /\ answer' = NoAnswer
  BY DEF Delete, RemoveAt, LogIInv, LogTypeOK
<1>3. a \in Seq(Messages) /\ Len(a) = i - 1 /\ \A j \in 1..(i - 1) : a[j] = channel[j]
  BY <1>1, SubSeqProperties
<1>4. /\ b \in Seq(Messages) /\ Len(b) = Len(channel) - i
      /\ \A j \in 1..(Len(channel) - i) : b[j] = channel[i + j]
  BY <1>1, SubSeqProperties
<1> HIDE DEF a, b
<1>5. /\ channel' \in Seq(Messages) /\ Len(channel') = Len(channel) - 1
      /\ \A j \in 1..Len(channel') :
            /\ j < i => channel'[j] = channel[j] /\ j \in 1..Len(channel)
            /\ j >= i => channel'[j] = channel[j + 1] /\ j + 1 \in 1..Len(channel)
  <2>1. channel' \in Seq(Messages) /\ Len(channel') = Len(channel) - 1
    BY <1>1, <1>2, <1>3, <1>4, ConcatProperties
  <2>2. ASSUME NEW j \in 1..Len(channel'), j < i
        PROVE  channel'[j] = channel[j] /\ j \in 1..Len(channel)
    <3>1. j \in 1..(i - 1)
      BY <1>1, <2>1, <2>2
    <3>2. channel'[j] = a[j]
      BY <1>1, <1>2, <1>3, <1>4, <3>1, ConcatProperties
    <3> QED
      BY <1>1, <1>3, <3>1, <3>2
  <2>3. ASSUME NEW j \in 1..Len(channel'), j >= i
        PROVE  channel'[j] = channel[j + 1] /\ j + 1 \in 1..Len(channel)
    <3>1. j - (i - 1) \in 1..(Len(channel) - i) /\ i + (j - (i - 1)) = j + 1
      BY <1>1, <2>1, <2>3
    <3>2. channel'[j] = b[j - (i - 1)]
      BY <1>1, <1>2, <1>3, <1>4, <2>1, <2>3, ConcatProperties
    <3>3. b[j - (i - 1)] = channel[j + 1]
      BY <1>4, <3>1
    <3>4. j + 1 \in 1..Len(channel)
      BY <1>1, <2>1, <2>3
    <3> QED
      BY <3>2, <3>3, <3>4
  <2> QED
    BY <2>1, <2>2, <2>3
<1>6. Backwards(channel')
  <2> SUFFICES ASSUME NEW j \in 1..Len(channel'), NEW k \in 1..Len(channel'), j < k
               PROVE  channel'[j].ts > channel'[k].ts
    BY DEF Backwards
  <2>1. \A l, m \in 1..Len(channel) : l < m => channel[l].ts > channel[m].ts
    BY DEF LogIInv, ChannelOK, Backwards
  <2>2. CASE k < i
    <3>1. j < i
      BY <1>1, <1>5, <2>2
    <3> QED
      BY <1>5, <2>1, <2>2, <3>1
  <2>3. CASE j < i /\ k >= i
    <3>1. j < k + 1
      OBVIOUS
    <3> QED
      BY <1>5, <2>1, <2>3, <3>1
  <2>4. CASE j >= i
    <3>1. k >= i /\ j + 1 < k + 1
      BY <1>1, <1>5, <2>4
    <3> QED
      BY <1>5, <2>1, <2>4, <3>1
  <2> QED
    BY <1>1, <1>5, <2>2, <2>3, <2>4
<1>7. ASSUME NEW m \in ToSet(channel') PROVE m \in ToSet(channel)
  <2>1. PICK j \in 1..Len(channel') : m = channel'[j]
    BY <1>5, InToSet
  <2>2. j < i \/ j >= i
    BY <1>1, <1>5
  <2> QED
    BY <1>1, <1>5, <2>1, <2>2, InToSet
<1>8. ChannelOK'
  BY <1>2, <1>6, <1>7 DEF LogIInv, ChannelOK, Backwards
<1> QED
  BY <1>2, <1>5, <1>8, NothingSaid

\* A log is asked for.
LEMMA LogStepInv ==
    ASSUME LogIInv, NEW opts \in Options, GetMessageLog(opts)
    PROVE  LogIInv'
<1> DEFINE h == History(opts.count, Oldest(opts), now)
           shown == ToSet(channel) \cap Between(Oldest(opts), now)
           passed == {m \in Messages : Listed(opts, m)}
           r == Among(h, passed)
<1>1. /\ LogTypeOK /\ ChannelOK /\ now \in Now /\ now \in Nat /\ now >= Epoch
      /\ UNCHANGED <<now, channel>> /\ answer' = [call |-> "log", opts |-> opts, msgs |-> r]
  BY Numbers, TimesAreNat DEF LogIInv, LogTypeOK, Now, GetMessageLog, Log
<1>2. opts.count \in Nat /\ Oldest(opts) \in Nat
  <2>1. opts.count \in Nat /\ opts.period \in Nat /\ opts.period <= MaxPeriod
    BY Numbers DEF Options
  <2>2. now - opts.period \in Nat
    BY <1>1, <2>1, Numbers
  <2> QED
    BY <2>1, <2>2 DEF Oldest
<1>3. /\ h \in Seq(Messages) /\ Backwards(h) /\ ToSet(h) \subseteq shown
      /\ \A m \in shown : \A l \in ToSet(h) : l.ts < m.ts => m \in ToSet(h)
  BY <1>1, <1>2, HistoryIsNewest
<1> HIDE DEF h
<1>4. r \in Seq(Messages) /\ ToSet(r) = ToSet(h) \cap passed /\ Backwards(r)
  BY <1>3, AmongKeeps
<1> HIDE DEF r
<1>5. ToSet(r) \subseteq ToSet(channel)
  BY <1>3, <1>4
<1>6. \A m \in ToSet(r) :
        m.kind.subtype = "" /\ ~(opts.skipAttachments /\ m.kind.attached)
  BY <1>4 DEF Listed
<1>7. ASSUME NEW m \in ToSet(channel) \ ToSet(r), NEW l \in ToSet(r), l.ts < m.ts,
             m.kind.subtype = "", ~(opts.skipAttachments /\ m.kind.attached)
      PROVE  m.kind.threaded
  <2> SUFFICES ASSUME ~m.kind.threaded PROVE FALSE
    OBVIOUS
  <2>1. m \in Messages /\ l \in Messages /\ m.ts <= now
    BY <1>1, <1>5, InToSet DEF LogTypeOK, ChannelOK
  <2>2. l.ts > Oldest(opts) /\ l \in ToSet(h)
    BY <1>3, <1>4 DEF Between
  <2>3. m.ts > Oldest(opts)
    <3>1. m.ts \in Nat /\ l.ts \in Nat
      BY <2>1, TimesAreNat
    <3>2. l.ts < m.ts
      BY <1>7
    <3>3. \A x, y, z \in Nat : x > y /\ x < z => z > y
      OBVIOUS
    <3> QED
      BY <1>2, <2>2, <3>1, <3>2, <3>3
  <2>4. m \in ToSet(h)
    BY <1>3, <1>7, <2>1, <2>2, <2>3 DEF Between
  <2>5. m \in passed
    BY <1>7, <2>1 DEF Listed
  <2> QED
    BY <1>4, <2>4, <2>5
<1>8. Conversation'
  <2>1. answer'.msgs = r /\ answer'.opts = opts /\ DOMAIN r = 1..Len(r) /\ channel' = channel
    BY <1>1, <1>4
  <2>2. \A i, j \in DOMAIN r : i < j => r[i].ts > r[j].ts
    BY <1>4, <2>1 DEF Backwards
  <2> QED
    BY <1>5, <1>6, <1>7, <2>1, <2>2 DEF Conversation
<1>9. AtOrBefore'
  BY <1>1 DEF AtOrBefore
<1>10. NeitherBotsNorPeriod'
  <2>1. answer'.msgs = r /\ answer'.opts = opts
    BY <1>1
  <2>2. \A m \in ToSet(r) : m.kind.subtype # "bot_message"
    BY <1>6
  <2>3. ASSUME opts.period # 0 PROVE r = <<>>
    <3>1. opts.period \in Nat /\ opts.period <= MaxPeriod
      BY Numbers DEF Options
    <3>2. Oldest(opts) >= now
      BY <1>1, <2>3, <3>1, Numbers DEF Oldest
    <3>3. \A m \in Messages : m.ts \in Nat
      BY TimesAreNat
    <3>4. shown = {}
      BY <1>1, <1>2, <3>2, <3>3 DEF Between
    <3>5. ToSet(r) = {}
      BY <1>3, <1>4, <3>4
    <3> QED
      BY <1>4, <3>5, InToSet
  <2> QED
    BY <2>1, <2>2, <2>3 DEF NeitherBotsNorPeriod
<1>11. LogTypeOK'
  BY <1>1, <1>4 DEF LogTypeOK
<1>12. ChannelOK'
  BY <1>1 DEF ChannelOK
<1> QED
  BY <1>8, <1>9, <1>10, <1>11, <1>12 DEF LogIInv

\* A message is asked for.
LEMMA MessageStepInv ==
    ASSUME LogIInv, NEW ts \in Now, GetMessage(ts)
    PROVE  LogIInv'
<1> DEFINE h == History(1, 0, ts)
           shown == ToSet(channel) \cap Between(0, ts)
           earlier == {m \in ToSet(channel) : m.ts <= ts /\ ~m.kind.threaded}
<1>1. /\ LogTypeOK /\ ChannelOK /\ ts \in Nat /\ UNCHANGED <<now, channel>>
      /\ answer' = [call |-> "message", ts |-> ts, msg |-> Message(ts)]
  BY TimesAreNat DEF LogIInv, GetMessage
<1>2. /\ h \in Seq(Messages) /\ ToSet(h) \subseteq shown
      /\ \A m \in shown : Len(h) >= 1 /\ m.ts <= h[1].ts
      /\ Len(h) <= 1
  BY <1>1, HistoryIsNewest
<1>3. Message(ts) = IF Len(h) # 1 THEN NoMessage ELSE h[1]
  BY DEF Message
<1> HIDE DEF h
<1>4. earlier = shown
  <2>1. \A m \in ToSet(channel) : m \in Messages /\ m.ts \in Nat /\ m.ts > 0
    BY <1>1, InToSet, TimesAreNat, Numbers DEF LogTypeOK, ChannelOK
  <2> QED
    BY <2>1 DEF Between
<1>5. CASE Len(h) = 1
  <2>1. h[1] \in shown /\ h[1] \in Messages
    BY <1>2, <1>5, InToSet
  <2>2. Message(ts) = h[1]
    BY <1>3, <1>5
  <2>3. AtOrBefore'
    BY <1>1, <1>2, <1>4, <2>1, <2>2 DEF AtOrBefore
  <2>4. LogTypeOK'
    BY <1>1, <2>1, <2>2 DEF LogTypeOK
  <2> QED
    BY <1>1, <2>3, <2>4 DEF LogIInv, ChannelOK, Conversation, NeitherBotsNorPeriod
<1>6. CASE Len(h) # 1
  <2>1. shown = {}
    BY <1>2, <1>6
  <2>2. Message(ts) = NoMessage
    BY <1>3, <1>6
  <2>3. AtOrBefore'
    BY <1>1, <1>4, <2>1, <2>2 DEF AtOrBefore
  <2>4. LogTypeOK'
    BY <1>1, <2>2 DEF LogTypeOK
  <2> QED
    BY <1>1, <2>3, <2>4 DEF LogIInv, ChannelOK, Conversation, NeitherBotsNorPeriod
<1> QED
  BY <1>5, <1>6

\* Every step keeps the invariant.
LEMMA LogStep == LogIInv /\ [LogNext]_logVars => LogIInv'
<1> SUFFICES ASSUME LogIInv, [LogNext]_logVars PROVE LogIInv'
  OBVIOUS
<1>1. CASE Pass
  <2>1. now \in Nat /\ now' = now + 1 /\ now' \in Now /\ channel' = channel /\ answer' = NoAnswer
    BY <1>1, TimesAreNat DEF Pass, LogIInv, LogTypeOK
  <2>2. \A m \in ToSet(channel) : m.ts \in Nat
    BY InToSet, TimesAreNat DEF LogIInv, LogTypeOK
  <2>3. ChannelOK'
    BY <2>1, <2>2 DEF LogIInv, ChannelOK
  <2> QED
    BY <2>1, <2>3, NothingSaid DEF LogIInv, LogTypeOK
<1>2. ASSUME NEW k \in Kinds, Post(k) PROVE LogIInv'
  BY <1>2, PostInv
<1>3. ASSUME NEW i \in DOMAIN channel, Delete(i) PROVE LogIInv'
  BY <1>3, DeleteInv
<1>4. ASSUME NEW opts \in Options, GetMessageLog(opts) PROVE LogIInv'
  BY <1>4, LogStepInv
<1>5. ASSUME NEW ts \in Now, GetMessage(ts) PROVE LogIInv'
  BY <1>5, MessageStepInv
<1>6. CASE UNCHANGED logVars
  BY <1>6 DEF logVars, LogIInv, LogTypeOK, ChannelOK, Conversation, NeitherBotsNorPeriod, AtOrBefore
<1> QED
  BY <1>1, <1>2, <1>3, <1>4, <1>5, <1>6 DEF LogNext

\* The inductive invariant holds throughout.
LEMMA LogAlways == LogSpec => []LogIInv
  BY LogInitInv, LogStep, PTL DEF LogSpec

\* The variables keep their types (message_log.go).
THEOREM LogTyping == LogSpec => []LogTypeOK
<1>1. LogIInv => LogTypeOK
  BY DEF LogIInv
<1> QED
  BY LogAlways, <1>1, PTL

\* A log without a period is in the channel's order and misses nothing said between two
\* of its messages but what has a subtype or, if so wished, an attachment
\* (message_log.go GetMessageLog).
THEOREM ConversationAlways == LogSpec => []Conversation
<1>1. LogIInv => Conversation
  BY DEF LogIInv
<1> QED
  BY LogAlways, <1>1, PTL

\* Whatever its options, a log has no message of a bot, and none at all if it is of a
\* period (message_log.go GetMessageLog).
THEOREM NeitherBotsNorPeriodAlways == LogSpec => []NeitherBotsNorPeriod
<1>1. LogIInv => NeitherBotsNorPeriod
  BY DEF LogIInv
<1> QED
  BY LogAlways, <1>1, PTL

\* A message asked for by its time is that one, or the last before it that is there
\* and not in a thread, or none if there is none (message_log.go GetMessage).
THEOREM AtOrBeforeAlways == LogSpec => []AtOrBefore
<1>1. LogIInv => AtOrBefore
  BY DEF LogIInv
<1> QED
  BY LogAlways, <1>1, PTL
\* Two messages of the channel with the same time are one.
LEMMA TimesTell ==
    ASSUME LogIInv, NEW m \in ToSet(channel), NEW l \in ToSet(channel), m.ts = l.ts
    PROVE  m = l
<1>1. channel \in Seq(Messages) /\ Backwards(channel)
  BY DEF LogIInv, LogTypeOK, ChannelOK
<1>2. PICK i \in 1..Len(channel) : m = channel[i]
  BY <1>1, InToSet
<1>3. PICK j \in 1..Len(channel) : l = channel[j]
  BY <1>1, InToSet
<1>4. m.ts \in Nat /\ Len(channel) \in Nat
  BY <1>1, <1>2, InToSet, TimesAreNat
<1>5. ~(i < j) /\ ~(j < i)
  BY <1>1, <1>2, <1>3, <1>4 DEF Backwards
<1> QED
  BY <1>2, <1>3, <1>4, <1>5

\* A larger limit lets Slack's answer begin with the same messages.
LEMMA HistoryGrows ==
    ASSUME LogIInv, NEW n \in Nat, NEW m \in Nat, n # 0, n <= m,
           NEW oldest \in Nat, NEW latest \in Nat
    PROVE  ToSet(History(n, oldest, latest)) \subseteq ToSet(History(m, oldest, latest))
<1> DEFINE a == Among(channel, Between(oldest, latest))
           Top(k) == IF Len(a) < k THEN Len(a) ELSE k
           b == SubSeq(a, 1, Top(n))
           c == SubSeq(a, 1, Top(m))
<1>1. a \in Seq(Messages)
  BY AmongKeeps DEF LogIInv, LogTypeOK
<1>2. History(n, oldest, latest) = b /\ History(m, oldest, latest) = c
  BY DEF History, Between
<1> HIDE DEF a
<1>3. /\ Len(a) \in Nat /\ \A i \in 1..Len(a) : a[i] \in Messages
      /\ Top(n) \in Nat /\ Top(m) \in Nat /\ Top(n) <= Top(m) /\ Top(m) <= Len(a)
  BY <1>1, InToSet
<1> HIDE DEF Top
<1>4. /\ b \in Seq(Messages) /\ Len(b) = Top(n)
      /\ \A i \in 1..Top(n) : b[i] = a[i]
  BY <1>3, SubSeqProperties
<1>5. /\ c \in Seq(Messages) /\ Len(c) = Top(m)
      /\ \A i \in 1..Top(m) : c[i] = a[i]
  BY <1>3, SubSeqProperties
<1> HIDE DEF b, c
<1> SUFFICES ASSUME NEW x \in ToSet(b) PROVE x \in ToSet(c)
  BY <1>2
<1>6. PICK i \in 1..Top(n) : x = a[i]
  BY <1>4, InToSet
<1>7. i \in 1..Top(m)
  BY <1>3
<1> QED
  BY <1>5, <1>6, <1>7, InToSet

\* A log with a larger count only has older messages besides (message_log.go: the
\* count is Slack's limit, and the filters come after it).
THEOREM MoreIsOlderAlways == LogSpec => []MoreIsOlder
<1>1. LogIInv => MoreIsOlder
  <2> SUFFICES ASSUME LogIInv, NEW few \in Options, NEW many \in Options,
                      few.count # 0, few.count <= many.count,
                      many = [few EXCEPT !.count = many.count]
               PROVE  /\ ToSet(Log(few)) \subseteq ToSet(Log(many))
                      /\ \A m \in ToSet(Log(many)) \ ToSet(Log(few)), l \in ToSet(Log(few)) :
                            m.ts < l.ts
    BY DEF MoreIsOlder
  <2> DEFINE passed == {m \in Messages : Listed(few, m)}
             h == History(few.count, Oldest(few), now)
             g == History(many.count, Oldest(few), now)
             shown == ToSet(channel) \cap Between(Oldest(few), now)
  <2>1. /\ few.count \in Nat /\ many.count \in Nat /\ now \in Nat /\ Oldest(few) \in Nat
    <3>1. few.count \in Nat /\ many.count \in Nat /\ few.period \in Nat /\ few.period <= MaxPeriod
      BY Numbers DEF Options
    <3>2. now \in Nat /\ now >= Epoch
      BY Numbers, TimesAreNat DEF LogIInv, LogTypeOK, Now
    <3>3. now - few.period \in Nat
      BY <3>1, <3>2, Numbers
    <3> QED
      BY <3>1, <3>2, <3>3 DEF Oldest
  <2>2. /\ many.includeBots = few.includeBots /\ many.period = few.period
        /\ many.skipAttachments = few.skipAttachments
    BY DEF Options
  <2>3. Oldest(many) = Oldest(few) /\ passed = {m \in Messages : Listed(many, m)}
    BY <2>2 DEF Oldest, Listed
  <2>4. LogTypeOK /\ ChannelOK
    BY DEF LogIInv
  <2>5. /\ h \in Seq(Messages) /\ ToSet(h) \subseteq shown
        /\ \A m \in shown : \A l \in ToSet(h) : l.ts < m.ts => m \in ToSet(h)
    BY <2>1, <2>4, HistoryIsNewest
  <2>6. g \in Seq(Messages) /\ ToSet(g) \subseteq shown
    BY <2>1, <2>4, HistoryIsNewest
  <2>7. ToSet(h) \subseteq ToSet(g)
    BY <2>1, HistoryGrows
  <2>8. Log(few) = Among(h, passed) /\ Log(many) = Among(g, passed)
    BY <2>3 DEF Log
  <2> HIDE DEF h, g, passed
  <2>9. ToSet(Log(few)) = ToSet(h) \cap passed /\ ToSet(Log(many)) = ToSet(g) \cap passed
    BY <2>5, <2>6, <2>8, AmongKeeps
  <2>10. ASSUME NEW m \in ToSet(g), m \notin ToSet(h), NEW l \in ToSet(h) PROVE m.ts < l.ts
    <3>1. m \in shown /\ l \in shown
      BY <2>5, <2>6
    <3>2. m \in Messages /\ l \in Messages
      BY <3>1 DEF Between
    <3>3. m.ts \in Nat /\ l.ts \in Nat
      BY <3>2, TimesAreNat
    <3>4. ~(l.ts < m.ts)
      BY <2>5, <2>10, <3>1
    <3>5. m.ts # l.ts
      BY <2>10, <3>1, TimesTell
    <3> QED
      BY <3>3, <3>4, <3>5
  <2> QED
    BY <2>7, <2>9, <2>10
<1> QED
  BY LogAlways, <1>1, PTL
=============================================================================
