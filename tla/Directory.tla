----------------------------- MODULE Directory -----------------------------
(***************************************************************************)
(* The channels and users the bot knows (initInfo and the getters of       *)
(* bot.go): copied from Slack, page by page, once per start, and looked up *)
(* by the handlers of mentions, by hooks and by posts to a channel named   *)
(* in a plugin's configuration, while channels are created and renamed.    *)
(*                                                                         *)
(* The cases of events.go that would keep the copy up to date name types   *)
(* of another API than the one that parses the events: they never match.   *)
(* Only public channels are listed.  An error from Slack, a crash, and a   *)
(* handler that reads a map while initInfo writes it (which Go answers by  *)
(* ending the process) all take the bot down; a new process starts over.   *)
(***************************************************************************)
EXTENDS Naturals, FiniteSets

CONSTANTS
    Channels, Names, Users,
    Public,     \* the channels that are not private
    NoName,     \* of a channel that is not there
    NoChannel,  \* "Channel not found."
    PageSize    \* channels on a page of Slack's list

ASSUME DirectoryAssumption ==
    /\ Public \subseteq Channels /\ Channels \cap Users = {}
    /\ NoName \notin Names /\ NoChannel \notin Channels
    /\ PageSize \in Nat \ {0}

VARIABLES
    name,       \* Slack: the name of each channel, or NoName
    members,    \* Slack: the users there are
    phase,      \* down, auth, channels, users, up: where Start is
    listed,     \* channels on the pages read so far (the cursor)
    channels,   \* Bot.channels: the name each was listed with, or NoName
    human,      \* Bot.humanChannels: the channel of each name, or NoChannel
    users,      \* Bot.users, by id; humanUsers has the same users
    before,     \* channels and users that were there before the list (history)
    had         \* the names each channel has had since the start (history)

vars == <<name, members, phase, listed, channels, human, users, before, had>>

slack == <<name, members, had>>

TypeOK ==
    /\ name \in [Channels -> Names \cup {NoName}]
    /\ members \subseteq Users /\ users \subseteq Users
    /\ phase \in {"down", "auth", "channels", "users", "up"}
    /\ listed \subseteq Channels /\ before \subseteq Channels \cup Users
    /\ channels \in [Channels -> Names \cup {NoName}]
    /\ human \in [Names -> Channels \cup {NoChannel}]
    /\ had \in [Channels -> SUBSET Names]

Init ==
    /\ name = [c \in Channels |-> NoName]
    /\ members = {}
    /\ phase = "down"
    /\ listed = {} /\ users = {} /\ before = {}
    /\ channels = [c \in Channels |-> NoName]
    /\ human = [n \in Names |-> NoChannel]
    /\ had = [c \in Channels |-> {}]

-----------------------------------------------------------------------------
(* Slack                                                                   *)

There == {c \in Channels : name[c] # NoName}

\* A channel is created, or given another name.
Name(c, n) ==
    /\ \A d \in Channels : name[d] # n
    /\ name' = [name EXCEPT ![c] = n]
    /\ had' = [had EXCEPT ![c] = @ \cup {n}]
    /\ UNCHANGED <<members, phase, listed, channels, human, users, before>>

Join(u) ==
    /\ u \notin members
    /\ members' = members \cup {u}
    /\ UNCHANGED <<name, phase, listed, channels, human, users, before, had>>

-----------------------------------------------------------------------------
(* Start                                                                   *)

\* A new process: NewBot makes empty maps, and the server runs from here on.
Start ==
    /\ phase = "down"
    /\ phase' = "auth"
    /\ channels' = [c \in Channels |-> NoName]
    /\ human' = [n \in Names |-> NoChannel]
    /\ users' = {} /\ listed' = {} /\ before' = {}
    /\ had' = [c \in Channels |-> {name[c]} \ {NoName}]
    /\ UNCHANGED <<name, members>>

Die ==
    /\ phase # "down"
    /\ phase' = "down"
    /\ UNCHANGED <<name, members, listed, channels, human, users, before, had>>

AuthTest ==
    /\ phase = "auth"
    /\ phase' = "channels"
    /\ before' = There \cup members
    /\ UNCHANGED <<slack, listed, channels, human, users>>

\* Variant: the cursor is not advanced.
PagesAgain(rest) == {p \in SUBSET (There \cap Public) : Cardinality(p) <= PageSize}

\* The pages Slack may give next, of the channels not yet listed.  The last page
\* may be empty.
Pages(rest) == {p \in SUBSET rest : Cardinality(p) <= PageSize /\ (rest # {} => p # {})}

Named(p, n) == {c \in p : name[c] = n}

\* Variant: the map holds the address of the loop's variable.
FiledByAddress(p, n) == IF Named(p, n) # {} THEN CHOOSE c \in p : TRUE ELSE human[n]

\* The channel of that name once page p is filed.
Filed(p, n) == IF Named(p, n) # {} THEN CHOOSE c \in Named(p, n) : TRUE ELSE human[n]

\* Variant: the first page is taken for the whole list.
LastPageAtOnce(p) == TRUE

\* Slack gives no cursor only when it has listed all that was there from the
\* beginning.  What was created meanwhile may be left out.
LastPage(p) == before \cap Public \subseteq listed \cup p

ListPage ==
    /\ phase = "channels"
    /\ LET rest == (There \cap Public) \ listed IN
       \E p \in Pages(rest) :
          /\ listed' = listed \cup p
          /\ channels' = [c \in Channels |-> IF c \in p THEN name[c] ELSE channels[c]]
          /\ human' = [n \in Names |-> Filed(p, n)]
          /\ \/ LastPage(p) /\ phase' = "users"
             \/ p # rest /\ phase' = "channels"
    /\ UNCHANGED <<slack, users, before>>

\* GetUsers reads all of its pages before it returns.
ListUsers ==
    /\ phase = "users"
    /\ users' = members
    /\ phase' = "up"
    /\ UNCHANGED <<slack, listed, channels, human, before>>

Next ==
    \/ \E c \in Channels, n \in Names : Name(c, n)
    \/ \E u \in Users : Join(u)
    \/ Start \/ Die \/ AuthTest \/ ListPage \/ ListUsers

Spec == Init /\ [][Next]_vars

\* Slack answers initInfo, if only with an error.  Nothing makes the bot start.
FairSpec == Spec /\ WF_vars(AuthTest \/ ListPage \/ ListUsers)
-----------------------------------------------------------------------------
(* What plugins and handlers are told                                      *)

GetChannel(c) == channels[c]
GetUser(u) == u \in users
GetChannelId(n) == human[n]

\* Once Start is through, every mention in a public channel, by a user, both of
\* which were there when it began, finds its channel and user: no page is skipped,
\* however channels are created and renamed meanwhile.
KnownOnceUp ==
    phase = "up" =>
        /\ \A c \in before \cap Public : GetChannel(c) # NoName
        /\ \A u \in before \cap Users : GetUser(u)

\* The two maps agree: a name leads to a channel that was listed under it.  (Two
\* channels may have been listed under one name; it leads to the later one.)
NamesAgree ==
    \A n \in Names : GetChannelId(n) # NoChannel => GetChannel(GetChannelId(n)) = n

\* What is posted to a name may end up in a channel that has lost it, as long as the
\* bot runs, but never in one that did not have it since the bot was started.
PostsWhereNamed ==
    \A n \in Names : phase # "down" /\ GetChannelId(n) # NoChannel => n \in had[GetChannelId(n)]

\* A channel that is dropped for being new is learned by the next start, unless
\* that start fails.
StartLearns ==
    \A c \in Public :
        phase = "auth" /\ name[c] # NoName ~> GetChannel(c) # NoName \/ phase = "down"
=============================================================================
