-------------------------------- MODULE Auth --------------------------------
(***************************************************************************)
(* How a user lets the bot act for them at another service (spotify.go,    *)
(* github.go).  A command of a user without a token stores a state under a *)
(* fresh id and shows them a link with that id; they consent at the        *)
(* service, which sends them to the bot's webhook with the id and a code;  *)
(* the webhook exchanges the code for a token and stores that.             *)
(*                                                                         *)
(* The command's and the webhook's goroutine each do their part within one *)
(* write transaction, the calls of Slack and of the service included, so   *)
(* one such part is under way at a time (Exclusion of StoreTx) and what it *)
(* stores is there when it commits, or not at all.  The two plugins differ *)
(* in what they make of an error, and in how long a state lives.           *)
(***************************************************************************)
CONSTANTS
    Users, Links, Consents,
    NoUser, NoLink, NoConsent,
    Services    \* bound: which of "spotify" and "github" there are

ASSUME AuthAssumption ==
    /\ NoUser \notin Users /\ NoLink \notin Links /\ NoConsent \notin Consents
    /\ Services \subseteq {"spotify", "github"}

VARIABLES
    service,    \* the plugin at hand; it never changes
    states,     \* authstate-<id>: whom the link was made for, or NoUser
    tokens,     \* authtoken-<user>: the consent it comes from, or NoConsent
    tx,         \* the write transaction that is open, or NoTx
    made,       \* whom each link was made for, also if that was rolled back
    shown,      \* links their users have seen
    addressed,  \* links asked for by a slash command, so with an address for answers
    aged,       \* links made more than 15 minutes ago
    granted,    \* the link each consent was given on, or NoLink
    spent,      \* consents whose code the service has taken
    late,       \* consents given on an aged link (history)
    fate        \* what came of the callbacks with each consent (history)

vars == <<service, states, tokens, tx, made, shown, addressed, aged, granted, spent, late, fate>>

NoTx == [step |-> "none", link |-> NoLink, consent |-> NoConsent]

\* No such state, so nobody to tell; handled, and they heard nothing; what they heard;
\* exchanged and then rolled back.
Fates == {"unknown", "silence", "failure", "success", "undone"}

TypeOK ==
    /\ service \in Services
    /\ states \in [Links -> Users \cup {NoUser}]
    /\ tokens \in [Users -> Consents \cup {NoConsent}]
    /\ tx \in [step : {"none", "link", "linked", "exchange", "exchanged", "logged in"},
               link : Links \cup {NoLink}, consent : Consents \cup {NoConsent}]
    /\ made \in [Links -> Users \cup {NoUser}]
    /\ shown \subseteq Links /\ addressed \subseteq Links /\ aged \subseteq Links
    /\ granted \in [Consents -> Links \cup {NoLink}]
    /\ spent \subseteq Consents /\ late \subseteq Consents
    /\ fate \in [Consents -> SUBSET Fates]

Init ==
    /\ service \in Services
    /\ states = [l \in Links |-> NoUser]
    /\ tokens = [u \in Users |-> NoConsent]
    /\ tx = NoTx
    /\ made = [l \in Links |-> NoUser]
    /\ shown = {} /\ addressed = {} /\ aged = {}
    /\ granted = [c \in Consents |-> NoLink]
    /\ spent = {} /\ late = {}
    /\ fate = [c \in Consents |-> {}]

-----------------------------------------------------------------------------
(* The user, the clock and the process                                     *)

Consent(c, l) ==
    /\ l \in shown /\ granted[c] = NoLink
    /\ granted' = [granted EXCEPT ![c] = l]
    /\ late' = IF l \in aged THEN late \cup {c} ELSE late
    /\ UNCHANGED <<service, states, tokens, tx, made, shown, addressed, aged, spent, fate>>

Age(l) ==
    /\ made[l] # NoUser /\ l \notin aged
    /\ aged' = aged \cup {l}
    /\ UNCHANGED <<service, states, tokens, tx, made, shown, addressed, granted, spent, late, fate>>

Went(c, what) == [fate EXCEPT ![c] = @ \cup what]

\* What comes of a message about link l: it is sent to the response URL of the command
\* that asked for the link, of which a mention has none, and may get lost.
Heard(l, what) == IF l \in addressed THEN {{what}, {"silence"}} ELSE {{"silence"}}

\* bolt undoes the transaction that is open, and with it a login whose code the
\* service has taken.
RollBack ==
    /\ tx' = NoTx
    /\ fate' = IF tx.step \in {"exchanged", "logged in"} THEN Went(tx.consent, {"undone"}) ELSE fate
    /\ UNCHANGED <<service, states, tokens, made, addressed, aged, granted, late>>

Crash == tx # NoTx /\ RollBack /\ UNCHANGED <<shown, spent>>

CommitFails ==
    /\ tx.step \in {"linked", "logged in"}
    /\ RollBack /\ UNCHANGED <<shown, spent>>

-----------------------------------------------------------------------------
(* authFlow: a command of a user who has no token, or one that is refused  *)

\* The state keeps the command's response URL, which is empty for a mention.
MakeLink(u, l) ==
    /\ tx = NoTx /\ made[l] = NoUser
    /\ made' = [made EXCEPT ![l] = u]
    /\ addressed' \in {addressed, addressed \cup {l}}
    /\ tx' = [NoTx EXCEPT !.step = "link", !.link = l]
    /\ UNCHANGED <<service, states, tokens, shown, aged, granted, spent, late, fate>>

\* The link is sent, and may get lost.  spotify replies to the command or the mention
\* and goes on; so does github if posting to the response URL gives no error.
ShowLink ==
    /\ tx.step = "link"
    /\ service = "github" => tx.link \in addressed
    /\ shown' \in {shown, shown \cup {tx.link}}
    /\ tx' = [tx EXCEPT !.step = "linked"]
    /\ UNCHANGED <<service, states, tokens, made, addressed, aged, granted, spent, late, fate>>

\* Posting the link gives github an error, the link having arrived or not; without a
\* response URL there is nowhere it could arrive.
ShowLinkFails ==
    /\ service = "github" /\ tx.step = "link"
    /\ shown' \in {shown, shown \cup ({tx.link} \cap addressed)}
    /\ RollBack /\ UNCHANGED spent

CommitState ==
    /\ tx.step = "linked"
    /\ states' = [states EXCEPT ![tx.link] = made[tx.link]]
    /\ tx' = NoTx
    /\ UNCHANGED <<service, tokens, made, shown, addressed, aged, granted, spent, late, fate>>

-----------------------------------------------------------------------------
(* The authorize webhook: the user's browser comes with a consent, once or *)
(* several times                                                           *)

\* Variant: the webhook does not wait for the command's transaction.
ComesUnordered(c) == tx.step \in {"none", "linked"} /\ granted[c] # NoLink

Comes(c) == tx = NoTx /\ granted[c] # NoLink

Known(c) == states[granted[c]] # NoUser

\* github adds 15 minutes in nanoseconds to a time in seconds: its states expire
\* in some 28,000 years.
Expired(c) == service = "spotify" /\ granted[c] \in aged

Ends(c, what) ==
    /\ fate' = Went(c, what)
    /\ UNCHANGED <<service, states, tokens, tx, made, shown, addressed, aged, granted, late>>

\* A state that is not there reads as one that expired in 1970, with no address to
\* send an answer to.
Unknown(c) == Comes(c) /\ ~Known(c) /\ Ends(c, {"unknown"}) /\ UNCHANGED spent

\* The state is deleted in a transaction that then returns an error: it stays.
\* Whether the user hears of it, nobody looks.
Refuse(c) ==
    /\ Comes(c) /\ Known(c) /\ Expired(c)
    /\ \E heard \in Heard(granted[c], "failure") : Ends(c, heard)
    /\ UNCHANGED spent

\* Variant: the time of the state is not looked at.
AcceptAnyAge(c) ==
    /\ Comes(c) /\ Known(c)
    /\ tx' = [step |-> "exchange", link |-> granted[c], consent |-> c]
    /\ UNCHANGED <<service, states, tokens, made, shown, addressed, aged, granted, spent, late, fate>>

Accept(c) ==
    /\ Comes(c) /\ Known(c) /\ ~Expired(c)
    /\ tx' = [step |-> "exchange", link |-> granted[c], consent |-> c]
    /\ UNCHANGED <<service, states, tokens, made, shown, addressed, aged, granted, spent, late, fate>>

\* The service takes a code once.
Exchange ==
    /\ tx.step = "exchange" /\ tx.consent \notin spent
    /\ spent' = spent \cup {tx.consent}
    /\ tx' = [tx EXCEPT !.step = "exchanged"]
    /\ UNCHANGED <<service, states, tokens, made, shown, addressed, aged, granted, late, fate>>

\* The service refuses the code, or does not answer, or github cannot be asked for
\* the user's name.  spotify's plugin sends a message, github's does not.
ExchangeFails ==
    /\ tx.step = "exchange"
    /\ spent' \in {spent, spent \cup {tx.consent}}
    /\ tx' = NoTx
    /\ \E heard \in IF service = "spotify" THEN Heard(tx.link, "failure") ELSE {{"silence"}} :
          fate' = Went(tx.consent, heard)
    /\ UNCHANGED <<service, states, tokens, made, shown, addressed, aged, granted, late>>

\* The token is put and the user sent a message.  spotify looks at no error of that;
\* github goes on if posting it gives none.
TellSuccess ==
    /\ tx.step = "exchanged"
    /\ service = "github" => tx.link \in addressed
    /\ tx' = [tx EXCEPT !.step = "logged in"]
    /\ \E heard \in Heard(tx.link, "success") : fate' = Went(tx.consent, heard)
    /\ UNCHANGED <<service, states, tokens, made, shown, addressed, aged, granted, spent, late>>

\* Posting the message gives an error, which github's webhook returns, whether or not
\* the message reached the user.
TellSuccessFails ==
    /\ service = "github" /\ tx.step = "exchanged"
    /\ \E heard \in Heard(tx.link, "success") :
          fate' = Went(tx.consent, heard \cup {"undone"})
    /\ tx' = NoTx
    /\ UNCHANGED <<service, states, tokens, made, shown, addressed, aged, granted, spent, late>>

\* Variant: the transaction ends without an error and without the token.
CommitNothing ==
    /\ tx.step = "logged in"
    /\ tx' = NoTx
    /\ UNCHANGED <<service, states, tokens, made, shown, addressed, aged, granted, spent, late, fate>>

\* Variant: the user is that of any state, as if one were shared by all callbacks.
CommitAnyUser ==
    /\ tx.step = "logged in"
    /\ \E l \in Links : states[l] # NoUser /\ tokens' = [tokens EXCEPT ![states[l]] = tx.consent]
    /\ tx' = NoTx
    /\ UNCHANGED <<service, states, made, shown, addressed, aged, granted, spent, late, fate>>

CommitToken ==
    /\ tx.step = "logged in"
    /\ tokens' = [tokens EXCEPT ![states[tx.link]] = tx.consent]
    /\ tx' = NoTx
    /\ UNCHANGED <<service, states, made, shown, addressed, aged, granted, spent, late, fate>>

-----------------------------------------------------------------------------
Next ==
    \/ Crash \/ CommitFails
    \/ \E l \in Links : Age(l) \/ \E u \in Users : MakeLink(u, l)
    \/ ShowLink \/ ShowLinkFails \/ CommitState
    \/ \E c \in Consents :
          \/ \E l \in Links : Consent(c, l)
          \/ Unknown(c) \/ Refuse(c) \/ Accept(c)
    \/ Exchange \/ ExchangeFails \/ TellSuccess \/ TellSuccessFails \/ CommitToken

Spec == Init /\ [][Next]_vars

-----------------------------------------------------------------------------
\* A link may be followed before its state is stored, but its callback waits for
\* the transaction that stores it: one that is turned away as unknown is unknown
\* for good, its link's transaction having come to nothing.
KnownOnceShown ==
    \A c \in Consents : "unknown" \in fate[c] =>
        states[granted[c]] = NoUser /\ tx.link # granted[c]

\* No state is taken away or changed in this step.
Kept == \A l \in Links : states[l] # NoUser => states'[l] = states[l]

\* Nothing that comes of a callback takes a state away: an expired one is deleted
\* in a transaction that then fails, a used one is not deleted at all.  A user whose
\* login went wrong may go back to the link they were given.
StatesStay == [][Kept]_states

\* A consent given when the link was out of date never logs in to spotify.  (It does
\* to github, whose states do not expire.)
LateRefused ==
    service = "spotify" => \A u \in Users : tokens[u] \notin late

\* A user who heard that they are logged in has a token, then or from a later login,
\* unless it was undone after the message: by a crash, a commit that failed or, with
\* github, an error in sending that very message.  (Who is logged in need not hear of
\* it: a message may get lost, and a login begun by a mention has none.)
SuccessStored ==
    \A c \in Consents :
        "success" \in fate[c] /\ "undone" \notin fate[c] /\ tx.consent # c =>
            tokens[states[granted[c]]] # NoConsent

\* Seen from outside: logins come from consents on the user's own link, once each,
\* and no callback, crash or failure logs anybody out.
Logins == INSTANCE Login WITH
    issued <- made, token <- tokens,
    used <- IF tx.step \in {"exchanged", "logged in"} THEN spent \ {tx.consent} ELSE spent

ImplementsLogin == Logins!Spec
=============================================================================
