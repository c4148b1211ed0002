----------------------------- MODULE Auth_proof -----------------------------
(***************************************************************************)
(* Authorisation implements Login, and what users are told of it is true,  *)
(* for any users, links and consents.                                      *)
(***************************************************************************)
EXTENDS Auth, TLAPS

\* The transaction at hand is that of a command, for a link that is not stored yet,
\* or that of a callback, for a link that is.
TxOK ==
    /\ tx.step = "none" => tx = NoTx
    /\ tx.step \in {"link", "linked"} =>
          /\ tx.link \in Links /\ tx.consent = NoConsent
          /\ made[tx.link] # NoUser
    /\ tx.step \in {"exchange", "exchanged", "logged in"} =>
          /\ tx.consent \in Consents
          /\ tx.link = granted[tx.consent] /\ tx.link \in Links
          /\ states[tx.link] # NoUser
    /\ tx.step \in {"exchanged", "logged in"} => tx.consent \in spent

\* What is stored, shown and granted belongs together.
LinksOK ==
    /\ \A l \in Links : states[l] # NoUser => states[l] = made[l]
    /\ \A l \in shown : made[l] # NoUser
    /\ \A c \in Consents : granted[c] # NoLink => granted[c] \in shown

\* What is known of a consent is known of one that was given.
GivenOK ==
    /\ \A c \in Consents : \A w \in Fates : w \in fate[c] => granted[c] # NoLink
    /\ \A c \in spent : granted[c] # NoLink
    /\ \A c \in late : granted[c] # NoLink
    /\ \A u \in Users : tokens[u] # NoConsent => granted[tokens[u]] # NoLink

\* A late consent is one for an aged link; spotify's callback does not go on with it.
LateOK ==
    /\ \A c \in late : granted[c] \in aged
    /\ service = "spotify" => tx.consent \notin late

\* Success is said once the code is taken; except while that transaction is open, it
\* is stored, if it was not undone.
SaidOK ==
    \A c \in Consents : "success" \in fate[c] =>
        /\ c \in spent /\ states[granted[c]] # NoUser
        /\ \/ "undone" \in fate[c]
           \/ tx.step = "logged in" /\ tx.consent = c
           \/ tokens[states[granted[c]]] # NoConsent

\* The inductive invariant.
IInv ==
    /\ TypeOK /\ TxOK /\ LinksOK /\ GivenOK
    /\ KnownOnceShown
    /\ LateOK /\ LateRefused
    /\ SaidOK

\* The initial states satisfy it.
LEMMA InitInv == Init => IInv
<1> SUFFICES ASSUME Init PROVE IInv
  OBVIOUS
<1>1. TypeOK
  BY AuthAssumption DEF Init, TypeOK, NoTx
<1>2. TxOK /\ LinksOK /\ GivenOK
  BY DEF Init, TxOK, LinksOK, GivenOK, NoTx
<1>3. KnownOnceShown /\ LateOK /\ LateRefused /\ SaidOK
  BY DEF Init, KnownOnceShown, LateOK, LateRefused, SaidOK
<1> QED
  BY <1>1, <1>2, <1>3 DEF IInv

\* What a callback's end adds to the fate of its consent.
LEMMA Hears ==
    ASSUME TypeOK, NEW c \in Consents, NEW what \in SUBSET Fates, fate' = Went(c, what)
    PROVE  /\ fate' \in [Consents -> SUBSET Fates]
           /\ \A d \in Consents : \A w \in Fates :
                 w \in fate'[d] <=> w \in fate[d] \/ (d = c /\ w \in what)
  BY DEF TypeOK, Went

\* A message is heard or it is not.
LEMMA HeardFates ==
    ASSUME NEW l, NEW what \in Fates, NEW heard \in Heard(l, what)
    PROVE  heard \in SUBSET Fates /\ \A w \in heard : w = what \/ w = "silence"
  BY DEF Heard, Fates

\* What a rollback does: an exchange that was under way is undone.
LEMMA Rolls ==
    ASSUME TypeOK, TxOK, RollBack
    PROVE  /\ fate' \in [Consents -> SUBSET Fates]
           /\ \A d \in Consents : \A w \in Fates :
                 w \in fate'[d] <=>
                    \/ w \in fate[d]
                    \/ tx.step \in {"exchanged", "logged in"} /\ d = tx.consent /\ w = "undone"
<1>1. CASE tx.step \in {"exchanged", "logged in"}
  <2>1. tx.consent \in Consents /\ {"undone"} \in SUBSET Fates
    BY <1>1 DEF TxOK, Fates
  <2>2. fate' = Went(tx.consent, {"undone"})
    BY <1>1 DEF RollBack
  <2>3. /\ fate' \in [Consents -> SUBSET Fates]
        /\ \A d \in Consents : \A w \in Fates :
              w \in fate'[d] <=> w \in fate[d] \/ (d = tx.consent /\ w \in {"undone"})
    BY <2>1, <2>2, Hears
  <2> QED
    BY <1>1, <2>3
<1>2. CASE tx.step \notin {"exchanged", "logged in"}
  <2>1. fate' = fate
    BY <1>2 DEF RollBack
  <2> QED
    BY <1>2, <2>1 DEF TypeOK
<1> QED
  BY <1>1, <1>2

\* A transaction's next step is for the same link and consent.
LEMMA Onward ==
    ASSUME TypeOK, NEW s \in {"linked", "exchanged", "logged in"},
           tx' = [tx EXCEPT !.step = s]
    PROVE  /\ tx'.step = s /\ tx'.link = tx.link /\ tx'.consent = tx.consent
           /\ tx' \in [step : {"none", "link", "linked", "exchange", "exchanged", "logged in"},
                       link : Links \cup {NoLink}, consent : Consents \cup {NoConsent}]
  BY DEF TypeOK

\* Nothing is known of a consent before it is given.
LEMMA NotYet ==
    ASSUME IInv, NEW c \in Consents, granted[c] = NoLink
    PROVE  /\ tx.consent # c
           /\ \A u \in Users : tokens[u] # c
           /\ c \notin spent /\ c \notin late /\ \A w \in Fates : w \notin fate[c]
<1>0. tx.step \in {"none", "link", "linked", "exchange", "exchanged", "logged in"}
  BY DEF IInv, TypeOK
<1>1. tx.consent # c
  <2>1. CASE tx.step = "none"
    BY <2>1, AuthAssumption DEF IInv, TxOK, NoTx
  <2>2. CASE tx.step \in {"link", "linked"}
    BY <2>2, AuthAssumption DEF IInv, TxOK
  <2>3. CASE tx.step \in {"exchange", "exchanged", "logged in"}
    BY <2>3, AuthAssumption DEF IInv, TxOK
  <2> QED
    BY <1>0, <2>1, <2>2, <2>3
<1>2. \A u \in Users : tokens[u] # c
  BY AuthAssumption DEF IInv, GivenOK
<1>3. c \notin spent /\ c \notin late /\ \A w \in Fates : w \notin fate[c]
  BY DEF IInv, GivenOK
<1> QED
  BY <1>1, <1>2, <1>3

\* Only of the consent at hand may something new be known.
LEMMA GivenStays ==
    ASSUME TypeOK, TxOK, GivenOK, granted' = granted, tokens' = tokens, late' = late,
           spent' \subseteq Consents,
           \A c \in Consents : \A w \in Fates :
              w \in fate'[c] => w \in fate[c] \/ granted[c] # NoLink,
           \A c \in Consents : c \in spent' => c \in spent \/ granted[c] # NoLink
    PROVE  GivenOK'
<1>1. \A c \in Consents : \A w \in Fates : w \in fate'[c] => granted'[c] # NoLink
  BY DEF GivenOK
<1>2. \A c \in spent' : granted'[c] # NoLink
  BY DEF GivenOK
<1>3. \A c \in late' : granted'[c] # NoLink
  BY DEF GivenOK
<1>4. \A u \in Users : tokens'[u] # NoConsent => granted'[tokens'[u]] # NoLink
  BY DEF GivenOK
<1> QED
  BY <1>1, <1>2, <1>3, <1>4 DEF GivenOK

\* The consent at hand was given.
LEMMA AtHand ==
    ASSUME TxOK, tx.step \in {"exchange", "exchanged", "logged in"}
    PROVE  tx.consent \in Consents /\ granted[tx.consent] # NoLink
  BY AuthAssumption DEF TxOK

\* Every step keeps it.
LEMMA StepInv == IInv /\ [Next]_vars => IInv'
<1> SUFFICES ASSUME IInv, [Next]_vars PROVE IInv'
  OBVIOUS
<1>0. TypeOK /\ TxOK /\ LinksOK /\ GivenOK /\ KnownOnceShown /\ LateOK /\ LateRefused /\ SaidOK
  BY DEF IInv
<1>1. CASE Crash
  <2>0. RollBack
    BY <1>1 DEF Crash
  <2>f. /\ fate' \in [Consents -> SUBSET Fates]
        /\ \A d \in Consents : \A w \in Fates :
              w \in fate'[d] <=>
                 \/ w \in fate[d]
                 \/ tx.step \in {"exchanged", "logged in"} /\ d = tx.consent /\ w = "undone"
    BY <1>0, <2>0, Rolls
  <2>u. /\ tx' = NoTx
        /\ UNCHANGED <<service, states, tokens, made, addressed, aged, granted, spent, late>>
        /\ shown' = shown
    BY <1>1, <2>0 DEF Crash, RollBack
  <2>1. TypeOK'
    BY <1>0, <2>f, <2>u, AuthAssumption DEF NoTx, TypeOK, TxOK
  <2>2. TxOK'
    BY <1>0, <2>f, <2>u, AuthAssumption DEF NoTx, TypeOK, TxOK, LinksOK
  <2>3. LinksOK'
    BY <1>0, <2>f, <2>u, AuthAssumption DEF NoTx, TypeOK, TxOK, LinksOK
  <2>g. \A d \in Consents : \A w \in Fates : w \in fate'[d] => w \in fate[d] \/ granted[d] # NoLink
    BY <1>0, <2>f, AtHand
  <2>4. GivenOK'
    BY <1>0, <2>u, <2>g, GivenStays DEF TypeOK
  <2>5. KnownOnceShown'
    BY <1>0, <2>f, <2>u, AuthAssumption
      DEF NoTx, TypeOK, TxOK, LinksOK, GivenOK, KnownOnceShown, Fates
  <2>6. LateOK'
    BY <1>0, <2>f, <2>u, AuthAssumption DEF NoTx, TypeOK, TxOK, LinksOK, GivenOK, LateOK, Fates
  <2>7. LateRefused'
    BY <1>0, <2>f, <2>u, AuthAssumption
      DEF NoTx, TypeOK, TxOK, LinksOK, GivenOK, LateOK, LateRefused, Fates
  <2>8. SaidOK'
    BY <1>0, <2>f, <2>u, AuthAssumption DEF NoTx, TypeOK, TxOK, LinksOK, GivenOK, SaidOK, Fates
  <2> QED
    BY <2>1, <2>2, <2>3, <2>4, <2>5, <2>6, <2>7, <2>8 DEF IInv
<1>2. CASE CommitFails
  <2>0. RollBack
    BY <1>2 DEF CommitFails
  <2>f. /\ fate' \in [Consents -> SUBSET Fates]
        /\ \A d \in Consents : \A w \in Fates :
              w \in fate'[d] <=>
                 \/ w \in fate[d]
                 \/ tx.step \in {"exchanged", "logged in"} /\ d = tx.consent /\ w = "undone"
    BY <1>0, <2>0, Rolls
  <2>u. /\ tx' = NoTx
        /\ UNCHANGED <<service, states, tokens, made, addressed, aged, granted, spent, late>>
        /\ shown' = shown
    BY <1>2, <2>0 DEF CommitFails, RollBack
  <2>1. TypeOK'
    BY <1>0, <2>f, <2>u, AuthAssumption DEF NoTx, TypeOK, TxOK
  <2>2. TxOK'
    BY <1>0, <2>f, <2>u, AuthAssumption DEF NoTx, TypeOK, TxOK, LinksOK
  <2>3. LinksOK'
    BY <1>0, <2>f, <2>u, AuthAssumption DEF NoTx, TypeOK, TxOK, LinksOK
  <2>g. \A d \in Consents : \A w \in Fates : w \in fate'[d] => w \in fate[d] \/ granted[d] # NoLink
    BY <1>0, <2>f, AtHand
  <2>4. GivenOK'
    BY <1>0, <2>u, <2>g, GivenStays DEF TypeOK
  <2>5. KnownOnceShown'
    BY <1>0, <2>f, <2>u, AuthAssumption
      DEF NoTx, TypeOK, TxOK, LinksOK, GivenOK, KnownOnceShown, Fates
  <2>6. LateOK'
    BY <1>0, <2>f, <2>u, AuthAssumption DEF NoTx, TypeOK, TxOK, LinksOK, GivenOK, LateOK, Fates
  <2>7. LateRefused'
    BY <1>0, <2>f, <2>u, AuthAssumption
      DEF NoTx, TypeOK, TxOK, LinksOK, GivenOK, LateOK, LateRefused, Fates
  <2>8. SaidOK'
    BY <1>0, <2>f, <2>u, AuthAssumption DEF NoTx, TypeOK, TxOK, LinksOK, GivenOK, SaidOK, Fates
  <2> QED
    BY <2>1, <2>2, <2>3, <2>4, <2>5, <2>6, <2>7, <2>8 DEF IInv
<1>3. CASE ShowLinkFails
  <2>0. RollBack
    BY <1>3 DEF ShowLinkFails
  <2>f. /\ fate' \in [Consents -> SUBSET Fates]
        /\ \A d \in Consents : \A w \in Fates :
              w \in fate'[d] <=>
                 \/ w \in fate[d]
                 \/ tx.step \in {"exchanged", "logged in"} /\ d = tx.consent /\ w = "undone"
    BY <1>0, <2>0, Rolls
  <2>u. /\ tx' = NoTx
        /\ UNCHANGED <<service, states, tokens, made, addressed, aged, granted, spent, late>>
        /\ shown' \in {shown, shown \cup {tx.link}} /\ tx.step = "link"
    BY <1>3, <2>0 DEF ShowLinkFails, RollBack
  <2>1. TypeOK'
    BY <1>0, <1>3, <2>f, <2>u, AuthAssumption DEF ShowLinkFails, NoTx, TypeOK, TxOK
  <2>2. TxOK'
    BY <1>0, <1>3, <2>f, <2>u, AuthAssumption DEF ShowLinkFails, NoTx, TypeOK, TxOK, LinksOK
  <2>3. LinksOK'
    BY <1>0, <1>3, <2>f, <2>u, AuthAssumption DEF ShowLinkFails, NoTx, TypeOK, TxOK, LinksOK
  <2>g. \A d \in Consents : \A w \in Fates : w \in fate'[d] => w \in fate[d] \/ granted[d] # NoLink
    BY <1>0, <2>f, AtHand
  <2>4. GivenOK'
    BY <1>0, <2>u, <2>g, GivenStays DEF TypeOK
  <2>5. KnownOnceShown'
    BY <1>0, <1>3, <2>f, <2>u, AuthAssumption
      DEF ShowLinkFails, NoTx, TypeOK, TxOK, LinksOK, GivenOK, KnownOnceShown, Fates
  <2>6. LateOK'
    BY <1>0, <1>3, <2>f, <2>u, AuthAssumption
      DEF ShowLinkFails, NoTx, TypeOK, TxOK, LinksOK, GivenOK, LateOK, Fates
  <2>7. LateRefused'
    BY <1>0, <1>3, <2>f, <2>u, AuthAssumption
      DEF ShowLinkFails, NoTx, TypeOK, TxOK, LinksOK, GivenOK, LateOK, LateRefused, Fates
  <2>8. SaidOK'
    BY <1>0, <1>3, <2>f, <2>u, AuthAssumption
      DEF ShowLinkFails, NoTx, TypeOK, TxOK, LinksOK, GivenOK, SaidOK, Fates
  <2> QED
    BY <2>1, <2>2, <2>3, <2>4, <2>5, <2>6, <2>7, <2>8 DEF IInv
<1>4. CASE ShowLink
  <2>o. /\ tx'.step = "linked" /\ tx'.link = tx.link /\ tx'.consent = tx.consent
        /\ tx' \in [step : {"none", "link", "linked", "exchange", "exchanged", "logged in"},
                    link : Links \cup {NoLink}, consent : Consents \cup {NoConsent}]
    BY <1>0, <1>4, Onward DEF ShowLink
  <2>1. TypeOK'
    BY <1>0, <1>4, <2>o, AuthAssumption DEF ShowLink, TypeOK, TxOK
  <2>2. TxOK'
    BY <1>0, <1>4, <2>o, AuthAssumption DEF ShowLink, TypeOK, TxOK, LinksOK
  <2>3. LinksOK'
    BY <1>0, <1>4, <2>o, AuthAssumption DEF ShowLink, TypeOK, TxOK, LinksOK
  <2>4. GivenOK'
    BY <1>0, <1>4, <2>o, AuthAssumption DEF ShowLink, TypeOK, TxOK, LinksOK, GivenOK
  <2>5. KnownOnceShown'
    BY <1>0, <1>4, <2>o, AuthAssumption
      DEF ShowLink, TypeOK, TxOK, LinksOK, GivenOK, KnownOnceShown
  <2>6. LateOK'
    BY <1>0, <1>4, <2>o, AuthAssumption DEF ShowLink, TypeOK, TxOK, LinksOK, GivenOK, LateOK
  <2>7. LateRefused'
    BY <1>0, <1>4, <2>o, AuthAssumption
      DEF ShowLink, TypeOK, TxOK, LinksOK, GivenOK, LateOK, LateRefused
  <2>8. SaidOK'
    BY <1>0, <1>4, <2>o, AuthAssumption DEF ShowLink, TypeOK, TxOK, LinksOK, GivenOK, SaidOK
  <2> QED
    BY <2>1, <2>2, <2>3, <2>4, <2>5, <2>6, <2>7, <2>8 DEF IInv
<1>5. CASE CommitState
  <2>0. \A l \in Links : states[l] # NoUser => states'[l] = states[l]
    BY <1>0, <1>5 DEF CommitState, TypeOK, TxOK, LinksOK
  <2>1. TypeOK'
    BY <1>0, <1>5, <2>0, AuthAssumption DEF CommitState, NoTx, TypeOK, TxOK
  <2>2. TxOK'
    BY <1>0, <1>5, <2>0, AuthAssumption DEF CommitState, NoTx, TypeOK, TxOK, LinksOK
  <2>3. LinksOK'
    BY <1>0, <1>5, <2>0, AuthAssumption DEF CommitState, NoTx, TypeOK, TxOK, LinksOK
  <2>4. GivenOK'
    BY <1>0, <1>5, <2>0, AuthAssumption DEF CommitState, NoTx, TypeOK, TxOK, LinksOK, GivenOK
  <2>5. KnownOnceShown'
    BY <1>0, <1>5, <2>0, AuthAssumption
      DEF CommitState, NoTx, TypeOK, TxOK, LinksOK, GivenOK, KnownOnceShown
  <2>6. LateOK'
    BY <1>0, <1>5, <2>0, AuthAssumption
      DEF CommitState, NoTx, TypeOK, TxOK, LinksOK, GivenOK, LateOK
  <2>7. LateRefused'
    BY <1>0, <1>5, <2>0, AuthAssumption
      DEF CommitState, NoTx, TypeOK, TxOK, LinksOK, GivenOK, LateOK, LateRefused
  <2>8. SaidOK'
    <3> SUFFICES ASSUME NEW d \in Consents, "success" \in fate'[d]
                 PROVE  /\ d \in spent' /\ states'[granted'[d]] # NoUser
                        /\ \/ "undone" \in fate'[d]
                           \/ tx'.step = "logged in" /\ tx'.consent = d
                           \/ tokens'[states'[granted'[d]]] # NoConsent
      BY DEF SaidOK
    <3>1. UNCHANGED <<tokens, granted, spent, fate>> /\ tx.step = "linked"
      BY <1>5 DEF CommitState
    <3>2. /\ d \in spent /\ states[granted[d]] # NoUser
          /\ "undone" \in fate[d] \/ tokens[states[granted[d]]] # NoConsent
      BY <1>0, <3>1 DEF SaidOK
    <3>3. granted[d] \in Links
      BY <1>0, <3>1, <3>2 DEF TypeOK, GivenOK
    <3>4. states'[granted[d]] = states[granted[d]]
      BY <2>0, <3>2, <3>3
    <3> QED
      BY <3>1, <3>2, <3>4
  <2> QED
    BY <2>1, <2>2, <2>3, <2>4, <2>5, <2>6, <2>7, <2>8 DEF IInv
<1>6. CASE Exchange
  <2>o. /\ tx'.step = "exchanged" /\ tx'.link = tx.link /\ tx'.consent = tx.consent
        /\ tx' \in [step : {"none", "link", "linked", "exchange", "exchanged", "logged in"},
                    link : Links \cup {NoLink}, consent : Consents \cup {NoConsent}]
    BY <1>0, <1>6, Onward DEF Exchange
  <2>1. TypeOK'
    BY <1>0, <1>6, <2>o, AuthAssumption DEF Exchange, TypeOK, TxOK
  <2>2. TxOK'
    BY <1>0, <1>6, <2>o, AuthAssumption DEF Exchange, TypeOK, TxOK, LinksOK
  <2>3. LinksOK'
    BY <1>0, <1>6, <2>o, AuthAssumption DEF Exchange, TypeOK, TxOK, LinksOK
  <2>g. tx.consent \in Consents /\ granted[tx.consent] # NoLink
    BY <1>0, <1>6, AtHand DEF Exchange
  <2>s. /\ spent' \subseteq Consents
        /\ UNCHANGED <<granted, tokens, late, fate>>
        /\ \A d \in Consents : d \in spent' => d \in spent \/ granted[d] # NoLink
    BY <1>0, <1>6, <2>g DEF Exchange, TypeOK
  <2>4. GivenOK'
    BY <1>0, <2>s, GivenStays
  <2>5. KnownOnceShown'
    BY <1>0, <1>6, <2>o, AuthAssumption
      DEF Exchange, TypeOK, TxOK, LinksOK, GivenOK, KnownOnceShown
  <2>6. LateOK'
    BY <1>0, <1>6, <2>o, AuthAssumption DEF Exchange, TypeOK, TxOK, LinksOK, GivenOK, LateOK
  <2>7. LateRefused'
    BY <1>0, <1>6, <2>o, AuthAssumption
      DEF Exchange, TypeOK, TxOK, LinksOK, GivenOK, LateOK, LateRefused
  <2>8. SaidOK'
    BY <1>0, <1>6, <2>o, AuthAssumption DEF Exchange, TypeOK, TxOK, LinksOK, GivenOK, SaidOK
  <2> QED
    BY <2>1, <2>2, <2>3, <2>4, <2>5, <2>6, <2>7, <2>8 DEF IInv
<1>7. CASE ExchangeFails
  <2>p. PICK what \in IF service = "spotify" THEN Heard(tx.link, "failure") ELSE {{"silence"}} :
                fate' = Went(tx.consent, what)
    BY <1>7 DEF ExchangeFails
  <2>q. "failure" \in Fates /\ {"silence"} \in SUBSET Fates
    BY DEF Fates
  <2>w. what \in SUBSET Fates /\ \A w \in what : w \in {"failure", "silence"}
    BY <2>p, <2>q, HeardFates
  <2>0. tx.consent \in Consents /\ what \in SUBSET Fates /\ fate' = Went(tx.consent, what)
    BY <1>0, <1>7, <2>p, <2>w DEF ExchangeFails, TxOK
  <2>f. /\ fate' \in [Consents -> SUBSET Fates]
        /\ \A d \in Consents : \A w \in Fates :
              w \in fate'[d] <=> w \in fate[d] \/ (d = tx.consent /\ w \in what)
    BY <1>0, <2>0, Hears
  <2>u. /\ spent \subseteq spent' /\ spent' \subseteq spent \cup {tx.consent}
        /\ tx.step = "exchange"
        /\ tx' = NoTx
        /\ UNCHANGED <<service, states, tokens, made, shown, addressed, aged, granted, late>>
    BY <1>7 DEF ExchangeFails
  <2>1. TypeOK'
    BY <1>0, <2>f, <2>u, <2>0, <2>w, AuthAssumption DEF NoTx, TypeOK, TxOK
  <2>2. TxOK'
    BY <1>0, <2>f, <2>u, <2>0, <2>w, AuthAssumption DEF NoTx, TypeOK, TxOK, LinksOK
  <2>3. LinksOK'
    BY <1>0, <2>f, <2>u, <2>0, <2>w, AuthAssumption DEF NoTx, TypeOK, TxOK, LinksOK
  <2>g. tx.consent \in Consents /\ granted[tx.consent] # NoLink
    BY <1>0, <2>u, AtHand
  <2>s. /\ spent' \subseteq Consents
        /\ UNCHANGED <<granted, tokens, late>>
        /\ \A d \in Consents : d \in spent' => d \in spent \/ granted[d] # NoLink
    BY <1>0, <2>u, <2>g DEF TypeOK
  <2>k. \A d \in Consents : \A w \in Fates : w \in fate'[d] => w \in fate[d] \/ granted[d] # NoLink
    BY <2>f, <2>g
  <2>4. GivenOK'
    BY <1>0, <2>s, <2>k, GivenStays
  <2>m. \A d \in Consents :
           /\ "unknown" \in fate'[d] => "unknown" \in fate[d]
           /\ "success" \in fate'[d] => "success" \in fate[d]
           /\ "undone" \in fate[d] => "undone" \in fate'[d]
    BY <2>f, <2>w DEF Fates
  <2>5. KnownOnceShown'
    BY <1>0, <2>m, <2>u, AuthAssumption
      DEF NoTx, TypeOK, TxOK, LinksOK, GivenOK, KnownOnceShown, Fates
  <2>6. LateOK'
    BY <1>0, <2>f, <2>u, <2>0, <2>w, AuthAssumption
      DEF NoTx, TypeOK, TxOK, LinksOK, GivenOK, LateOK, Fates
  <2>7. LateRefused'
    BY <1>0, <2>f, <2>u, <2>0, <2>w, AuthAssumption
      DEF NoTx, TypeOK, TxOK, LinksOK, GivenOK, LateOK, LateRefused, Fates
  <2>8. SaidOK'
    BY <1>0, <2>m, <2>u, AuthAssumption
      DEF NoTx, TypeOK, TxOK, LinksOK, GivenOK, SaidOK, Fates
  <2> QED
    BY <2>1, <2>2, <2>3, <2>4, <2>5, <2>6, <2>7, <2>8 DEF IInv
<1>8. CASE TellSuccess
  <2>p. PICK heard \in Heard(tx.link, "success") : fate' = Went(tx.consent, heard)
    BY <1>8 DEF TellSuccess
  <2>w. heard \in SUBSET Fates /\ \A w \in heard : w \in {"success", "silence"}
    BY HeardFates DEF Fates
  <2>0. tx.consent \in Consents /\ heard \in SUBSET Fates /\ fate' = Went(tx.consent, heard)
    BY <1>0, <1>8, <2>p, <2>w DEF TellSuccess, TxOK
  <2>f. /\ fate' \in [Consents -> SUBSET Fates]
        /\ \A d \in Consents : \A w \in Fates :
              w \in fate'[d] <=> w \in fate[d] \/ (d = tx.consent /\ w \in heard)
    BY <1>0, <2>0, Hears
  <2>o. /\ tx'.step = "logged in" /\ tx'.link = tx.link /\ tx'.consent = tx.consent
        /\ tx' \in [step : {"none", "link", "linked", "exchange", "exchanged", "logged in"},
                    link : Links \cup {NoLink}, consent : Consents \cup {NoConsent}]
    BY <1>0, <1>8, Onward DEF TellSuccess
  <2>1. TypeOK'
    BY <1>0, <1>8, <2>f, <2>o, <2>w, AuthAssumption DEF TellSuccess, TypeOK, TxOK
  <2>2. TxOK'
    BY <1>0, <1>8, <2>f, <2>o, <2>w, AuthAssumption DEF TellSuccess, TypeOK, TxOK, LinksOK
  <2>3. LinksOK'
    BY <1>0, <1>8, <2>f, <2>o, <2>w, AuthAssumption DEF TellSuccess, TypeOK, TxOK, LinksOK
  <2>g. tx.consent \in Consents /\ granted[tx.consent] # NoLink
    BY <1>0, <1>8, AtHand DEF TellSuccess
  <2>s. /\ spent' \subseteq Consents
        /\ UNCHANGED <<granted, tokens, late>>
        /\ \A d \in Consents : d \in spent' => d \in spent \/ granted[d] # NoLink
    BY <1>0, <1>8, <2>g DEF TellSuccess, TypeOK
  <2>k. \A d \in Consents : \A w \in Fates : w \in fate'[d] => w \in fate[d] \/ granted[d] # NoLink
    BY <2>f, <2>g
  <2>4. GivenOK'
    BY <1>0, <2>s, <2>k, GivenStays
  <2>m. \A d \in Consents :
           /\ "unknown" \in fate'[d] => "unknown" \in fate[d]
    BY <2>f, <2>w DEF Fates
  <2>5. KnownOnceShown'
    BY <1>0, <1>8, <2>m, <2>o, AuthAssumption
      DEF TellSuccess, TypeOK, TxOK, LinksOK, GivenOK, KnownOnceShown, Fates
  <2>6. LateOK'
    BY <1>0, <1>8, <2>f, <2>o, <2>w, AuthAssumption
      DEF TellSuccess, TypeOK, TxOK, LinksOK, GivenOK, LateOK, Fates
  <2>7. LateRefused'
    BY <1>0, <1>8, <2>f, <2>o, <2>w, AuthAssumption
      DEF TellSuccess, TypeOK, TxOK, LinksOK, GivenOK, LateOK, LateRefused, Fates
  <2>8. SaidOK'
    <3> SUFFICES ASSUME NEW d \in Consents, "success" \in fate'[d]
                 PROVE  /\ d \in spent' /\ states'[granted'[d]] # NoUser
                        /\ \/ "undone" \in fate'[d]
                           \/ tx'.step = "logged in" /\ tx'.consent = d
                           \/ tokens'[states'[granted'[d]]] # NoConsent
      BY DEF SaidOK
    <3>1. UNCHANGED <<states, tokens, granted, spent>> /\ tx.step = "exchanged"
      BY <1>8 DEF TellSuccess
    <3>2. CASE d = tx.consent
      BY <1>0, <2>o, <3>1, <3>2 DEF TxOK
    <3>3. CASE d # tx.consent
      <4>1. "success" \in fate[d]
        BY <2>f, <3>3 DEF Fates
      <4>2. /\ d \in spent /\ states[granted[d]] # NoUser
            /\ "undone" \in fate[d] \/ tokens[states[granted[d]]] # NoConsent
        BY <1>0, <3>1, <4>1 DEF SaidOK
      <4>3. "undone" \in fate[d] => "undone" \in fate'[d]
        BY <2>f DEF Fates
      <4> QED
        BY <3>1, <4>2, <4>3
    <3> QED
      BY <3>2, <3>3
  <2> QED
    BY <2>1, <2>2, <2>3, <2>4, <2>5, <2>6, <2>7, <2>8 DEF IInv
<1>9. CASE TellSuccessFails
  <2>0. PICK told \in Heard(tx.link, "success") : fate' = Went(tx.consent, told \cup {"undone"})
    BY <1>9 DEF TellSuccessFails
  <2>w. told \in SUBSET Fates /\ \A w \in told : w \in {"success", "silence"}
    BY HeardFates DEF Fates
  <2>u. /\ tx.consent \in Consents /\ told \cup {"undone"} \in SUBSET Fates
        /\ \A w \in told : w \in {"success", "silence"}
    BY <1>0, <1>9, <2>0, <2>w DEF TellSuccessFails, TxOK, Fates
  <2>f. /\ fate' \in [Consents -> SUBSET Fates]
        /\ \A d \in Consents : \A w \in Fates :
              w \in fate'[d] <=>
                 w \in fate[d] \/ (d = tx.consent /\ w \in told \cup {"undone"})
    BY <1>0, <2>0, <2>u, Hears
  <2>v. /\ service = "github" /\ tx.step = "exchanged" /\ tx' = NoTx
        /\ UNCHANGED <<service, states, tokens, made, shown, addressed, aged, granted, spent, late>>
    BY <1>9 DEF TellSuccessFails
  <2>1. TypeOK'
    BY <1>0, <2>f, <2>u, <2>v, AuthAssumption DEF NoTx, TypeOK, TxOK
  <2>2. TxOK'
    BY <1>0, <2>f, <2>u, <2>v, AuthAssumption DEF NoTx, TypeOK, TxOK, LinksOK
  <2>3. LinksOK'
    BY <1>0, <2>f, <2>u, <2>v, AuthAssumption DEF NoTx, TypeOK, TxOK, LinksOK
  <2>g. tx.consent \in Consents /\ granted[tx.consent] # NoLink
    BY <1>0, <2>v, AtHand
  <2>s. /\ spent' \subseteq Consents
        /\ UNCHANGED <<granted, tokens, late>>
        /\ \A d \in Consents : d \in spent' => d \in spent \/ granted[d] # NoLink
    BY <1>0, <2>v, <2>g DEF TypeOK
  <2>k. \A d \in Consents : \A w \in Fates : w \in fate'[d] => w \in fate[d] \/ granted[d] # NoLink
    BY <2>f, <2>g
  <2>4. GivenOK'
    BY <1>0, <2>s, <2>k, GivenStays
  <2>m. \A d \in Consents :
           /\ "unknown" \in fate'[d] => "unknown" \in fate[d]
    BY <2>f, <2>u DEF Fates
  <2>5. KnownOnceShown'
    BY <1>0, <2>m, <2>v, AuthAssumption
      DEF NoTx, TypeOK, TxOK, LinksOK, GivenOK, KnownOnceShown, Fates
  <2>6. LateOK'
    BY <1>0, <2>f, <2>u, <2>v, AuthAssumption
      DEF NoTx, TypeOK, TxOK, LinksOK, GivenOK, LateOK, Fates
  <2>7. LateRefused'
    BY <1>0, <2>f, <2>u, <2>v, AuthAssumption
      DEF NoTx, TypeOK, TxOK, LinksOK, GivenOK, LateOK, LateRefused, Fates
  <2>8. SaidOK'
    <3> SUFFICES ASSUME NEW d \in Consents, "success" \in fate'[d]
                 PROVE  /\ d \in spent' /\ states'[granted'[d]] # NoUser
                        /\ \/ "undone" \in fate'[d]
                           \/ tx'.step = "logged in" /\ tx'.consent = d
                           \/ tokens'[states'[granted'[d]]] # NoConsent
      BY DEF SaidOK
    <3>2. CASE d = tx.consent
      <4>1. "undone" \in fate'[d]
        BY <2>f, <3>2 DEF Fates
      <4> QED
        BY <1>0, <2>v, <3>2, <4>1 DEF TxOK
    <3>3. CASE d # tx.consent
      <4>1. "success" \in fate[d]
        BY <2>f, <3>3 DEF Fates
      <4>2. /\ d \in spent /\ states[granted[d]] # NoUser
            /\ "undone" \in fate[d] \/ tokens[states[granted[d]]] # NoConsent
        BY <1>0, <2>v, <4>1 DEF SaidOK
      <4>3. "undone" \in fate[d] => "undone" \in fate'[d]
        BY <2>f DEF Fates
      <4> QED
        BY <2>v, <4>2, <4>3
    <3> QED
      BY <3>2, <3>3
  <2> QED
    BY <2>1, <2>2, <2>3, <2>4, <2>5, <2>6, <2>7, <2>8 DEF IInv
<1>10. CASE CommitToken
  <2>0. /\ states[tx.link] \in Users /\ tx.consent \in Consents /\ tx.link = granted[tx.consent]
        /\ \A u \in Users : tokens'[u] = IF u = states[tx.link] THEN tx.consent ELSE tokens[u]
    BY <1>0, <1>10 DEF CommitToken, TypeOK, TxOK
  <2>1. TypeOK'
    BY <1>0, <1>10, <2>0, AuthAssumption DEF CommitToken, NoTx, TypeOK, TxOK
  <2>2. TxOK'
    BY <1>0, <1>10, <2>0, AuthAssumption DEF CommitToken, NoTx, TypeOK, TxOK, LinksOK
  <2>3. LinksOK'
    BY <1>0, <1>10, <2>0, AuthAssumption DEF CommitToken, NoTx, TypeOK, TxOK, LinksOK
  <2>4. GivenOK'
    BY <1>0, <1>10, <2>0, AuthAssumption DEF CommitToken, NoTx, TypeOK, TxOK, LinksOK, GivenOK
  <2>5. KnownOnceShown'
    BY <1>0, <1>10, <2>0, AuthAssumption
      DEF CommitToken, NoTx, TypeOK, TxOK, LinksOK, GivenOK, KnownOnceShown
  <2>6. LateOK'
    BY <1>0, <1>10, <2>0, AuthAssumption
      DEF CommitToken, NoTx, TypeOK, TxOK, LinksOK, GivenOK, LateOK
  <2>7. LateRefused'
    BY <1>0, <1>10, <2>0, AuthAssumption
      DEF CommitToken, NoTx, TypeOK, TxOK, LinksOK, GivenOK, LateOK, LateRefused
  <2>8. SaidOK'
    <3> SUFFICES ASSUME NEW d \in Consents, "success" \in fate'[d]
                 PROVE  /\ d \in spent' /\ states'[granted'[d]] # NoUser
                        /\ \/ "undone" \in fate'[d]
                           \/ tx'.step = "logged in" /\ tx'.consent = d
                           \/ tokens'[states'[granted'[d]]] # NoConsent
      BY DEF SaidOK
    <3>1. UNCHANGED <<states, granted, spent, fate>>
      BY <1>10 DEF CommitToken
    <3>2. /\ d \in spent /\ states[granted[d]] # NoUser
          /\ \/ "undone" \in fate[d]
             \/ tx.consent = d
             \/ tokens[states[granted[d]]] # NoConsent
      BY <1>0, <3>1 DEF SaidOK
    <3>3. granted[d] \in Links
      BY <1>0, <3>1, <3>2 DEF TypeOK, GivenOK
    <3>4. states[granted[d]] \in Users
      BY <1>0, <3>2, <3>3 DEF TypeOK
    <3>5. tokens[states[granted[d]]] # NoConsent \/ tx.consent = d
             => tokens'[states[granted[d]]] # NoConsent
      BY <2>0, <3>4, AuthAssumption
    <3> QED
      BY <3>1, <3>2, <3>5
  <2> QED
    BY <2>1, <2>2, <2>3, <2>4, <2>5, <2>6, <2>7, <2>8 DEF IInv
<1>11. ASSUME NEW l \in Links, Age(l) PROVE IInv'
  <2>1. TypeOK'
    BY <1>0, <1>11, AuthAssumption DEF Age, TypeOK, TxOK
  <2>2. TxOK'
    BY <1>0, <1>11, AuthAssumption DEF Age, TypeOK, TxOK, LinksOK
  <2>3. LinksOK'
    BY <1>0, <1>11, AuthAssumption DEF Age, TypeOK, TxOK, LinksOK
  <2>4. GivenOK'
    BY <1>0, <1>11, AuthAssumption DEF Age, TypeOK, TxOK, LinksOK, GivenOK
  <2>5. KnownOnceShown'
    BY <1>0, <1>11, AuthAssumption DEF Age, TypeOK, TxOK, LinksOK, GivenOK, KnownOnceShown
  <2>6. LateOK'
    BY <1>0, <1>11, AuthAssumption DEF Age, TypeOK, TxOK, LinksOK, GivenOK, LateOK
  <2>7. LateRefused'
    BY <1>0, <1>11, AuthAssumption DEF Age, TypeOK, TxOK, LinksOK, GivenOK, LateOK, LateRefused
  <2>8. SaidOK'
    BY <1>0, <1>11, AuthAssumption DEF Age, TypeOK, TxOK, LinksOK, GivenOK, SaidOK
  <2> QED
    BY <2>1, <2>2, <2>3, <2>4, <2>5, <2>6, <2>7, <2>8 DEF IInv
<1>12. ASSUME NEW u \in Users, NEW l \in Links, MakeLink(u, l) PROVE IInv'
  <2>1. TypeOK'
    BY <1>0, <1>12, AuthAssumption DEF MakeLink, NoTx, TypeOK, TxOK
  <2>2. TxOK'
    BY <1>0, <1>12, AuthAssumption DEF MakeLink, NoTx, TypeOK, TxOK, LinksOK
  <2>3. LinksOK'
    BY <1>0, <1>12, AuthAssumption DEF MakeLink, NoTx, TypeOK, TxOK, LinksOK
  <2>4. GivenOK'
    BY <1>0, <1>12, AuthAssumption DEF MakeLink, NoTx, TypeOK, TxOK, LinksOK, GivenOK
  <2>5. KnownOnceShown'
    BY <1>0, <1>12, AuthAssumption
      DEF MakeLink, NoTx, TypeOK, TxOK, LinksOK, GivenOK, KnownOnceShown
  <2>6. LateOK'
    BY <1>0, <1>12, AuthAssumption DEF MakeLink, NoTx, TypeOK, TxOK, LinksOK, GivenOK, LateOK
  <2>7. LateRefused'
    BY <1>0, <1>12, AuthAssumption
      DEF MakeLink, NoTx, TypeOK, TxOK, LinksOK, GivenOK, LateOK, LateRefused
  <2>8. SaidOK'
    BY <1>0, <1>12, AuthAssumption DEF MakeLink, NoTx, TypeOK, TxOK, LinksOK, GivenOK, SaidOK
  <2> QED
    BY <2>1, <2>2, <2>3, <2>4, <2>5, <2>6, <2>7, <2>8 DEF IInv
<1>13. ASSUME NEW c \in Consents, NEW l \in Links, Consent(c, l) PROVE IInv'
  <2>0. /\ tx.consent # c /\ c \notin spent /\ c \notin late
        /\ \A w \in Fates : w \notin fate[c]
        /\ \A u \in Users : tokens[u] # c
    BY <1>13, NotYet DEF Consent
  <2>1. TypeOK'
    BY <1>0, <1>13, <2>0, AuthAssumption DEF Consent, TypeOK, TxOK
  <2>2. TxOK'
    BY <1>0, <1>13, <2>0, AuthAssumption DEF Consent, TypeOK, TxOK, LinksOK
  <2>3. LinksOK'
    BY <1>0, <1>13, <2>0, AuthAssumption DEF Consent, TypeOK, TxOK, LinksOK
  <2>4. GivenOK'
    <3>1. \A d \in Consents : granted[d] # NoLink => granted'[d] = granted[d]
      BY <1>0, <1>13 DEF Consent, TypeOK
    <3>2. granted'[c] # NoLink
      BY <1>0, <1>13, AuthAssumption DEF Consent, TypeOK
    <3>3. \A d \in late' : d \in late \/ d = c
      BY <1>13 DEF Consent
    <3>4. \A d \in Consents : \A w \in Fates : w \in fate'[d] => granted'[d] # NoLink
      BY <1>0, <1>13, <3>1 DEF Consent, GivenOK
    <3>5. \A d \in spent' : granted'[d] # NoLink
      BY <1>0, <1>13, <3>1 DEF Consent, GivenOK, TypeOK
    <3>6. \A d \in late' : granted'[d] # NoLink
      BY <1>0, <3>1, <3>2, <3>3 DEF GivenOK, TypeOK
    <3>7. \A u \in Users : tokens'[u] # NoConsent => granted'[tokens'[u]] # NoLink
      BY <1>0, <1>13, <3>1 DEF Consent, GivenOK, TypeOK
    <3> QED
      BY <3>4, <3>5, <3>6, <3>7 DEF GivenOK
  <2>5. KnownOnceShown'
    BY <1>0, <1>13, <2>0, AuthAssumption
      DEF Consent, TypeOK, TxOK, LinksOK, GivenOK, KnownOnceShown
  <2>6. LateOK'
    <3>1. \A d \in Consents : d # c => granted'[d] = granted[d]
      BY <1>0, <1>13 DEF Consent, TypeOK
    <3>2. granted'[c] = l /\ UNCHANGED <<service, tx, aged>>
      BY <1>0, <1>13 DEF Consent, TypeOK
    <3>3. \A d \in late' : (d \in late /\ d # c) \/ (d = c /\ l \in aged)
      <4>1. CASE l \in aged
        BY <1>13, <2>0, <4>1 DEF Consent
      <4>2. CASE l \notin aged
        BY <1>13, <2>0, <4>2 DEF Consent
      <4> QED
        BY <4>1, <4>2
    <3>4. \A d \in late' : granted'[d] \in aged'
      BY <1>0, <3>1, <3>2, <3>3 DEF LateOK, TypeOK
    <3>5. service = "spotify" => tx.consent \notin late'
      BY <1>0, <2>0, <3>3 DEF LateOK
    <3> QED
      BY <3>2, <3>4, <3>5 DEF LateOK
  <2>7. LateRefused'
    BY <1>0, <1>13, <2>0, AuthAssumption
      DEF Consent, TypeOK, TxOK, LinksOK, GivenOK, LateOK, LateRefused
  <2>8. SaidOK'
    BY <1>0, <1>13, <2>0, AuthAssumption DEF Consent, TypeOK, TxOK, LinksOK, GivenOK, SaidOK
  <2> QED
    BY <2>1, <2>2, <2>3, <2>4, <2>5, <2>6, <2>7, <2>8 DEF IInv
<1>14. ASSUME NEW c \in Consents, Unknown(c) PROVE IInv'
  <2>0. c \in Consents /\ {"unknown"} \in SUBSET Fates /\ fate' = Went(c, {"unknown"})
    BY <1>0, <1>14 DEF Unknown, Ends, TxOK, Fates
  <2>f. /\ fate' \in [Consents -> SUBSET Fates]
        /\ \A d \in Consents : \A w \in Fates :
              w \in fate'[d] <=> w \in fate[d] \/ (d = c /\ w \in {"unknown"})
    BY <1>0, <2>0, Hears
  <2>1. TypeOK'
    BY <1>0, <1>14, <2>f, AuthAssumption DEF Unknown, Comes, Known, Ends, NoTx, TypeOK, TxOK
  <2>2. TxOK'
    BY <1>0, <1>14, <2>f, AuthAssumption
      DEF Unknown, Comes, Known, Ends, NoTx, TypeOK, TxOK, LinksOK
  <2>3. LinksOK'
    BY <1>0, <1>14, <2>f, AuthAssumption
      DEF Unknown, Comes, Known, Ends, NoTx, TypeOK, TxOK, LinksOK
  <2>4. GivenOK'
    BY <1>0, <1>14, <2>f, AuthAssumption
      DEF Unknown, Comes, Known, Ends, NoTx, TypeOK, TxOK, LinksOK, GivenOK, Fates
  <2>5. KnownOnceShown'
    BY <1>0, <1>14, <2>f, AuthAssumption
      DEF Unknown, Comes, Known, Ends, NoTx, TypeOK, TxOK, LinksOK, GivenOK, KnownOnceShown, Fates
  <2>6. LateOK'
    BY <1>0, <1>14, <2>f, AuthAssumption
      DEF Unknown, Comes, Known, Ends, NoTx, TypeOK, TxOK, LinksOK, GivenOK, LateOK, Fates
  <2>7. LateRefused'
    BY <1>0, <1>14, <2>f, AuthAssumption
      DEF Unknown, Comes, Known, Ends, NoTx, TypeOK, TxOK, LinksOK, GivenOK, LateOK, LateRefused, Fates
  <2>8. SaidOK'
    BY <1>0, <1>14, <2>f, AuthAssumption
      DEF Unknown, Comes, Known, Ends, NoTx, TypeOK, TxOK, LinksOK, GivenOK, SaidOK, Fates
  <2> QED
    BY <2>1, <2>2, <2>3, <2>4, <2>5, <2>6, <2>7, <2>8 DEF IInv
<1>15. ASSUME NEW c \in Consents, Refuse(c) PROVE IInv'
  <2>0. PICK heard \in Heard(granted[c], "failure") : Ends(c, heard)
    BY <1>15 DEF Refuse
  <2>w. heard \in SUBSET Fates /\ \A w \in heard : w \in {"failure", "silence"}
    BY HeardFates DEF Fates
  <2>f. /\ fate' \in [Consents -> SUBSET Fates]
        /\ \A d \in Consents : \A w \in Fates :
              w \in fate'[d] <=> w \in fate[d] \/ (d = c /\ w \in heard)
    BY <1>0, <2>0, <2>w, Hears DEF Ends
  <2>1. TypeOK'
    BY <1>0, <1>15, <2>f, <2>0, <2>w, AuthAssumption DEF Refuse, Comes, Known, Ends, NoTx, TypeOK, TxOK
  <2>2. TxOK'
    BY <1>0, <1>15, <2>f, <2>0, <2>w, AuthAssumption
      DEF Refuse, Comes, Known, Ends, NoTx, TypeOK, TxOK, LinksOK
  <2>3. LinksOK'
    BY <1>0, <1>15, <2>f, <2>0, <2>w, AuthAssumption
      DEF Refuse, Comes, Known, Ends, NoTx, TypeOK, TxOK, LinksOK
  <2>4. GivenOK'
    BY <1>0, <1>15, <2>f, <2>0, <2>w, AuthAssumption
      DEF Refuse, Comes, Known, Ends, NoTx, TypeOK, TxOK, LinksOK, GivenOK, Fates
  <2>5. KnownOnceShown'
    BY <1>0, <1>15, <2>f, <2>0, <2>w, AuthAssumption
      DEF Refuse, Comes, Known, Ends, NoTx, TypeOK, TxOK, LinksOK, GivenOK, KnownOnceShown, Fates
  <2>6. LateOK'
    BY <1>0, <1>15, <2>f, <2>0, <2>w, AuthAssumption
      DEF Refuse, Comes, Known, Ends, NoTx, TypeOK, TxOK, LinksOK, GivenOK, LateOK, Fates
  <2>7. LateRefused'
    BY <1>0, <1>15, <2>f, <2>0, <2>w, AuthAssumption
      DEF Refuse, Comes, Known, Ends, NoTx, TypeOK, TxOK, LinksOK, GivenOK, LateOK, LateRefused, Fates
  <2>8. SaidOK'
    BY <1>0, <1>15, <2>f, <2>0, <2>w, AuthAssumption
      DEF Refuse, Comes, Known, Ends, NoTx, TypeOK, TxOK, LinksOK, GivenOK, SaidOK, Fates
  <2> QED
    BY <2>1, <2>2, <2>3, <2>4, <2>5, <2>6, <2>7, <2>8 DEF IInv
<1>16. ASSUME NEW c \in Consents, Accept(c) PROVE IInv'
  <2>1. TypeOK'
    BY <1>0, <1>16, AuthAssumption DEF Accept, Comes, Known, Expired, NoTx, TypeOK, TxOK
  <2>2. TxOK'
    BY <1>0, <1>16, AuthAssumption
      DEF Accept, Comes, Known, Expired, NoTx, TypeOK, TxOK, LinksOK
  <2>3. LinksOK'
    BY <1>0, <1>16, AuthAssumption
      DEF Accept, Comes, Known, Expired, NoTx, TypeOK, TxOK, LinksOK
  <2>4. GivenOK'
    BY <1>0, <1>16, AuthAssumption
      DEF Accept, Comes, Known, Expired, NoTx, TypeOK, TxOK, LinksOK, GivenOK
  <2>5. KnownOnceShown'
    BY <1>0, <1>16, AuthAssumption
      DEF Accept, Comes, Known, Expired, NoTx, TypeOK, TxOK, LinksOK, GivenOK, KnownOnceShown
  <2>6. LateOK'
    BY <1>0, <1>16, AuthAssumption
      DEF Accept, Comes, Known, Expired, NoTx, TypeOK, TxOK, LinksOK, GivenOK, LateOK
  <2>7. LateRefused'
    BY <1>0, <1>16, AuthAssumption
      DEF Accept, Comes, Known, Expired, NoTx, TypeOK, TxOK, LinksOK, GivenOK, LateOK, LateRefused
  <2>8. SaidOK'
    BY <1>0, <1>16, AuthAssumption
      DEF Accept, Comes, Known, Expired, NoTx, TypeOK, TxOK, LinksOK, GivenOK, SaidOK
  <2> QED
    BY <2>1, <2>2, <2>3, <2>4, <2>5, <2>6, <2>7, <2>8 DEF IInv
<1>17. CASE UNCHANGED vars
  BY <1>0, <1>17
    DEF vars, IInv, TypeOK, TxOK, LinksOK, GivenOK, KnownOnceShown, LateOK, LateRefused, SaidOK
<1> QED
  BY <1>1, <1>2, <1>3, <1>4, <1>5, <1>6, <1>7, <1>8, <1>9, <1>10, <1>11, <1>12, <1>13, <1>14, <1>15, <1>16, <1>17
    DEF Next

\* The inductive invariant holds throughout.
LEMMA Always == Spec => []IInv
  BY InitInv, StepInv, PTL DEF Spec

\* The variables, those of history among them, keep their types (spotify.go, github.go).
THEOREM Typing == Spec => []TypeOK
<1>1. IInv => TypeOK
  BY DEF IInv
<1> QED
  BY Always, <1>1, PTL

\* A callback that finds no state never will: the webhook's transaction waits for the
\* one in which the command stored the state (spotify.go authorizeWebhook).
THEOREM KnownOnceShownAlways == Spec => []KnownOnceShown
<1>1. IInv => KnownOnceShown
  BY DEF IInv
<1> QED
  BY Always, <1>1, PTL

\* No consent given on an expired link logs in to spotify (spotify.go authorizeWebhook).
THEOREM LateRefusedAlways == Spec => []LateRefused
<1>1. IInv => LateRefused
  BY DEF IInv
<1> QED
  BY Always, <1>1, PTL

\* Who was told of their login and not undone has a token (authorizeWebhook of both).
THEOREM SuccessStoredAlways == Spec => []SuccessStored
<1>1. IInv => SuccessStored
  BY DEF IInv, SaidOK, SuccessStored
<1> QED
  BY Always, <1>1, PTL

\* A state that is stored stays as it is, whatever the callbacks with it come to.
THEOREM StatesStayEver == Spec => StatesStay
<1>1. IInv /\ [Next]_vars => [Kept]_states
  <2> SUFFICES ASSUME IInv, Next, NEW l \in Links, states[l] # NoUser
               PROVE  states'[l] = states[l] \/ UNCHANGED states
    BY DEF vars, Kept
  <2>1. CASE CommitState
    BY <2>1 DEF CommitState, IInv, TypeOK, TxOK, LinksOK
  <2>2. CASE ~CommitState
    BY <2>2 DEF Next, Crash, CommitFails, RollBack, ShowLinkFails, ShowLink, Exchange,
      ExchangeFails, TellSuccess, TellSuccessFails, CommitToken, Age, MakeLink, Consent,
      Unknown, Refuse, Accept, Ends
  <2> QED
    BY <2>1, <2>2
<1> QED
  BY Always, <1>1, PTL DEF Spec, StatesStay

\* Nobody has a link, a consent or a token to begin with, in either specification.
LEMMA InitLogins == Init => Logins!Init
  BY DEF Init, Logins!Init, NoTx

\* Every step is one of Login, or none: a consent counts as used when what came of it
\* is settled, so the exchange itself is none.
LEMMA StepLogins == IInv /\ [Next]_vars => [Logins!Next]_(Logins!vars)
<1> DEFINE used == IF tx.step \in {"exchanged", "logged in"} THEN spent \ {tx.consent} ELSE spent
<1> SUFFICES ASSUME IInv, [Next]_vars
             PROVE  Logins!Next \/ UNCHANGED <<made, granted, used, tokens>>
  BY DEF Logins!vars
<1>0. TypeOK /\ TxOK /\ LinksOK /\ GivenOK
  BY DEF IInv
<1>w. ASSUME tx.step \in {"exchanged", "logged in"}, tx' = NoTx,
             UNCHANGED <<made, granted, tokens, spent>>
      PROVE  Logins!Next
  <2>1. tx.consent \in Consents /\ granted[tx.consent] # NoLink /\ tx.consent \in spent
    BY <1>0, <1>w, AuthAssumption DEF TxOK
  <2>2. used = spent \ {tx.consent} /\ used' = spent
    BY <1>w DEF NoTx
  <2>3. used' = used \cup {tx.consent} /\ tx.consent \notin used
    BY <2>1, <2>2
  <2>4. Logins!Waste(tx.consent)
    BY <1>w, <2>1, <2>3 DEF Logins!Waste, Logins!Usable
  <2> QED
    BY <2>1, <2>4 DEF Logins!Next
<1>r. ASSUME RollBack, spent' = spent
      PROVE  Logins!Next \/ UNCHANGED <<made, granted, used, tokens>>
  <2>1. tx' = NoTx /\ UNCHANGED <<made, granted, tokens, spent>>
    BY <1>r DEF RollBack
  <2>2. CASE tx.step \in {"exchanged", "logged in"}
    BY <2>1, <2>2, <1>w
  <2>3. CASE tx.step \notin {"exchanged", "logged in"}
    BY <2>1, <2>3 DEF NoTx
  <2> QED
    BY <2>2, <2>3
<1>1. CASE Crash \/ CommitFails \/ ShowLinkFails
  BY <1>1, <1>r DEF Crash, CommitFails, ShowLinkFails
<1>2. CASE TellSuccessFails
  BY <1>2, <1>w DEF TellSuccessFails
<1>3. CASE ExchangeFails
  <2>1. tx.consent \in Consents /\ granted[tx.consent] # NoLink
    BY <1>0, <1>3, AtHand DEF ExchangeFails
  <2>2. used = spent /\ used' = spent' /\ UNCHANGED <<made, granted, tokens>>
    BY <1>3 DEF ExchangeFails, NoTx
  <2>3. CASE spent' = spent
    BY <2>2, <2>3
  <2>4. CASE spent' = spent \cup {tx.consent} /\ tx.consent \notin spent
    <3>1. Logins!Waste(tx.consent)
      BY <2>1, <2>2, <2>4 DEF Logins!Waste, Logins!Usable
    <3> QED
      BY <2>1, <3>1 DEF Logins!Next
  <2> QED
    BY <1>3, <2>3, <2>4 DEF ExchangeFails
<1>4. CASE CommitToken
  <2>1. tx.consent \in Consents /\ granted[tx.consent] # NoLink /\ tx.consent \in spent
    BY <1>0, <1>4, AuthAssumption DEF TxOK, CommitToken
  <2>2. used = spent \ {tx.consent} /\ used' = spent
    BY <1>4 DEF NoTx, CommitToken
  <2>3. used' = used \cup {tx.consent} /\ tx.consent \notin used
    BY <2>1, <2>2
  <2>4. states[tx.link] = made[granted[tx.consent]]
    BY <1>0, <1>4 DEF TxOK, LinksOK, CommitToken
  <2>5. Logins!LogIn(tx.consent)
    BY <1>4, <2>1, <2>3, <2>4 DEF Logins!LogIn, Logins!Usable, CommitToken
  <2> QED
    BY <2>1, <2>5 DEF Logins!Next
<1>5. ASSUME NEW u \in Users, NEW l \in Links, MakeLink(u, l) PROVE Logins!Next
  <2>1. used = spent /\ used' = spent /\ UNCHANGED <<granted, tokens>>
    BY <1>5 DEF MakeLink, NoTx
  <2>2. Logins!Issue(l, u)
    BY <1>5, <2>1 DEF MakeLink, Logins!Issue
  <2> QED
    BY <2>2 DEF Logins!Next
<1>6. ASSUME NEW c \in Consents, NEW l \in Links, Consent(c, l) PROVE Logins!Next
  <2>1. made[l] # NoUser
    BY <1>0, <1>6 DEF Consent, LinksOK
  <2>2. used' = used /\ UNCHANGED <<made, tokens>>
    BY <1>6 DEF Consent
  <2>3. Logins!Grant(c, l)
    BY <1>6, <2>1, <2>2 DEF Consent, Logins!Grant
  <2> QED
    BY <2>3 DEF Logins!Next
<1>7. CASE Exchange
  <2>1. used = spent /\ tx'.step = "exchanged" /\ tx'.consent = tx.consent
    BY <1>0, <1>7, Onward DEF Exchange
  <2>2. used' = spent
    BY <1>7, <2>1 DEF Exchange
  <2> QED
    BY <1>7, <2>1, <2>2 DEF Exchange
<1>8. CASE TellSuccess
  <2>1. tx'.step = "logged in" /\ tx'.consent = tx.consent
    BY <1>0, <1>8, Onward DEF TellSuccess
  <2> QED
    BY <1>8, <2>1 DEF TellSuccess
<1>9. CASE ShowLink
  <2>1. tx'.step = "linked"
    BY <1>0, <1>9, Onward DEF ShowLink
  <2> QED
    BY <1>9, <2>1 DEF ShowLink
<1>10. CASE CommitState
  BY <1>10 DEF CommitState, NoTx
<1>11. ASSUME NEW l \in Links, Age(l) PROVE UNCHANGED <<made, granted, used, tokens>>
  BY <1>11 DEF Age
<1>12. ASSUME NEW c \in Consents, Unknown(c) \/ Refuse(c)
       PROVE  UNCHANGED <<made, granted, used, tokens>>
  BY <1>12 DEF Unknown, Refuse, Ends
<1>13. ASSUME NEW c \in Consents, Accept(c)
       PROVE  UNCHANGED <<made, granted, used, tokens>>
  BY <1>13 DEF Accept, Comes, NoTx
<1>14. CASE UNCHANGED vars
  BY <1>14 DEF vars
<1> QED
  BY <1>1, <1>2, <1>3, <1>4, <1>5, <1>6, <1>7, <1>8, <1>9, <1>10, <1>11, <1>12, <1>13, <1>14
    DEF Next

\* Authorisation implements Login: a login comes from a consent on the user's own link,
\* a consent logs in once at most, and nobody is logged out.
THEOREM Refinement == Spec => ImplementsLogin
  BY Always, InitLogins, StepLogins, PTL DEF Spec, ImplementsLogin, Logins!Spec
=============================================================================
