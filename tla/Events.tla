------------------------------- MODULE Events -------------------------------
(***************************************************************************)
(* The messages Slack delivers to /slack/event (events.go) and the hooks   *)
(* they are dispatched to (dispatchHooks in plugins.go), while the bot may *)
(* still be starting (Start, initInfo in bot.go), and across crashes.      *)
(*                                                                         *)
(* Every delivery is an HTTP handler of its own.  It hands the message to  *)
(* the hooks one after another, over unbuffered channels, and answers when *)
(* the last has taken it.  Slack delivers a message again when an answer   *)
(* is late or never comes.  Reactions go the same way to their own hooks   *)
(* (dispatchReactions), without the look at who sent them.                 *)
(***************************************************************************)
EXTENDS Naturals, Sequences, FiniteSets, SequencesExt

CONSTANTS
    Messages,   \* what is said in the channels
    Author,     \* [Messages -> BotID of who said it], NoBot for a person
    Self,       \* the BotID Slack knows this bot by
    NoBot,      \* the empty BotID
    Order,      \* the hooks, in the order they were registered
    Attempts    \* bound: [Messages -> how often Slack delivers it]

ASSUME EventsAssumption ==
    /\ Self # NoBot
    /\ IsInjective(Order) /\ Order \in Seq(ToSet(Order))
    /\ Attempts \in [Messages -> Nat \ {0}]
    /\ DOMAIN Author = Messages

Hooks == ToSet(Order)
Deliveries == UNION {{m} \X (1..Attempts[m]) : m \in Messages}

VARIABLES
    botId,      \* Bot.botId: NoBot until initInfo has asked for it
    cancelled,  \* the bot's context is cancelled
    handler,    \* each delivery's handler: away, sending, answered, ignored, lost
    next,       \* the hook, by position, that it sends to next
    hook,       \* each hook's goroutine: idle, busy, stuck, gone
    log,        \* each hook: the deliveries it has taken (history)
    before      \* each delivery: those answered when it arrived (history)

vars == <<botId, cancelled, handler, next, hook, log, before>>

TypeOK ==
    /\ botId \in {Self, NoBot}
    /\ cancelled \in BOOLEAN
    /\ handler \in [Deliveries -> {"away", "sending", "answered", "ignored", "lost"}]
    /\ next \in [Deliveries -> 1..(Len(Order) + 1)]
    /\ hook \in [Hooks -> {"idle", "busy", "stuck", "gone"}]
    /\ log \in [Hooks -> Seq(Deliveries)]
    /\ before \in [Deliveries -> SUBSET Deliveries]

Init ==
    /\ botId = NoBot
    /\ cancelled = FALSE
    /\ handler = [d \in Deliveries |-> "away"]
    /\ next = [d \in Deliveries |-> 1]
    /\ hook = [h \in Hooks |-> "idle"]
    /\ log = [h \in Hooks |-> <<>>]
    /\ before = [d \in Deliveries |-> {}]

-----------------------------------------------------------------------------
(* The bot starts, stops and dies                                          *)

\* The server is up before this: Start runs it first.
InitInfo ==
    /\ botId = NoBot
    /\ botId' = Self
    /\ UNCHANGED <<cancelled, handler, next, hook, log, before>>

\* Stop, or whoever gave the bot its context.
Cancel ==
    /\ ~cancelled
    /\ cancelled' = TRUE
    /\ UNCHANGED <<botId, handler, next, hook, log, before>>

\* The process dies, by initInfo's panic for one, and a new one is started.
Restart ==
    /\ botId' = NoBot
    /\ cancelled' = FALSE
    /\ handler' = [d \in Deliveries |-> IF handler[d] = "sending" THEN "lost" ELSE handler[d]]
    /\ hook' = [h \in Hooks |-> "idle"]
    /\ UNCHANGED <<next, log, before>>

-----------------------------------------------------------------------------
(* handleSlackEvent                                                        *)

\* Slack has a reason to deliver d: its message is new, or the delivery before
\* was not answered in time, or was, and Slack did not hear it.
Due(d) ==
    /\ handler[d] = "away"
    /\ d[2] > 1 => handler[<<d[1], d[2] - 1>>] # "away"

Answered == {d \in Deliveries : handler[d] \in {"answered", "ignored"}}

Arrive(d) ==
    /\ Due(d)
    /\ Author[d[1]] # botId
    /\ handler' = [handler EXCEPT ![d] = IF Order = <<>> THEN "answered" ELSE "sending"]
    /\ before' = [before EXCEPT ![d] = Answered]
    /\ UNCHANGED <<botId, cancelled, next, hook, log>>

Ignore(d) ==
    /\ Due(d)
    /\ Author[d[1]] = botId
    /\ handler' = [handler EXCEPT ![d] = "ignored"]
    /\ before' = [before EXCEPT ![d] = Answered]
    /\ UNCHANGED <<botId, cancelled, next, hook, log>>

-----------------------------------------------------------------------------
(* dispatchHooks                                                           *)

\* Variant: the hooks are kept in a map, which gives them in another order each time.
ReceiverOfMap(d) == Order[IF d[2] = 1 THEN next[d] ELSE Len(Order) + 1 - next[d]]

Receiver(d) == Order[next[d]]

Sent(d) ==
    /\ next' = [next EXCEPT ![d] = @ + 1]
    /\ handler' = [handler EXCEPT ![d] = IF next[d] = Len(Order) THEN "answered" ELSE "sending"]
    /\ UNCHANGED <<botId, cancelled, before>>

\* Variant: a hook that is not ready is passed over.
HearOrSkip(d) ==
    /\ handler[d] = "sending"
    /\ IF hook[Receiver(d)] = "idle"
       THEN /\ hook' = [hook EXCEPT ![Receiver(d)] = "busy"]
            /\ log' = [log EXCEPT ![Receiver(d)] = Append(@, d)]
       ELSE UNCHANGED <<hook, log>>
    /\ Sent(d)

\* Variant: the handler answers and leaves the rest of the hooks to a goroutine.
HearLater(d) ==
    /\ handler[d] \in {"sending", "answered"} /\ next[d] <= Len(Order)
    /\ hook[Receiver(d)] = "idle"
    /\ hook' = [hook EXCEPT ![Receiver(d)] = "busy"]
    /\ log' = [log EXCEPT ![Receiver(d)] = Append(@, d)]
    /\ next' = [next EXCEPT ![d] = @ + 1]
    /\ handler' = [handler EXCEPT ![d] = "answered"]
    /\ UNCHANGED <<botId, cancelled, before>>

\* The send and the hook's receive are one step.
Hear(d) ==
    /\ handler[d] = "sending"
    /\ hook[Receiver(d)] = "idle"
    /\ hook' = [hook EXCEPT ![Receiver(d)] = "busy"]
    /\ log' = [log EXCEPT ![Receiver(d)] = Append(@, d)]
    /\ Sent(d)

-----------------------------------------------------------------------------
(* The hooks' goroutines                                                   *)

HookStep(h, from, to) ==
    /\ hook[h] = from
    /\ hook' = [hook EXCEPT ![h] = to]
    /\ UNCHANGED <<botId, cancelled, handler, next, log, before>>

\* Variant: a hook ends with its first message.
FinishAndLeave(h) == HookStep(h, "busy", "gone")

\* It is done with the message and waits for the next.
Finish(h) == HookStep(h, "busy", "idle")

\* It waits for something that never comes: the database's writer, or a service
\* that is called without a deadline.
Hang(h) == HookStep(h, "busy", "stuck")

\* Its select sees that the context is cancelled.
Leave(h) == cancelled /\ HookStep(h, "idle", "gone")

Next ==
    \/ InitInfo \/ Cancel \/ Restart
    \/ \E d \in Deliveries : Arrive(d) \/ Ignore(d) \/ Hear(d)
    \/ \E h \in Hooks : Finish(h) \/ Hang(h) \/ Leave(h)

Spec == Init /\ [][Next]_vars

\* Goroutines that can run do.  Senders on a channel are served in turn, so a
\* hook that is idle again and again takes every delivery that waits for it.
\* Nothing makes Slack deliver, a hook hang, or the bot stop or crash.
Fairness ==
    /\ WF_vars(InitInfo)
    /\ \A d \in Deliveries : SF_vars(Hear(d))
    /\ \A h \in Hooks : WF_vars(Finish(h)) /\ WF_vars(Leave(h))

FairSpec == Spec /\ Fairness

-----------------------------------------------------------------------------
\* When Slack is told that a message was received, and so will not send it
\* again, every hook has taken it, whatever crashed or was slow on the way.
AnsweredIsHeard ==
    \A d \in Deliveries : handler[d] = "answered" => \A h \in Hooks : Contains(log[h], d)

\* How often a hook has heard a message, repeats included, and the deliveries of it
\* that are under way or that a crash cut short.
Times(h, m) == Cardinality({i \in DOMAIN log[h] : log[h][i][1] = m})
CutShort(m) == {n \in 1..Attempts[m] : handler[<<m, n>>] \in {"sending", "lost"}}

\* Slack's repeats are not recognised, so that a hook may hear a message more than
\* once and a hook before it more often still, when the process died between the two;
\* but no hook hears it more often than one before it, and they differ by no more
\* than the deliveries that were cut short or are under way.
HeardAlike ==
    \A m \in Messages : \A i, j \in DOMAIN Order : i < j =>
        /\ Times(Order[j], m) <= Times(Order[i], m)
        /\ Times(Order[i], m) <= Times(Order[j], m) + Cardinality(CutShort(m))

\* Messages sent one after the other, the second when the first was answered, are
\* heard in that order by every hook.  (Two that are under way together are not:
\* one hook may hear them in one order and the next hook in the other.)
InOrder ==
    \A h \in Hooks : \A i, j \in DOMAIN log[h] :
        log[h][j] \in before[log[h][i]] => j < i

\* A delivery is answered, however many others wait for the same hooks, unless a
\* hook never finishes or the bot stops or dies.
OnlyHooksBlock ==
    \A d \in Deliveries :
        handler[d] = "sending" ~>
            handler[d] # "sending" \/ cancelled \/ \E h \in Hooks : hook[h] = "stuck"

-----------------------------------------------------------------------------
(* What a comment in the source promises, and the code does not keep       *)

\* events.go:49: "Ignore things the bot has said".
OwnIgnored == \A h \in Hooks : \A i \in DOMAIN log[h] : Author[log[h][i][1]] # Self
=============================================================================
