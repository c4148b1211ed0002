------------------------------ MODULE Dispatch ------------------------------
(***************************************************************************)
(* The request path of the bot: the HTTP handlers of webhooks.go and the   *)
(* app-mention branch of events.go, the one handleEvents goroutine of      *)
(* bot.go, the goroutine of every registered command, interaction and      *)
(* webhook (plugins.go), the 2.5s and 5s timers, and Bot.Stop.             *)
(*                                                                         *)
(* Every channel but a webhook's Done is unbuffered, so a send and its     *)
(* receive are one step of the model and a sender that has no receiver is  *)
(* a goroutine that stays in its "offering" or "reply" state.              *)
(***************************************************************************)
EXTENDS Naturals, FiniteSets

CONSTANTS
    Requests,   \* the HTTP requests that may reach the server
    Workers,    \* goroutines running a plugin's runFunc
    Kind,       \* [Requests -> Kinds]: the route of a request
    Target,     \* [Requests -> Workers \cup {Nobody}]: what the registry finds
    Quitters,   \* workers whose runFunc returns when a call to Slack fails
    Stoppers,   \* workers that call Bot.Stop
    Main,       \* the goroutine that owns the bot, which may call Bot.Stop
    Nobody,     \* the registry has no such name
    Nothing     \* no request

Kinds == {"command", "mention", "interaction", "webhook"}

ASSUME DispatchAssumption ==
    /\ Kind \in [Requests -> Kinds]
    /\ Target \in [Requests -> Workers \cup {Nobody}]
    /\ Nobody \notin Workers
    /\ Nothing \notin Requests
    /\ Main \notin Workers
    /\ Quitters \subseteq Workers
    /\ Stoppers \subseteq Workers

Callers == Workers \cup {Main}

VARIABLES
    handler,    \* goroutine serving the request: absent, offering, waiting, returned
    responder,  \* goroutine that awaits the reply to a mention: none, waiting, gone
    timer,      \* off, running, fired or stopped
    done,       \* a webhook's Done channel, buffered with room for one
    answer,     \* what became of the request
    dispatcher, \* the request handleEvents is sending to a worker, or Nothing
    worker,     \* idle, handling, replyText, replyNil, after, exited
    job,        \* the request a worker is busy with, or Nothing
    cancelled,  \* the bot's context is cancelled
    stopper,    \* a caller's progress through Bot.Stop: none, waiting, returned
    listening   \* the HTTP server accepts requests

httpVars == <<handler, responder, timer, done, answer>>
stopVars == <<cancelled, stopper, listening>>
vars == <<httpVars, dispatcher, worker, job, stopVars>>

Answers == {"none", "refused", "dropped", "ack", "reply", "posted", "aborted", "timeout"}

TypeOK ==
    /\ handler \in [Requests -> {"absent", "offering", "waiting", "returned"}]
    /\ responder \in [Requests -> {"none", "waiting", "gone"}]
    /\ timer \in [Requests -> {"off", "running", "fired", "stopped"}]
    /\ done \in [Requests -> BOOLEAN]
    /\ answer \in [Requests -> Answers]
    /\ dispatcher \in Requests \cup {Nothing}
    /\ worker \in [Workers -> {"idle", "handling", "replyText", "replyNil", "after", "exited"}]
    /\ job \in [Workers -> Requests \cup {Nothing}]
    /\ cancelled \in BOOLEAN
    /\ stopper \in [Callers -> {"none", "waiting", "returned"}]
    /\ listening \in BOOLEAN

Init ==
    /\ handler = [r \in Requests |-> "absent"]
    /\ responder = [r \in Requests |-> "none"]
    /\ timer = [r \in Requests |-> "off"]
    /\ done = [r \in Requests |-> FALSE]
    /\ answer = [r \in Requests |-> "none"]
    /\ dispatcher = Nothing
    /\ worker = [w \in Workers |-> "idle"]
    /\ job = [w \in Workers |-> Nothing]
    /\ cancelled = FALSE
    /\ stopper = [c \in Callers |-> "none"]
    /\ listening = TRUE

-----------------------------------------------------------------------------
(* Arrival of a request                                                    *)

Arriving(r) == handler[r] = "absent" /\ listening

\* The signature does not match, or the form or its payload does not decode.
Refuse(r) ==
    /\ Arriving(r)
    /\ Kind[r] # "webhook"
    /\ handler' = [handler EXCEPT ![r] = "returned"]
    /\ answer' = [answer EXCEPT ![r] = "refused"]
    /\ UNCHANGED <<responder, timer, done, dispatcher, worker, job, stopVars>>

\* An unknown webhook, or a mention whose command, channel or user the bot
\* does not know: the handler returns without a word.
Drop(r) ==
    /\ Arriving(r)
    /\ \/ Kind[r] = "webhook" /\ Target[r] = Nobody
       \/ Kind[r] = "mention"
    /\ handler' = [handler EXCEPT ![r] = "returned"]
    /\ answer' = [answer EXCEPT ![r] = "dropped"]
    /\ UNCHANGED <<responder, timer, done, dispatcher, worker, job, stopVars>>

\* The handler starts its blocking send: to cmdChannel, to interactionChannel,
\* or straight to the webhook's own channel.
Offer(r) ==
    /\ Arriving(r)
    /\ \/ Kind[r] \in {"command", "interaction"}
       \/ Kind[r] = "webhook" /\ Target[r] # Nobody
    /\ handler' = [handler EXCEPT ![r] = "offering"]
    /\ UNCHANGED <<responder, timer, done, answer, dispatcher, worker, job, stopVars>>

\* A mention starts the goroutine that awaits the reply, and its timer, before
\* the blocking send to the command's channel.
OfferMention(r) ==
    /\ Arriving(r)
    /\ Kind[r] = "mention" /\ Target[r] # Nobody
    /\ handler' = [handler EXCEPT ![r] = "offering"]
    /\ responder' = [responder EXCEPT ![r] = "waiting"]
    /\ timer' = [timer EXCEPT ![r] = "running"]
    /\ UNCHANGED <<done, answer, dispatcher, worker, job, stopVars>>

-----------------------------------------------------------------------------
(* handleEvents and the registry                                           *)

\* Variant: an unknown name is sent on too, on a channel nobody reads.
DispatchedUnchecked(r) == r

\* dispatchCommand and dispatchInteraction return at once on an unknown name;
\* otherwise handleEvents blocks in the send to the worker.
Dispatched(r) == IF Target[r] = Nobody THEN Nothing ELSE r

\* handleEvents takes a slash command; its handler starts the timer.
AcceptCommand(r) ==
    /\ dispatcher = Nothing
    /\ Kind[r] = "command" /\ handler[r] = "offering"
    /\ dispatcher' = Dispatched(r)
    /\ handler' = [handler EXCEPT ![r] = "waiting"]
    /\ timer' = [timer EXCEPT ![r] = "running"]
    /\ UNCHANGED <<responder, done, answer, worker, job, stopVars>>

\* handleEvents takes an interaction; its handler answers 200 and returns.
AcceptInteraction(r) ==
    /\ dispatcher = Nothing
    /\ Kind[r] = "interaction" /\ handler[r] = "offering"
    /\ dispatcher' = Dispatched(r)
    /\ handler' = [handler EXCEPT ![r] = "returned"]
    /\ answer' = [answer EXCEPT ![r] = "ack"]
    /\ UNCHANGED <<responder, timer, done, worker, job, stopVars>>

-----------------------------------------------------------------------------
(* Workers                                                                 *)

Take(w, r) ==
    /\ worker[w] = "idle" /\ Target[r] = w
    /\ worker' = [worker EXCEPT ![w] = "handling"]
    /\ job' = [job EXCEPT ![w] = r]

\* Variant: handleEvents goes on offering what was received.
ReceiveDispatchedAgain(w, r) ==
    /\ dispatcher = r
    /\ Take(w, r)
    /\ UNCHANGED <<httpVars, dispatcher, stopVars>>

\* The worker receives what handleEvents is sending.
ReceiveDispatched(w, r) ==
    /\ dispatcher = r
    /\ Take(w, r)
    /\ dispatcher' = Nothing
    /\ UNCHANGED <<httpVars, stopVars>>

\* The worker receives from the handler of a mention, which then returns.
ReceiveMention(w, r) ==
    /\ Kind[r] = "mention" /\ handler[r] = "offering"
    /\ Take(w, r)
    /\ handler' = [handler EXCEPT ![r] = "returned"]
    /\ UNCHANGED <<responder, timer, done, answer, dispatcher, stopVars>>

\* The worker receives from the handler of a webhook, which then waits 5s.
ReceiveWebhook(w, r) ==
    /\ Kind[r] = "webhook" /\ handler[r] = "offering"
    /\ Take(w, r)
    /\ handler' = [handler EXCEPT ![r] = "waiting"]
    /\ timer' = [timer EXCEPT ![r] = "running"]
    /\ UNCHANGED <<responder, done, answer, dispatcher, stopVars>>

HasReply(r) == Kind[r] \in {"command", "mention"}

\* The plugin starts its send on Reply(): a response, or nil when it means to
\* answer through the response URL itself.
StartReply(w, form) ==
    /\ worker[w] = "handling" /\ HasReply(job[w])
    /\ worker' = [worker EXCEPT ![w] = form]
    /\ UNCHANGED <<httpVars, dispatcher, job, stopVars>>

\* Variant: Done has no room, so the send waits for the handler.
SignalDoneUnbuffered(w) ==
    /\ worker[w] = "handling" /\ Kind[job[w]] = "webhook" /\ handler[job[w]] = "waiting"
    /\ worker' = [worker EXCEPT ![w] = "after"]
    /\ done' = [done EXCEPT ![job[w]] = TRUE]
    /\ UNCHANGED <<handler, responder, timer, answer, dispatcher, job, stopVars>>

\* The webhook's worker has written its response: Done has room, so the send
\* never blocks.
SignalDone(w) ==
    /\ worker[w] = "handling" /\ Kind[job[w]] = "webhook"
    /\ worker' = [worker EXCEPT ![w] = "after"]
    /\ done' = [done EXCEPT ![job[w]] = TRUE]
    /\ UNCHANGED <<handler, responder, timer, answer, dispatcher, job, stopVars>>

\* The plugin has nothing to say: an empty /g, a /glist with nothing stored, a
\* failed write of the webhook's response, an interaction.
FinishSilently(w) ==
    /\ worker[w] = "handling"
    /\ worker' = [worker EXCEPT ![w] = "after"]
    /\ UNCHANGED <<httpVars, dispatcher, job, stopVars>>

\* The work that follows the reply is over; back to the select. A worker that
\* is inside Bot.Stop is not.
Continue(w) ==
    /\ worker[w] = "after" /\ stopper[w] # "waiting"
    /\ worker' = [worker EXCEPT ![w] = "idle"]
    /\ job' = [job EXCEPT ![w] = Nothing]
    /\ UNCHANGED <<httpVars, dispatcher, stopVars>>

Exited(w) ==
    /\ worker' = [worker EXCEPT ![w] = "exited"]
    /\ job' = [job EXCEPT ![w] = Nothing]
    /\ UNCHANGED <<httpVars, dispatcher, stopVars>>

\* comicCommand returns from its loop when the call to Slack that follows the
\* reply fails; the command stays registered.
Quit(w) ==
    /\ w \in Quitters
    /\ worker[w] = "after" /\ stopper[w] # "waiting"
    /\ Exited(w)

\* The select of every runFunc also waits for the cancelled context.
ExitCancelled(w) == cancelled /\ worker[w] = "idle" /\ Exited(w)

-----------------------------------------------------------------------------
(* Replies and timeouts                                                    *)

Replying(w) == worker[w] \in {"replyText", "replyNil"}

\* The goroutine that receives on the reply channel of r is in its select.
Listening(r) ==
    IF Kind[r] = "mention" THEN responder[r] = "waiting" ELSE handler[r] = "waiting"

\* It leaves its select and the request has its outcome.
Conclude(r, outcome) ==
    /\ IF Kind[r] = "mention"
       THEN responder' = [responder EXCEPT ![r] = "gone"] /\ UNCHANGED handler
       ELSE handler' = [handler EXCEPT ![r] = "returned"] /\ UNCHANGED responder
    /\ answer' = [answer EXCEPT ![r] = outcome]

\* Variant: the plugin sends its response a second time.
ReplyTwice(w) ==
    LET r == job[w] IN
    /\ Replying(w) /\ Listening(r) /\ timer[r] = "running"
    /\ Conclude(r, "reply")
    /\ timer' = [timer EXCEPT ![r] = "stopped"]
    /\ UNCHANGED <<worker, done, dispatcher, job, stopVars>>

\* The reply meets its listener, and timer.Stop finds the timer running.
ReplyInTime(w) ==
    LET r == job[w] IN
    /\ Replying(w) /\ Listening(r) /\ timer[r] = "running"
    /\ Conclude(r, IF worker[w] = "replyNil" THEN "ack" ELSE "reply")
    /\ timer' = [timer EXCEPT ![r] = "stopped"]
    /\ worker' = [worker EXCEPT ![w] = "after"]
    /\ UNCHANGED <<done, dispatcher, job, stopVars>>

\* What a reply that is received after the timer fired turns into. The slash
\* handler posts it to the response URL, but prepareSlashCommandResp has no
\* answer to a nil one: the handler panics. A mention posts it as ever.
LateOutcome(r, form) ==
    IF form = "replyNil"
    THEN IF Kind[r] = "mention" THEN "ack" ELSE "aborted"
    ELSE IF Kind[r] = "mention" THEN "reply" ELSE "posted"

\* Variant: the reply channel is still received from after the timeout.
ReplyAfterTimeout(w) ==
    LET r == job[w] IN
    /\ Replying(w) /\ timer[r] = "fired"
    /\ Conclude(r, LateOutcome(r, worker[w]))
    /\ worker' = [worker EXCEPT ![w] = "after"]
    /\ UNCHANGED <<timer, done, dispatcher, job, stopVars>>

\* Reply and timer are both ready and the select picks the reply.
ReplyLate(w) ==
    LET r == job[w] IN
    /\ Replying(w) /\ Listening(r) /\ timer[r] = "fired"
    /\ Conclude(r, LateOutcome(r, worker[w]))
    /\ worker' = [worker EXCEPT ![w] = "after"]
    /\ UNCHANGED <<timer, done, dispatcher, job, stopVars>>

TimerFires(r) ==
    /\ timer[r] = "running"
    /\ timer' = [timer EXCEPT ![r] = "fired"]
    /\ UNCHANGED <<handler, responder, done, answer, dispatcher, worker, job, stopVars>>

\* Variant: the webhook's handler waits for Done only.
GiveUpNotWebhook(r) ==
    /\ Listening(r) /\ timer[r] = "fired" /\ Kind[r] # "webhook"
    /\ Conclude(r, "timeout")
    /\ UNCHANGED <<timer, done, dispatcher, worker, job, stopVars>>

\* The select picks the timer: the slash handler or the webhook's handler
\* returns an empty 200, the mention's goroutine returns.
GiveUp(r) ==
    /\ Listening(r) /\ timer[r] = "fired"
    /\ Conclude(r, "timeout")
    /\ UNCHANGED <<timer, done, dispatcher, worker, job, stopVars>>

\* The webhook's handler sees Done and returns.
WebhookDone(r) ==
    /\ Kind[r] = "webhook" /\ handler[r] = "waiting" /\ done[r]
    /\ Conclude(r, "reply")
    /\ done' = [done EXCEPT ![r] = FALSE]
    /\ UNCHANGED <<timer, dispatcher, worker, job, stopVars>>

-----------------------------------------------------------------------------
(* Stopping                                                                *)

CallStop(c) ==
    /\ stopper[c] = "none"
    /\ stopper' = [stopper EXCEPT ![c] = "waiting"]
    /\ cancelled' = TRUE
    /\ UNCHANGED <<httpVars, dispatcher, worker, job, listening>>

StopFromMain == CallStop(Main)

\* The admin plugin's shutdown command and its restart confirmation.
StopFromWorker(w) == w \in Stoppers /\ worker[w] = "after" /\ CallStop(w)

\* The context given to NewBot is cancelled.
ParentCancelled ==
    /\ ~cancelled
    /\ cancelled' = TRUE
    /\ UNCHANGED <<httpVars, dispatcher, worker, job, stopper, listening>>

\* Variant: the database is closed without waiting for the workers.
StopReturnsEarly(c) ==
    /\ stopper[c] = "waiting"
    /\ stopper' = [stopper EXCEPT ![c] = "returned"]
    /\ UNCHANGED <<httpVars, dispatcher, worker, job, cancelled, listening>>

\* wg.Wait returns once every worker has returned; then the DB is closed.
StopReturns(c) ==
    /\ stopper[c] = "waiting"
    /\ \A w \in Workers : worker[w] = "exited"
    /\ stopper' = [stopper EXCEPT ![c] = "returned"]
    /\ UNCHANGED <<httpVars, dispatcher, worker, job, cancelled, listening>>

\* srv.Shutdown: no new requests, the handlers under way run on.
ServerShutdown ==
    /\ cancelled /\ listening
    /\ listening' = FALSE
    /\ UNCHANGED <<httpVars, dispatcher, worker, job, cancelled, stopper>>

-----------------------------------------------------------------------------
Arrivals == \E r \in Requests : Refuse(r) \/ Drop(r) \/ Offer(r) \/ OfferMention(r)

Accept == \E r \in Requests : AcceptCommand(r) \/ AcceptInteraction(r)

Receive == \E w \in Workers, r \in Requests :
    ReceiveDispatched(w, r) \/ ReceiveMention(w, r) \/ ReceiveWebhook(w, r)

Work == \E w \in Workers :
    \/ \E form \in {"replyText", "replyNil"} : StartReply(w, form)
    \/ SignalDone(w) \/ FinishSilently(w) \/ Continue(w)
    \/ Quit(w) \/ ExitCancelled(w)

Reply == \E w \in Workers : ReplyInTime(w) \/ ReplyLate(w)

Wait == \E r \in Requests : TimerFires(r) \/ GiveUp(r) \/ WebhookDone(r)

Stop ==
    \/ StopFromMain
    \/ \E w \in Workers : StopFromWorker(w)
    \/ ParentCancelled
    \/ \E c \in Callers : StopReturns(c)
    \/ ServerShutdown

Next == Arrivals \/ Accept \/ Receive \/ Work \/ Reply \/ Wait \/ Stop

Spec == Init /\ [][Next]_vars

(***************************************************************************)
(* The goroutines are scheduled fairly, a timer that runs fires, a plugin  *)
(* ends what it started.  Senders queue in FIFO order on a Go channel and  *)
(* select chooses among the ready channels at random, so a sender whose    *)
(* channel is received from again and again is served.  Nothing makes      *)
(* requests arrive, plugins fail or the bot stop: a webhook that ends      *)
(* silently is one whose response could not be written.                    *)
(*                                                                         *)
(* One condition says all of this: a request goes through its stages once, *)
(* so every behaviour comes to rest, and fairness of each of these actions *)
(* means that it rests where none of them is enabled.                      *)
(***************************************************************************)
WorkerStep(w) ==
    \/ \E form \in {"replyText", "replyNil"} : StartReply(w, form)
    \/ SignalDone(w)
    \/ worker[w] = "handling" /\ Kind[job[w]] # "webhook" /\ FinishSilently(w)

Progress ==
    \/ \E r \in Requests :
          \/ AcceptCommand(r) \/ AcceptInteraction(r)
          \/ \E w \in Workers :
                 ReceiveDispatched(w, r) \/ ReceiveMention(w, r) \/ ReceiveWebhook(w, r)
          \/ TimerFires(r) \/ GiveUp(r) \/ WebhookDone(r)
    \/ \E w \in Workers :
          WorkerStep(w) \/ Continue(w) \/ ExitCancelled(w) \/ ReplyInTime(w) \/ ReplyLate(w)
    \/ \E c \in Callers : StopReturns(c)
    \/ ServerShutdown

Fairness == WF_vars(Progress)

FairSpec == Spec /\ Fairness

-----------------------------------------------------------------------------
(* What can hang                                                           *)

\* The reply's listener has left: nobody will ever receive this send.
Stuck(w) == Replying(w) /\ ~Listening(job[w])

\* Never again will the worker receive from its channel.
Dead(w) == Stuck(w) \/ worker[w] = "exited" \/ stopper[w] = "waiting"

\* Some worker's goroutine is lost to the bot.
Lost == \E w \in Workers : Dead(w)

DbClosed == \E c \in Callers : stopper[c] = "returned"

-----------------------------------------------------------------------------
(* Safety                                                                  *)

\* A request a plugin works on has left handleEvents and its handler's send
\* for good, and sits with the one worker it is registered to: nothing hands
\* the same request out twice.
TakenOnce ==
    \A w \in Workers : job[w] # Nothing =>
        /\ Target[job[w]] = w
        /\ dispatcher # job[w]
        /\ handler[job[w]] \in {"waiting", "returned"}
        /\ answer[job[w]] \notin {"refused", "dropped"}

\* While a request that has a reply channel waits for its plugin, or its plugin
\* for the receiver, the receiver is in its select or has timed out: no reply
\* is ever sent twice, and none is taken from the channel but its own.
ReplyAwaited ==
    /\ \A w \in Workers :
          worker[w] \in {"handling", "replyText", "replyNil"} /\ HasReply(job[w]) =>
              answer[job[w]] = IF Listening(job[w]) THEN "none" ELSE "timeout"
    /\ dispatcher # Nothing /\ HasReply(dispatcher) =>
          answer[dispatcher] = IF Listening(dispatcher) THEN "none" ELSE "timeout"

\* Stop closes the database only after every plugin goroutine has returned, so
\* that no plugin finds the store closed under it.
ClosedAfterDrain ==
    DbClosed => \A w \in Workers : worker[w] = "exited" /\ job[w] = Nothing

\* A worker that needs nothing but its turn.
GoesOn(w) ==
    \/ worker[w] \in {"idle", "handling"}
    \/ worker[w] = "after" /\ stopper[w] # "waiting"
    \/ Replying(w) /\ Listening(job[w]) /\ timer[job[w]] \in {"running", "fired"}

\* The worker that handleEvents, a webhook's or a mention's handler offers a request.
Awaited == {Target[r] : r \in {q \in Requests :
    \/ dispatcher = q
    \/ handler[q] = "offering" /\ Kind[q] \in {"webhook", "mention"}}}

\* What NoOtherHang and AcceptedReturns come to at one moment: who listens for a
\* reply has its timer to leave by, and who sends a request, sends it to a worker that
\* is there and can go on or is lost.
OnlyLostBlock ==
    /\ \A r \in Requests : Listening(r) => timer[r] \in {"running", "fired"}
    /\ \A w \in Awaited : w \in Workers /\ (GoesOn(w) \/ Dead(w))

\* What no step undoes: a lost worker, and the request handleEvents offers it.
StaysLost ==
    \A w \in Workers : Dead(w) =>
        /\ Dead(w)'
        /\ \A r \in Requests : dispatcher = r /\ Target[r] = w => dispatcher' = r

\* A late reply is never received: once a worker is stuck on one it stays
\* stuck, and once the dispatcher offers a request to a dead worker it accepts
\* nothing else (one late reply takes the whole bot down).
NoRecovery == [][StaysLost]_vars

-----------------------------------------------------------------------------
(* The request path implements PluginService                               *)

\* A request is with its worker, or has been, once it has left handleEvents or
\* its handler's own send.
Served == {r \in Requests :
    /\ Target[r] # Nobody
    /\ dispatcher # r
    /\ handler[r] \in {"waiting", "returned"}
    /\ answer[r] \notin {"refused", "dropped"}}

\* An interaction is acknowledged before its plugin hears of it, which is no
\* answer; a nil reply to a command is one: the plugin answers by itself.
Answered(r) ==
    \/ answer[r] \in {"reply", "posted"}
    \/ answer[r] = "ack" /\ Kind[r] # "interaction"

Outcome == [r \in Requests |->
    IF answer[r] = "none" THEN "open" ELSE IF Answered(r) THEN "answered" ELSE "unanswered"]

Service == INSTANCE PluginService WITH
    Owner <- Target, serving <- job, served <- Served, outcome <- Outcome

\* Every behaviour of the handlers, handleEvents, the workers and the timers is
\* one of PluginService: no request reaches two plugins or one plugin twice, no
\* late reply unsettles a request that timed out, none is answered unserved.
ImplementsService == Service!Spec

-----------------------------------------------------------------------------
(* Liveness, under FairSpec                                                *)

\* Once a slash command is accepted, or a webhook received, its HTTP handler
\* returns, whatever the plugin does: the timer sees to it.
AcceptedReturns ==
    \A r \in Requests : handler[r] = "waiting" ~> handler[r] = "returned"

\* Every request under way is answered, unless a worker is lost to a late
\* reply, to its own return or to a Stop it called: there is no other hang.
NoOtherHang ==
    \A r \in Requests : handler[r] = "offering" ~> (handler[r] = "returned" \/ Lost)

\* Stop returns with the database closed, unless a worker is stuck on a late
\* reply or is itself inside Stop.
StopCompletes ==
    \A c \in Callers : stopper[c] = "waiting" ~>
        \/ stopper[c] = "returned"
        \/ \E w \in Workers : Stuck(w) \/ stopper[w] = "waiting"

-----------------------------------------------------------------------------
(* What a comment in the source promises, and the code does not keep       *)

\* bot.go:233: "Stop cancel's the bots main context, closes the DB handle".
StopCloses == \A c \in Callers : stopper[c] = "waiting" ~> stopper[c] = "returned"
=============================================================================
