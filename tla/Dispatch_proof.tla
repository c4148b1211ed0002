--------------------------- MODULE Dispatch_proof ---------------------------
(***************************************************************************)
(* Proofs about the request path, for any requests, workers and registry.  *)
(***************************************************************************)
EXTENDS Dispatch, TLAPS

\* A worker has a job exactly while it is out of its select, one with a reply
\* channel while it replies.
Placement == \A w \in Workers :
    /\ job[w] = Nothing <=> worker[w] \in {"idle", "exited"}
    /\ worker[w] \in {"replyText", "replyNil"} => HasReply(job[w])

\* Until its reply's receiver has left, a request has no outcome.
Fresh == \A r \in Requests :
    /\ handler[r] = "absent" => answer[r] = "none" /\ responder[r] = "none"
    /\ handler[r] = "waiting" => answer[r] = "none" /\ Kind[r] # "mention"
    /\ handler[r] = "offering" =>
          answer[r] = IF Kind[r] = "mention" /\ responder[r] # "waiting" THEN "timeout" ELSE "none"
    /\ responder[r] = "waiting" => answer[r] = "none" /\ Kind[r] = "mention"
    /\ handler[r] \in {"offering", "waiting"} /\ Kind[r] = "webhook" => Target[r] # Nobody

\* handleEvents holds a command or an interaction that was accepted.
Dispatching == dispatcher # Nothing =>
    /\ Kind[dispatcher] \in {"command", "interaction"}
    /\ Target[dispatcher] # Nobody
    /\ handler[dispatcher] \in {"waiting", "returned"}
    /\ answer[dispatcher] \notin {"refused", "dropped"}

\* A worker inside Stop has not gone back to its select.
StopperBusy == \A w \in Workers : stopper[w] = "waiting" => worker[w] = "after"

\* The inductive invariant.
IInv ==
    /\ TypeOK
    /\ Placement
    /\ TakenOnce
    /\ Fresh
    /\ Dispatching
    /\ StopperBusy
    /\ ReplyAwaited
    /\ ClosedAfterDrain

-----------------------------------------------------------------------------
\* The initial states satisfy the inductive invariant.
LEMMA InitInv == Init => IInv
<1> SUFFICES ASSUME Init PROVE IInv
  OBVIOUS
<1> USE DispatchAssumption DEF Init
<1>1. TypeOK  BY DEF TypeOK, Callers, Answers
<1>2. Placement  BY DEF Placement
<1>3. TakenOnce  BY DEF TakenOnce
<1>4. Fresh  BY DEF Fresh
<1>5. Dispatching  BY DEF Dispatching
<1>6. StopperBusy  BY DEF StopperBusy, Callers
<1>7. ReplyAwaited  BY DEF ReplyAwaited
<1>8. ClosedAfterDrain  BY DEF ClosedAfterDrain, DbClosed
<1> QED
  BY <1>1, <1>2, <1>3, <1>4, <1>5, <1>6, <1>7, <1>8 DEF IInv

\* The arrival of a request: it has no outcome yet and is with no worker.
LEMMA ArrivalsInv == IInv /\ Arrivals => IInv'
<1> SUFFICES ASSUME IInv, Arrivals PROVE IInv'
  OBVIOUS
<1> USE DispatchAssumption DEF DispatchAssumption, IInv, TypeOK, Placement, TakenOnce, Fresh,
    Dispatching, StopperBusy, ReplyAwaited, ClosedAfterDrain,
    Kinds, Answers, Callers, DbClosed, HasReply, Listening
<1>1. ASSUME NEW r \in Requests, Refuse(r) PROVE IInv'
  BY <1>1 DEF Refuse, Arriving, stopVars
<1>2. ASSUME NEW r \in Requests, Drop(r) PROVE IInv'
  BY <1>2 DEF Drop, Arriving, stopVars
<1>3. ASSUME NEW r \in Requests, Offer(r) PROVE IInv'
  BY <1>3 DEF Offer, Arriving, stopVars
<1>4. ASSUME NEW r \in Requests, OfferMention(r) PROVE IInv'
  BY <1>4 DEF OfferMention, Arriving, stopVars
<1> HIDE DEF IInv
<1> QED
  BY <1>1, <1>2, <1>3, <1>4 DEF Arrivals

\* handleEvents takes a request off its handler's hands.
LEMMA AcceptInv == IInv /\ Accept => IInv'
<1> SUFFICES ASSUME IInv, Accept PROVE IInv'
  OBVIOUS
<1> USE DispatchAssumption DEF DispatchAssumption, IInv, TypeOK, Placement, TakenOnce, Fresh,
    Dispatching, StopperBusy, ReplyAwaited, ClosedAfterDrain,
    Kinds, Answers, Callers, DbClosed, HasReply, Listening
<1>1. ASSUME NEW r \in Requests, AcceptCommand(r) PROVE IInv'
  BY <1>1 DEF AcceptCommand, Dispatched, stopVars
<1>2. ASSUME NEW r \in Requests, AcceptInteraction(r) PROVE IInv'
  BY <1>2 DEF AcceptInteraction, Dispatched, stopVars
<1> HIDE DEF IInv
<1> QED
  BY <1>1, <1>2 DEF Accept

\* A worker leaves its select with a request addressed to it.
LEMMA ReceiveInv == IInv /\ Receive => IInv'
<1> SUFFICES ASSUME IInv, Receive PROVE IInv'
  OBVIOUS
<1> USE DispatchAssumption DEF DispatchAssumption, IInv, TypeOK, Placement, TakenOnce, Fresh,
    Dispatching, StopperBusy, ReplyAwaited, ClosedAfterDrain,
    Kinds, Answers, Callers, DbClosed, HasReply, Listening
<1>1. ASSUME NEW w \in Workers, NEW r \in Requests, ReceiveDispatched(w, r) PROVE IInv'
  BY <1>1 DEF ReceiveDispatched, Take, httpVars, stopVars
<1>2. ASSUME NEW w \in Workers, NEW r \in Requests, ReceiveMention(w, r) PROVE IInv'
  BY <1>2 DEF ReceiveMention, Take, stopVars
<1>3. ASSUME NEW w \in Workers, NEW r \in Requests, ReceiveWebhook(w, r) PROVE IInv'
  BY <1>3 DEF ReceiveWebhook, Take, stopVars
<1> HIDE DEF IInv
<1> QED
  BY <1>1, <1>2, <1>3 DEF Receive

\* What a worker does on its own leaves the requests' outcomes alone.
LEMMA WorkInv == IInv /\ Work => IInv'
<1> SUFFICES ASSUME IInv, Work PROVE IInv'
  OBVIOUS
<1> USE DispatchAssumption DEF DispatchAssumption, IInv, TypeOK, Placement, TakenOnce, Fresh,
    Dispatching, StopperBusy, ReplyAwaited, ClosedAfterDrain,
    Kinds, Answers, Callers, DbClosed, HasReply, Listening
<1>1. ASSUME NEW w \in Workers, NEW form \in {"replyText", "replyNil"}, StartReply(w, form) PROVE IInv'
  BY <1>1 DEF StartReply, httpVars, stopVars
<1>2. ASSUME NEW w \in Workers, SignalDone(w) PROVE IInv'
  BY <1>2 DEF SignalDone, stopVars
<1>3. ASSUME NEW w \in Workers, FinishSilently(w) PROVE IInv'
  BY <1>3 DEF FinishSilently, httpVars, stopVars
<1>4. ASSUME NEW w \in Workers, Continue(w) PROVE IInv'
  BY <1>4 DEF Continue, httpVars, stopVars
<1>5. ASSUME NEW w \in Workers, Quit(w) PROVE IInv'
  BY <1>5 DEF Quit, Exited, httpVars, stopVars
<1>6. ASSUME NEW w \in Workers, ExitCancelled(w) PROVE IInv'
  BY <1>6 DEF ExitCancelled, Exited, httpVars, stopVars
<1> HIDE DEF IInv
<1> QED
  BY <1>1, <1>2, <1>3, <1>4, <1>5, <1>6 DEF Work

\* A reply settles the request its worker holds, which no other worker and not
\* handleEvents holds too.
LEMMA ReplyInv == IInv /\ Reply => IInv'
<1> SUFFICES ASSUME IInv, Reply PROVE IInv'
  OBVIOUS
<1> USE DispatchAssumption DEF DispatchAssumption, IInv, TypeOK, Placement, TakenOnce, Fresh,
    Dispatching, StopperBusy, ReplyAwaited, ClosedAfterDrain,
    Kinds, Answers, Callers, DbClosed, HasReply, Listening
<1>1. ASSUME NEW w \in Workers, ReplyInTime(w) PROVE IInv'
  BY <1>1 DEF ReplyInTime, Replying, Conclude, stopVars
<1>2. ASSUME NEW w \in Workers, ReplyLate(w) PROVE IInv'
  BY <1>2 DEF ReplyLate, Replying, Conclude, LateOutcome, stopVars
<1> HIDE DEF IInv
<1> QED
  BY <1>1, <1>2 DEF Reply

\* A receiver that leaves on its timer leaves the outcome that ReplyAwaited wants.
LEMMA WaitInv == IInv /\ Wait => IInv'
<1> SUFFICES ASSUME IInv, Wait PROVE IInv'
  OBVIOUS
<1> USE DispatchAssumption DEF DispatchAssumption, IInv, TypeOK, Placement, TakenOnce, Fresh,
    Dispatching, StopperBusy, ReplyAwaited, ClosedAfterDrain,
    Kinds, Answers, Callers, DbClosed, HasReply, Listening
<1>1. ASSUME NEW r \in Requests, TimerFires(r) PROVE IInv'
  BY <1>1 DEF TimerFires, stopVars
<1>2. ASSUME NEW r \in Requests, GiveUp(r) PROVE IInv'
  BY <1>2 DEF GiveUp, Conclude, stopVars
<1>3. ASSUME NEW r \in Requests, WebhookDone(r) PROVE IInv'
  BY <1>3 DEF WebhookDone, Conclude, stopVars
<1> HIDE DEF IInv
<1> QED
  BY <1>1, <1>2, <1>3 DEF Wait

\* Stop returns only when all workers have exited, and no exited worker revives.
LEMMA StopInv == IInv /\ Stop => IInv'
<1> SUFFICES ASSUME IInv, Stop PROVE IInv'
  OBVIOUS
<1> USE DispatchAssumption DEF DispatchAssumption, IInv, TypeOK, Placement, TakenOnce, Fresh,
    Dispatching, StopperBusy, ReplyAwaited, ClosedAfterDrain,
    Kinds, Answers, Callers, DbClosed, HasReply, Listening
<1>1. ASSUME StopFromMain PROVE IInv'
  BY <1>1 DEF StopFromMain, CallStop, httpVars
<1>2. ASSUME NEW w \in Workers, StopFromWorker(w) PROVE IInv'
  BY <1>2 DEF StopFromWorker, CallStop, httpVars
<1>3. ASSUME ParentCancelled PROVE IInv'
  BY <1>3 DEF ParentCancelled, httpVars
<1>4. ASSUME NEW c \in Callers, StopReturns(c) PROVE IInv'
  BY <1>4 DEF StopReturns, httpVars
<1>5. ASSUME ServerShutdown PROVE IInv'
  BY <1>5 DEF ServerShutdown, httpVars
<1> HIDE DEF IInv
<1> QED
  BY <1>1, <1>2, <1>3, <1>4, <1>5 DEF Stop

\* Every step of the request path keeps the inductive invariant.
LEMMA StepInv == IInv /\ [Next]_vars => IInv'
<1>1. ASSUME IInv, UNCHANGED vars PROVE IInv'
  BY <1>1 DEF vars, httpVars, stopVars, IInv, TypeOK, Placement, TakenOnce, Fresh,
    Dispatching, StopperBusy, ReplyAwaited, ClosedAfterDrain,
    DbClosed, HasReply, Listening
<1> QED
  BY <1>1, ArrivalsInv, AcceptInv, ReceiveInv, WorkInv, ReplyInv, WaitInv, StopInv DEF Next

\* The inductive invariant holds of every reachable state.
LEMMA Invariance == Spec => []IInv
<1>1. Init => IInv  BY InitInv
<1>2. IInv /\ [Next]_vars => IInv'  BY StepInv
<1> QED
  BY <1>1, <1>2, PTL DEF Spec

\* The variables keep their types: handlers, workers and timers stay in the
\* states the code's goroutines have.
THEOREM Typing == Spec => []TypeOK
<1>1. IInv => TypeOK  BY DEF IInv
<1> QED
  BY <1>1, Invariance, PTL

\* A request sits with the one worker it is registered to, and nothing hands it
\* out again.
THEOREM OneTaker == Spec => []TakenOnce
<1>1. IInv => TakenOnce  BY DEF IInv
<1> QED
  BY <1>1, Invariance, PTL

\* The receiver of a reply channel waits for its plugin's reply until it times
\* out: no second reply, no stranger's reply.
THEOREM RepliesAwaited == Spec => []ReplyAwaited
<1>1. IInv => ReplyAwaited  BY DEF IInv
<1> QED
  BY <1>1, Invariance, PTL

\* Bot.Stop closes the database only when no plugin goroutine runs any more.
THEOREM StopDrains == Spec => []ClosedAfterDrain
<1>1. IInv => ClosedAfterDrain  BY DEF IInv
<1> QED
  BY <1>1, Invariance, PTL

-----------------------------------------------------------------------------
\* No step brings a lost worker back or takes from handleEvents the request it
\* offers to one.
LEMMA LostStep == IInv /\ Next => StaysLost
<1> SUFFICES ASSUME IInv, Next PROVE StaysLost
  OBVIOUS
<1> USE DispatchAssumption DEF DispatchAssumption, IInv, TypeOK, Placement, TakenOnce, Fresh,
    Dispatching, StopperBusy, ReplyAwaited, ClosedAfterDrain,
    Kinds, Answers, Callers, DbClosed, HasReply, Listening,
    Dead, Stuck, Replying
<1>1. CASE Arrivals
  <2>1. ASSUME NEW r \in Requests, Refuse(r) PROVE StaysLost
    BY <2>1 DEF StaysLost, Refuse, Arriving, stopVars
  <2>2. ASSUME NEW r \in Requests, Drop(r) PROVE StaysLost
    BY <2>2 DEF StaysLost, Drop, Arriving, stopVars
  <2>3. ASSUME NEW r \in Requests, Offer(r) PROVE StaysLost
    BY <2>3 DEF StaysLost, Offer, Arriving, stopVars
  <2>4. ASSUME NEW r \in Requests, OfferMention(r) PROVE StaysLost
    BY <2>4 DEF StaysLost, OfferMention, Arriving, stopVars
  <2> QED
    BY <1>1, <2>1, <2>2, <2>3, <2>4 DEF Arrivals
<1>2. CASE Accept
  <2>1. ASSUME NEW r \in Requests, AcceptCommand(r) PROVE StaysLost
    BY <2>1 DEF StaysLost, AcceptCommand, Dispatched, stopVars
  <2>2. ASSUME NEW r \in Requests, AcceptInteraction(r) PROVE StaysLost
    BY <2>2 DEF StaysLost, AcceptInteraction, Dispatched, stopVars
  <2> QED
    BY <1>2, <2>1, <2>2 DEF Accept
<1>3. CASE Receive
  <2>1. ASSUME NEW w \in Workers, NEW r \in Requests, ReceiveDispatched(w, r) PROVE StaysLost
    BY <2>1 DEF StaysLost, ReceiveDispatched, Take, httpVars, stopVars
  <2>2. ASSUME NEW w \in Workers, NEW r \in Requests, ReceiveMention(w, r) PROVE StaysLost
    BY <2>2 DEF StaysLost, ReceiveMention, Take, stopVars
  <2>3. ASSUME NEW w \in Workers, NEW r \in Requests, ReceiveWebhook(w, r) PROVE StaysLost
    BY <2>3 DEF StaysLost, ReceiveWebhook, Take, stopVars
  <2> QED
    BY <1>3, <2>1, <2>2, <2>3 DEF Receive
<1>4. CASE Work
  <2>1. ASSUME NEW w \in Workers, NEW form \in {"replyText", "replyNil"}, StartReply(w, form) PROVE StaysLost
    BY <2>1 DEF StaysLost, StartReply, httpVars, stopVars
  <2>2. ASSUME NEW w \in Workers, SignalDone(w) PROVE StaysLost
    BY <2>2 DEF StaysLost, SignalDone, stopVars
  <2>3. ASSUME NEW w \in Workers, FinishSilently(w) PROVE StaysLost
    BY <2>3 DEF StaysLost, FinishSilently, httpVars, stopVars
  <2>4. ASSUME NEW w \in Workers, Continue(w) PROVE StaysLost
    BY <2>4 DEF StaysLost, Continue, httpVars, stopVars
  <2>5. ASSUME NEW w \in Workers, Quit(w) PROVE StaysLost
    BY <2>5 DEF StaysLost, Quit, Exited, httpVars, stopVars
  <2>6. ASSUME NEW w \in Workers, ExitCancelled(w) PROVE StaysLost
    BY <2>6 DEF StaysLost, ExitCancelled, Exited, httpVars, stopVars
  <2> QED
    BY <1>4, <2>1, <2>2, <2>3, <2>4, <2>5, <2>6 DEF Work
<1>5. CASE Reply
  <2>1. ASSUME NEW w \in Workers, ReplyInTime(w) PROVE StaysLost
    BY <2>1 DEF StaysLost, ReplyInTime, Replying, Conclude, stopVars
  <2>2. ASSUME NEW w \in Workers, ReplyLate(w) PROVE StaysLost
    BY <2>2 DEF StaysLost, ReplyLate, Replying, Conclude, LateOutcome, stopVars
  <2> QED
    BY <1>5, <2>1, <2>2 DEF Reply
<1>6. CASE Wait
  <2>1. ASSUME NEW r \in Requests, TimerFires(r) PROVE StaysLost
    BY <2>1 DEF StaysLost, TimerFires, stopVars
  <2>2. ASSUME NEW r \in Requests, GiveUp(r) PROVE StaysLost
    BY <2>2 DEF StaysLost, GiveUp, Conclude, stopVars
  <2>3. ASSUME NEW r \in Requests, WebhookDone(r) PROVE StaysLost
    BY <2>3 DEF StaysLost, WebhookDone, Conclude, stopVars
  <2> QED
    BY <1>6, <2>1, <2>2, <2>3 DEF Wait
<1>7. CASE Stop
  <2>1. ASSUME StopFromMain PROVE StaysLost
    BY <2>1 DEF StaysLost, StopFromMain, CallStop, httpVars
  <2>2. ASSUME NEW w \in Workers, StopFromWorker(w) PROVE StaysLost
    BY <2>2 DEF StaysLost, StopFromWorker, CallStop, httpVars
  <2>3. ASSUME ParentCancelled PROVE StaysLost
    BY <2>3 DEF StaysLost, ParentCancelled, httpVars
  <2>4. ASSUME NEW c \in Callers, StopReturns(c) PROVE StaysLost
    BY <2>4 DEF StaysLost, StopReturns, httpVars
  <2>5. ASSUME ServerShutdown PROVE StaysLost
    BY <2>5 DEF StaysLost, ServerShutdown, httpVars
  <2> QED
    BY <1>7, <2>1, <2>2, <2>3, <2>4, <2>5 DEF Stop
<1> QED
  BY <1>1, <1>2, <1>3, <1>4, <1>5, <1>6, <1>7 DEF Next

\* A worker lost to a late reply, to its own return or to a Stop it called never
\* receives again, and handleEvents is lost with it once it offers it a request.
THEOREM LostForGood == Spec => NoRecovery
<1>1. IInv /\ [Next]_vars => [StaysLost]_vars
  BY LostStep
<1> QED
  BY <1>1, Invariance, PTL DEF Spec, NoRecovery

-----------------------------------------------------------------------------
\* Who listens has a timer, and a mention that is sent on is for a worker.
TimersOK == \A r \in Requests :
    /\ Listening(r) => timer[r] \in {"running", "fired"}
    /\ handler[r] = "offering" /\ Kind[r] = "mention" => Target[r] # Nobody

\* Every step keeps that.
LEMMA TimersStep == IInv /\ TimersOK /\ [Next]_vars => TimersOK'
<1> SUFFICES ASSUME IInv, TimersOK, [Next]_vars PROVE TimersOK'
  OBVIOUS
<1> USE DispatchAssumption DEF DispatchAssumption, TimersOK, Listening
<1>0. /\ handler \in [Requests -> {"absent", "offering", "waiting", "returned"}]
      /\ responder \in [Requests -> {"none", "waiting", "gone"}]
      /\ timer \in [Requests -> {"off", "running", "fired", "stopped"}]
      /\ job \in [Workers -> Requests \cup {Nothing}]
      /\ \A w \in Workers : Replying(w) => job[w] \in Requests
      /\ \A r \in Requests : handler[r] = "waiting" => Kind[r] # "mention"
      /\ \A r \in Requests : Kind[r] \in Kinds
  BY DEF IInv, TypeOK, Placement, Replying, Fresh
<1>1. CASE Arrivals
  BY <1>0, <1>1 DEF Arrivals, Refuse, Drop, Offer, OfferMention, Arriving
<1>2. CASE Accept
  BY <1>0, <1>2 DEF Accept, AcceptCommand, AcceptInteraction
<1>3. CASE Receive
  BY <1>0, <1>3 DEF Receive, ReceiveDispatched, ReceiveMention, ReceiveWebhook, httpVars
<1>4. CASE Work \/ Stop \/ UNCHANGED vars
  BY <1>0, <1>4 DEF Work, StartReply, SignalDone, FinishSilently, Continue, Quit, ExitCancelled,
    Exited, Stop, StopFromMain, StopFromWorker, CallStop, ParentCancelled, StopReturns,
    ServerShutdown, vars, httpVars
<1>5. CASE Reply
  BY <1>0, <1>5 DEF Reply, ReplyInTime, ReplyLate, Conclude
<1>6. CASE Wait
  BY <1>0, <1>6 DEF Wait, TimerFires, GiveUp, WebhookDone, Conclude
<1> QED
  BY <1>1, <1>2, <1>3, <1>4, <1>5, <1>6 DEF Next

\* A worker goes on by itself or with the receiver of its reply, or is lost.
LEMMA GoesOnOrDead ==
    ASSUME IInv, TimersOK, NEW w \in Workers
    PROVE  GoesOn(w) \/ Dead(w)
<1>1. worker[w] \in {"idle", "handling", "replyText", "replyNil", "after", "exited"}
  BY DEF IInv, TypeOK
<1>2. CASE Replying(w)
  <2>1. job[w] \in Requests
    BY <1>2 DEF IInv, TypeOK, Placement, Replying
  <2> QED
    BY <1>2, <2>1 DEF GoesOn, Dead, Stuck, TimersOK
<1>3. CASE ~Replying(w)
  BY <1>1, <1>3 DEF GoesOn, Dead, Replying
<1> QED
  BY <1>2, <1>3

\* Whoever waits in the request path has a timer to leave by, or waits for a worker
\* that is there and goes on or is lost (webhooks.go, bot.go handleEvents).
THEOREM OnlyLostBlockAlways == Spec => []OnlyLostBlock
<1>1. Init => TimersOK
  BY DEF Init, TimersOK, Listening
<1>2. IInv /\ TimersOK => OnlyLostBlock
  <2> SUFFICES ASSUME IInv, TimersOK PROVE OnlyLostBlock
    OBVIOUS
  <2>1. ASSUME NEW r \in Requests,
               \/ dispatcher = r
               \/ handler[r] = "offering" /\ Kind[r] \in {"webhook", "mention"}
        PROVE  Target[r] \in Workers
    <3>1. Target[r] # Nobody
      BY <2>1, DispatchAssumption DEF IInv, Dispatching, Fresh, TimersOK
    <3> QED
      BY <3>1, DispatchAssumption
  <2>2. \A w \in Awaited : w \in Workers
    BY <2>1 DEF Awaited
  <2> QED
    BY <2>2, GoesOnOrDead DEF OnlyLostBlock, TimersOK
<1> QED
  BY <1>1, <1>2, TimersStep, Invariance, PTL DEF Spec

-----------------------------------------------------------------------------
\* The initial states map to PluginService's.
LEMMA ServiceInit == Init => Service!Init
BY DEF Init, Service!Init, Served, Outcome, Answered

\* A reply settles the outcome of its own request and no other.
LEMMA SettledAnswered ==
    ASSUME NEW r \in Requests, NEW a \in Answers, answer \in [Requests -> Answers],
           answer' = [answer EXCEPT ![r] = a],
           \/ a \in {"reply", "posted"}
           \/ a = "ack" /\ Kind[r] # "interaction"
    PROVE  Outcome' = [Outcome EXCEPT ![r] = "answered"]
BY DEF Outcome, Answered

\* So does every other end of a request.
LEMMA SettledUnanswered ==
    ASSUME NEW r \in Requests, NEW a \in Answers, answer \in [Requests -> Answers],
           answer' = [answer EXCEPT ![r] = a],
           \/ a \in {"refused", "dropped", "aborted", "timeout"}
           \/ a = "ack" /\ Kind[r] = "interaction"
    PROVE  Outcome' = [Outcome EXCEPT ![r] = "unanswered"]
<1>1. ~Answered(r)' /\ answer'[r] # "none"
  BY DEF Answered
<1>2. \A q \in Requests \ {r} : answer'[q] = answer[q] /\ (Answered(q)' <=> Answered(q))
  BY DEF Answered
<1> QED
  BY <1>1, <1>2 DEF Outcome

\* What PluginService sees.
Seen == <<job, Served, Outcome>>

\* A request that is refused, dropped, acknowledged early or timed out is given
\* up; its plugin's taking and releasing it and its reply map to their own steps;
\* every other step stutters.
LEMMA ServiceStep == IInv /\ [Next]_vars => [Service!Next]_Seen
<1> SUFFICES ASSUME IInv, [Next]_vars PROVE [Service!Next]_Seen
  OBVIOUS
<1> DEFINE Stutter == UNCHANGED Seen
<1> USE DispatchAssumption DEF DispatchAssumption, IInv, TypeOK, Placement, TakenOnce, Fresh,
    Dispatching, StopperBusy, ReplyAwaited, Kinds, Answers, HasReply, Listening
<1>1. ASSUME NEW r \in Requests, Refuse(r) PROVE Service!GiveUp(r)
  <2>1. Outcome[r] = "open" /\ Served' = Served /\ UNCHANGED job
    BY <1>1 DEF Refuse, Arriving, stopVars,
      Served, Outcome
  <2>2. answer' = [answer EXCEPT ![r] = "refused"]
    BY <1>1 DEF Refuse
  <2>3. Outcome' = [Outcome EXCEPT ![r] = "unanswered"]
    BY <2>2, SettledUnanswered
  <2> QED
    BY <2>1, <2>3 DEF Service!GiveUp
<1>2. ASSUME NEW r \in Requests, Drop(r) PROVE Service!GiveUp(r)
  <2>1. Outcome[r] = "open" /\ Served' = Served /\ UNCHANGED job
    BY <1>2 DEF Drop, Arriving, stopVars,
      Served, Outcome
  <2>2. answer' = [answer EXCEPT ![r] = "dropped"]
    BY <1>2 DEF Drop
  <2>3. Outcome' = [Outcome EXCEPT ![r] = "unanswered"]
    BY <2>2, SettledUnanswered
  <2> QED
    BY <2>1, <2>3 DEF Service!GiveUp
<1>3. ASSUME NEW r \in Requests, Offer(r) PROVE UNCHANGED Seen
  BY <1>3 DEF Offer, Arriving, stopVars,
    Seen, Served, Outcome, Answered
<1>4. ASSUME NEW r \in Requests, OfferMention(r) PROVE UNCHANGED Seen
  BY <1>4 DEF OfferMention, Arriving, stopVars,
    Seen, Served, Outcome, Answered
<1>5. ASSUME NEW r \in Requests, AcceptCommand(r) PROVE UNCHANGED Seen
  BY <1>5 DEF AcceptCommand, Dispatched, stopVars,
    Seen, Served, Outcome, Answered
<1>6. ASSUME NEW r \in Requests, AcceptInteraction(r) PROVE Service!GiveUp(r)
  <2>1. Outcome[r] = "open" /\ Served' = Served /\ UNCHANGED job
    BY <1>6 DEF AcceptInteraction, Dispatched, stopVars,
      Served, Outcome
  <2>2. answer' = [answer EXCEPT ![r] = "ack"] /\ Kind[r] = "interaction"
    BY <1>6 DEF AcceptInteraction
  <2>3. Outcome' = [Outcome EXCEPT ![r] = "unanswered"]
    BY <2>2, SettledUnanswered
  <2> QED
    BY <2>1, <2>3 DEF Service!GiveUp
<1>7. ASSUME NEW w \in Workers, NEW r \in Requests, ReceiveDispatched(w, r) PROVE Service!Take(w, r)
  BY <1>7 DEF ReceiveDispatched, Take, httpVars, stopVars,
    Service!Take, Served, Outcome, Answered
<1>8. ASSUME NEW w \in Workers, NEW r \in Requests, ReceiveMention(w, r) PROVE Service!Take(w, r)
  BY <1>8 DEF ReceiveMention, Take, stopVars,
    Service!Take, Served, Outcome, Answered
<1>9. ASSUME NEW w \in Workers, NEW r \in Requests, ReceiveWebhook(w, r) PROVE Service!Take(w, r)
  BY <1>9 DEF ReceiveWebhook, Take, stopVars,
    Service!Take, Served, Outcome, Answered
<1>10. ASSUME NEW w \in Workers, NEW form \in {"replyText", "replyNil"}, StartReply(w, form) PROVE UNCHANGED Seen
  BY <1>10 DEF StartReply, httpVars, stopVars,
    Seen, Served, Outcome, Answered
<1>11. ASSUME NEW w \in Workers, SignalDone(w) PROVE UNCHANGED Seen
  BY <1>11 DEF SignalDone, stopVars,
    Seen, Served, Outcome, Answered
<1>12. ASSUME NEW w \in Workers, FinishSilently(w) PROVE UNCHANGED Seen
  BY <1>12 DEF FinishSilently, httpVars, stopVars,
    Seen, Served, Outcome, Answered
<1>13. ASSUME NEW w \in Workers, Continue(w) PROVE Service!Release(w)
  BY <1>13 DEF Continue, httpVars, stopVars,
    Service!Release, Served, Outcome, Answered
<1>14. ASSUME NEW w \in Workers, Quit(w) PROVE Service!Release(w)
  BY <1>14 DEF Quit, Exited, httpVars, stopVars,
    Service!Release, Served, Outcome, Answered
<1>15. ASSUME NEW w \in Workers, ExitCancelled(w) PROVE UNCHANGED Seen
  BY <1>15 DEF ExitCancelled, Exited, httpVars, stopVars,
    Seen, Served, Outcome, Answered
<1>16. ASSUME NEW w \in Workers, ReplyInTime(w) PROVE Service!Answer(job[w])
  <2>1. /\ job[w] \in Requests /\ Outcome[job[w]] = "open" /\ job[w] \in Served
        /\ Served' = Served /\ UNCHANGED job
    BY <1>16 DEF ReplyInTime, Replying, Conclude, stopVars,
      Served, Outcome
  <2>2. PICK a \in {"ack", "reply"} : answer' = [answer EXCEPT ![job[w]] = a]
    BY <1>16 DEF ReplyInTime, Conclude
  <2>3. Kind[job[w]] # "interaction"
    BY <1>16 DEF ReplyInTime, Replying
  <2>4. Outcome' = [Outcome EXCEPT ![job[w]] = "answered"]
    BY <2>1, <2>2, <2>3, SettledAnswered
  <2> QED
    BY <2>1, <2>4 DEF Service!Answer
<1>17. ASSUME NEW w \in Workers, ReplyLate(w) PROVE Service!Answer(job[w]) \/ Service!GiveUp(job[w])
  <2>1. /\ job[w] \in Requests /\ Outcome[job[w]] = "open" /\ job[w] \in Served
        /\ Served' = Served /\ UNCHANGED job
    BY <1>17 DEF ReplyLate, Replying, Conclude, LateOutcome, stopVars,
      Served, Outcome
  <2>2. PICK a \in {"ack", "aborted", "reply", "posted"} : answer' = [answer EXCEPT ![job[w]] = a]
    BY <1>17 DEF ReplyLate, Conclude, LateOutcome
  <2>3. \E o \in {"answered", "unanswered"} : Outcome' = [Outcome EXCEPT ![job[w]] = o]
    BY <2>1, <2>2, SettledAnswered, SettledUnanswered
  <2> QED
    BY <2>1, <2>3 DEF Service!Answer, Service!GiveUp
<1>18. ASSUME NEW r \in Requests, TimerFires(r) PROVE UNCHANGED Seen
  BY <1>18 DEF TimerFires, stopVars,
    Seen, Served, Outcome, Answered
<1>19. ASSUME NEW r \in Requests, GiveUp(r) PROVE Service!GiveUp(r)
  <2>1. Outcome[r] = "open" /\ Served' = Served /\ UNCHANGED job
    BY <1>19 DEF GiveUp, Conclude, stopVars,
      Served, Outcome
  <2>2. answer' = [answer EXCEPT ![r] = "timeout"]
    BY <1>19 DEF GiveUp, Conclude
  <2>3. Outcome' = [Outcome EXCEPT ![r] = "unanswered"]
    BY <2>2, SettledUnanswered
  <2> QED
    BY <2>1, <2>3 DEF Service!GiveUp
<1>20. ASSUME NEW r \in Requests, WebhookDone(r) PROVE Service!Answer(r)
  <2>1. Outcome[r] = "open" /\ Served' = Served /\ UNCHANGED job /\ r \in Served
    BY <1>20 DEF WebhookDone, Conclude, stopVars,
      Served, Outcome
  <2>2. answer' = [answer EXCEPT ![r] = "reply"]
    BY <1>20 DEF WebhookDone, Conclude
  <2>3. Outcome' = [Outcome EXCEPT ![r] = "answered"]
    BY <2>2, SettledAnswered
  <2> QED
    BY <2>1, <2>3 DEF Service!Answer
<1>21. ASSUME StopFromMain PROVE UNCHANGED Seen
  BY <1>21 DEF StopFromMain, CallStop, httpVars,
    Seen, Served, Outcome, Answered
<1>22. ASSUME NEW w \in Workers, StopFromWorker(w) PROVE UNCHANGED Seen
  BY <1>22 DEF StopFromWorker, CallStop, httpVars,
    Seen, Served, Outcome, Answered
<1>23. ASSUME ParentCancelled PROVE UNCHANGED Seen
  BY <1>23 DEF ParentCancelled, httpVars,
    Seen, Served, Outcome, Answered
<1>24. ASSUME NEW c \in Callers, StopReturns(c) PROVE UNCHANGED Seen
  BY <1>24 DEF StopReturns, httpVars,
    Seen, Served, Outcome, Answered
<1>25. ASSUME ServerShutdown PROVE UNCHANGED Seen
  BY <1>25 DEF ServerShutdown, httpVars,
    Seen, Served, Outcome, Answered
<1>26. CASE UNCHANGED vars
  BY <1>26 DEF vars, httpVars, stopVars, Seen, Served, Outcome, Answered
<1> HIDE DEF IInv, TypeOK, Seen
<1>27. ASSUME NEW w \in Workers, ReplyInTime(w) \/ ReplyLate(w) PROVE job[w] \in Requests
  BY <1>27 DEF IInv, TypeOK, Placement, Replying, ReplyInTime, ReplyLate
<1> QED
  BY <1>1, <1>2, <1>3, <1>4, <1>5, <1>6, <1>7, <1>8, <1>9, <1>10, <1>11, <1>12, <1>13, <1>14, <1>15, <1>16, <1>17, <1>18, <1>19, <1>20, <1>21, <1>22, <1>23, <1>24, <1>25, <1>26, <1>27
  DEF Next, Arrivals, Accept, Receive, Work, Reply, Wait, Stop, Service!Next

\* The handlers, handleEvents, the workers and the timers implement
\* PluginService: at most one delivery, to the right plugin, and one outcome.
THEOREM Refinement == Spec => ImplementsService
<1>1. Init => Service!Init  BY ServiceInit
<1>2. IInv /\ [Next]_vars => [Service!Next]_Seen  BY ServiceStep
<1> QED
  BY <1>1, <1>2, Invariance, PTL DEF Spec, ImplementsService, Service!Spec, Seen

=============================================================================
