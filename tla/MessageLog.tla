----------------------------- MODULE MessageLog -----------------------------
(***************************************************************************)
(* What plugins see of a channel's past: GetMessageLog and GetMessage      *)
(* (message_log.go) over Slack's conversations.history, with people and    *)
(* bots posting and deleting between the calls.                            *)
(*                                                                         *)
(* Slack counts time in seconds; a message is told by when it was posted.  *)
(* The state's own operators are called LogInit, LogNext and so on: one    *)
(* module holds the proofs about them and about Directory.                 *)
(***************************************************************************)
EXTENDS Naturals, Sequences, SequencesExt

CONSTANTS
    Epoch,      \* the time when the channel was made
    Seconds,    \* bound: how long the channel is looked at
    Page,       \* how many messages Slack returns at most when no limit is set
    Kinds,      \* messages told apart: [subtype, attached, threaded]
    NoMessage,  \* the zero slack.Message
    MaxCount, MaxPeriod     \* bounds of the options

Now == Epoch..(Epoch + Seconds)
Messages == [ts : Now, kind : Kinds]
Options == [includeBots : BOOLEAN, count : 0..MaxCount,
            period : 0..MaxPeriod, skipAttachments : BOOLEAN]

ASSUME MessageLogAssumption ==
    /\ Epoch \in Nat /\ Seconds \in Nat /\ MaxCount \in Nat /\ MaxPeriod \in Nat
    /\ 2 * MaxPeriod <= Epoch
    /\ NoMessage \notin Messages
    /\ Page \in Nat \ {0}
    /\ Kinds \subseteq [subtype : {"", "bot_message", "channel_join"},
                        attached : BOOLEAN, threaded : BOOLEAN]

VARIABLES
    now,        \* the time
    channel,    \* its messages, newest first
    answer      \* what the call just made returned

logVars == <<now, channel, answer>>

NoAnswer == [call |-> "none"]

LogTypeOK ==
    /\ now \in Now
    /\ channel \in Seq(Messages)
    /\ \/ answer = NoAnswer
       \/ answer.call = "log" /\ answer.opts \in Options /\ answer.msgs \in Seq(Messages)
       \/ answer.call = "message" /\ answer.ts \in Now /\ answer.msg \in Messages \cup {NoMessage}

LogInit == now = Epoch /\ channel = <<>> /\ answer = NoAnswer

-----------------------------------------------------------------------------
\* The elements of s that are in S, in their order: entry i is what is kept of
\* the first i.
Kept(s, S) ==
    LET kept[i \in 0..Len(s)] ==
            IF i = 0 THEN <<>>
            ELSE IF s[i] \in S THEN Append(kept[i - 1], s[i]) ELSE kept[i - 1]
    IN  kept

Among(s, S) == Kept(s, S)[Len(s)]

-----------------------------------------------------------------------------
(* Slack                                                                   *)

\* conversations.history: the newest messages that are newer than oldest and no
\* newer than latest; a page of them when there is no limit.  What is said in a
\* thread is not part of it.
History(limit, oldest, latest) ==
    LET shown == Among(channel,
            {m \in Messages : ~m.kind.threaded /\ m.ts > oldest /\ m.ts <= latest})
        n == IF limit = 0 THEN Page ELSE limit
    IN  SubSeq(shown, 1, IF Len(shown) < n THEN Len(shown) ELSE n)

Pass ==
    /\ now + 1 \in Now
    /\ now' = now + 1
    /\ answer' = NoAnswer
    /\ UNCHANGED channel

Post(k) ==
    /\ now + 1 \in Now
    /\ now' = now + 1
    /\ channel' = <<[ts |-> now + 1, kind |-> k]>> \o channel
    /\ answer' = NoAnswer

Delete(i) ==
    /\ channel' = RemoveAt(channel, i)
    /\ answer' = NoAnswer
    /\ UNCHANGED now

-----------------------------------------------------------------------------
(* The bot                                                                 *)

\* Params.Oldest: the start of the period in milliseconds, which Slack reads as
\* seconds.
Oldest(opts) == IF opts.period = 0 THEN 0 ELSE (now - opts.period) * 1000

\* Variant: a message is passed on when any of the filters lets it through.
ListedByAny(opts, m) ==
    \/ opts.includeBots /\ m.kind.subtype = "bot_message"
    \/ ~(opts.skipAttachments /\ m.kind.attached) /\ m.kind.subtype = ""

Listed(opts, m) ==
    /\ opts.includeBots \/ m.kind.subtype # "bot_message"
    /\ ~(opts.skipAttachments /\ m.kind.attached)
    /\ m.kind.subtype = ""

\* Variant: a skipped message leaves a hole.
LogWithHoles(opts) ==
    LET h == History(opts.count, Oldest(opts), now)
    IN  [i \in DOMAIN h |-> IF Listed(opts, h[i]) THEN h[i] ELSE NoMessage]

Log(opts) ==
    Among(History(opts.count, Oldest(opts), now), {m \in Messages : Listed(opts, m)})

\* Variant: a second message is asked for, and the last one taken.
SecondMessage(ts) ==
    LET h == History(2, 0, ts) IN IF h = <<>> THEN NoMessage ELSE Last(h)

\* Calls that fail change nothing and are left out.
\*
\* The newest message that is not newer than ts; an empty one if there is none.
Message(ts) ==
    LET h == History(1, 0, ts) IN IF Len(h) # 1 THEN NoMessage ELSE h[1]

GetMessageLog(opts) ==
    /\ answer' = [call |-> "log", opts |-> opts, msgs |-> Log(opts)]
    /\ UNCHANGED <<now, channel>>

GetMessage(ts) ==
    /\ answer' = [call |-> "message", ts |-> ts, msg |-> Message(ts)]
    /\ UNCHANGED <<now, channel>>

LogNext ==
    \/ Pass
    \/ \E k \in Kinds : Post(k)
    \/ \E i \in DOMAIN channel : Delete(i)
    \/ \E opts \in Options : GetMessageLog(opts)
    \/ \E ts \in Now : GetMessage(ts)

LogSpec == LogInit /\ [][LogNext]_logVars

-----------------------------------------------------------------------------
\* A comic strip is drawn from a log read backwards (comics.go:118, the one caller): a
\* log without a period is in the channel's order, and it misses nothing said between
\* two of its messages except what has a subtype, or an attachment when these are
\* to be skipped.
Conversation ==
    answer.call = "log" /\ answer.opts.period = 0 =>
        LET logged == ToSet(answer.msgs)
            skipped(m) == \/ m.kind.subtype # ""
                          \/ answer.opts.skipAttachments /\ m.kind.attached
        IN  /\ \A i, j \in DOMAIN answer.msgs : i < j => answer.msgs[i].ts > answer.msgs[j].ts
            /\ logged \subseteq ToSet(channel)
            /\ \A m \in logged : ~skipped(m)
            /\ \A m \in ToSet(channel) \ logged :
                  (\E l \in logged : l.ts < m.ts) => m.kind.threaded \/ skipped(m)

\* What becomes of the options that MessageLotOpts documents and the code does not
\* serve: "include messages from bots" (message_log.go:13) includes none, and "the
\* amount of time to look backwards" (:17) leaves nothing to look at, whatever has
\* been posted and however long ago.
NeitherBotsNorPeriod ==
    answer.call = "log" =>
        /\ \A m \in ToSet(answer.msgs) : m.kind.subtype # "bot_message"
        /\ answer.opts.period # 0 => answer.msgs = <<>>

\* What a reaction is about (gifs): the message posted at that time, or the last
\* one before it when that one is gone or was said in a thread.
AtOrBefore ==
    answer.call = "message" =>
        LET before == {m \in ToSet(channel) : m.ts <= answer.ts /\ ~m.kind.threaded}
        IN  IF before = {} THEN answer.msg = NoMessage
            ELSE answer.msg \in before /\ \A m \in before : m.ts <= answer.msg.ts

\* Asking for more messages adds older ones: a log with a larger count has all that
\* the one with the smaller count has, and what it has besides was posted before.
MoreIsOlder ==
    \A few, many \in Options :
        few.count # 0 /\ few.count <= many.count /\ many = [few EXCEPT !.count = many.count] =>
            LET less == ToSet(Log(few))
                more == ToSet(Log(many))
            IN  less \subseteq more /\ \A m \in more \ less, l \in less : m.ts < l.ts
=============================================================================
