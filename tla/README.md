# A TLA+ verification of quadlek

quadlek is a Slack bot written in Go: a library (`quadlek/`) that serves Slack's
HTTP requests and hands them to plugins, and a dozen plugins (`plugins/`). This
directory holds TLA+ models of it, TLC configurations that check them on small
instances, and TLAPS proofs of the properties that matter most for every
instance. Paths below are relative to the repository.

Contents: [inventory](#the-system), [modules](#modules), [runs](#runs),
[what the runs found](#what-the-code-does-not-keep), [fairness](#fairness),
[proofs](#proofs), [what is left out](#not-modelled), [plan](#plan).

## The system

| Component | State it keeps | Operations | Talks to |
|---|---|---|---|
| HTTP handlers (`webhooks.go`, `events.go`) | per request: a reply channel, a timer (2.5s; 5s for webhooks), a `Done` channel | slash command, interaction, plugin webhook, event | `handleEvents` and webhook plugins over unbuffered channels |
| `handleEvents` (`bot.go:204`) | what it is sending | takes a command or an interaction, looks it up, sends it to the plugin | one goroutine, blocking sends |
| Registry (`plugins.go:446`) | maps of commands, webhooks, interactions; slices of hooks; wait group | `RegisterPlugin`, the `Get...` lookups | buckets in the store; starts the plugins' goroutines |
| Plugin goroutines | per command, hook, webhook: where it is in its loop | receive, reply, work, return on cancel | reply channels, store, Slack and other services |
| `Stop` (`bot.go:234`) | context, wait group, database | cancel, wait, close | every plugin goroutine, the HTTP server |
| Events (`events.go`, `dispatchHooks`) | the bot's own id | message, mention, reaction | hooks, one after another |
| Directory (`bot.go:137`, `GetChannel` to `GetUserName`) | channels by id and by name, users by id and by name | `initInfo`, once per start; the getters | Slack's lists; mentions, hooks, the twitter plugin |
| Store (`store.go`) | one bolt bucket per plugin id; bolt's three locks | `Get` (a read transaction), `Update`, `UpdateRaw`, `GetAndUpdate`, `ForEach` (write transactions, `ForEach` too) | bolt: one writer, many readers, rollback on error; plugins call services and reply inside |
| Message log (`message_log.go`) | none | `GetMessageLog`, `GetMessage` | Slack's history; used by comics and gifs |
| infobot | facts in memory, and whole under one key | set, forget, look up, load at start | hook, store |
| gifs | aliases (allowed and blocked replies of a phrase), the phrase each gif was fetched for, a migration note | `/g`, `/gsave`, `/glist`, reactions, migration at load | store, giphy |
| spotify, github | auth states, tokens | `authFlow` (a link for a user without a token), the authorize webhook (code for token), song hook | store, provider, the user's browser |
| comics, karma | template list; scores | load, list, delete, render; `++`, `--`, `/score` | store, message log |
| random, echo, nextep, eslogs, twitter, admin | nothing in the store | one command or hook each; admin calls `Stop` | Slack, other services |

How they interact, and what is hard about it:

* **Every channel is unbuffered** (but a webhook's `Done`, which has room for
  one). A send whose receiver has left never ends. Handlers leave on a timer, so
  a reply that comes later than 2.5s has no receiver.
* **One goroutine dispatches** all commands and interactions with blocking sends:
  one plugin that no longer receives stops all of them. Mentions and webhooks go
  to the plugins' channels directly, beside it.
* **Stop waits for the plugins' goroutines** and may be called by one of them.
* **Messages go to the hooks in turn**, by as many handlers as there are messages
  under way; Slack repeats what was not answered; a crash may come between two
  hooks.
* **The server is up before the bot knows its own id**, channels and users.
* **Store calls are atomic, sequences of them are not**: `/g` is two, the gifs
  migration is two, infobot's change is in memory first. Errors roll back, and
  several callers ignore them.
* **Plugins do slow things inside a transaction**: `nowplaying` replies inside a
  write transaction and `/g` inside a read transaction, so that a late reply never
  lets bolt's locks go; authorisation shows links, exchanges codes and tells users
  before it commits, so that a rollback undoes what others have already seen.
* **What Slack knows is copied once per start**, page by page, while it changes.

What makes each component correct is stated as the properties listed under
[Runs](#runs); `PROJECT.json` lists the hazards they are for, each at its line,
and those no property covers yet.

## Modules

| Module | Models | Notes |
|---|---|---|
| `Dispatch` | request path: HTTP handlers, mentions, `handleEvents`, plugin goroutines, timers, `Stop` | a rendezvous on an unbuffered channel is one step; a blocked sender is a state |
| `PluginService` | what that path promises, seen from outside | abstract; `Dispatch` implements it |
| `Events` | deliveries of messages to the hooks, start-up filter, crashes, repeats | |
| `Registry` | `RegisterPlugin`, step by step, with `Stop` meanwhile | |
| `StoreTx` | the transactions of several plugins on one database, with bolt's locks | composes what the plugins do inside transactions with the late replies of `Dispatch` and with `Stop` |
| `StoreData` | the same transactions with what each of them sees and stores | extends `StoreTx`; detailed |
| `AtomicStore` | what `store.go` promises to plugins: an update is one step | abstract; `StoreData` implements it |
| `Auth` | spotify's and github's authorisation: links, states, consents, tokens, rollbacks, crashes | detailed |
| `Login` | what authorisation promises, seen from outside | abstract; `Auth` implements it |
| `Directory` | `initInfo` and the getters, while channels and users change | |
| `Infobot` | the fact store in memory and on disk | |
| `Gifs` | aliases, reactions, the two transactions of `/g`, the migration | |
| `MessageLog` | `GetMessageLog`, `GetMessage` over a channel that changes | |
| `MC...` | the constants of the runs | |
| `..._proof` | theorems and proofs of `Dispatch`, `Infobot`, `StoreTx`, `Auth`, `Gifs`, `Registry`, `Events` |
| `Slack_proof` | the same of `Directory` and `MessageLog`, the two components that keep or ask what Slack knows | | |

How state and actions correspond to the code:

**Dispatch.** `handler[r]` is the goroutine net/http runs for request `r`:
`offering` is the blocking send at `webhooks.go:104`, `:169`, `:190` or
`events.go:126`, `waiting` the select at `:107` or `:192`. `responder[r]` is the
goroutine of `events.go:97` that awaits a mention's reply. `dispatcher` is what
`handleEvents` is sending. `worker[w]` is where plugin goroutine `w` is:
`handling` before it replies, `replyText`/`replyNil` in the blocking send of its
reply, `after` in what follows it, `exited` when its run function has returned.
`timer[r]` tells a running timer from one that fired and one `Stop` stopped.
Which goroutine a request is for is the constant `Target`, the registry's answer.
What a reply says is left out; that it may be nil is not.

**Events.** A delivery `<<m, k>>` is the k-th time Slack sends message `m`. Its
handler walks `Order`, the hooks as registered (`dispatchHooks`); `Hear` is one
rendezvous. `Restart` loses every goroutine and forgets `botId`. Slack's repeats are
deliveries of their own, for nothing in the code recognises them.

**Registry.** One action for each step of `RegisterPlugin` that another goroutine
can see: bucket, load, map entry, `wg.Add`, `go`. The goroutines return once the
context is cancelled, by `Stop` or, which calls nothing else, by whoever gave the bot
its context (`ParentCancelled`); but for those that hang (`Hang`): in a late reply
(`Dispatch`'s stuck workers) or, as admin's, in `Stop` itself.

**Infobot.** `Change`, `Save`, `Respond` are the three steps of a message;
`Load` what the plugin's load function leaves in memory. An empty fact map
marshals to no bytes, which bolt returns as a non-nil empty value and
unmarshalling turns into a nil map: `hasMap`.

**Gifs.** `Ask` opens the read transaction of `/g`, `Give...` replies inside it,
`Remember` is the second transaction. What reactions and `/gsave` change while giphy is
asked, `/g` does not see: `since` keeps it apart. `Migrate` and `Mark` are the two
transactions of `gifLoad`. A list of replies is a set, for `diffAppendReply`
keeps one reply per URL and no order.

**StoreTx.** `pc[c]` is where plugin goroutine `c` is in its current
transaction; who holds which of bolt's locks follows from it (`HoldsRwlock`,
`HoldsMetalock`, `Reading`, `Remapping`), as bolt's `db.go` and `tx.go` take and
release them. `Script[c]` is what one message makes a plugin do: `nowplaying`
replies inside a write transaction, `/g` inside the read transaction that a write
follows, both after asking a service there, karma writes, spotify's hook and `/comic`
call a service inside a read transaction. `Grow` is the commit that maps a larger file and waits for every
reader. What `Dispatch` has as a lost worker is `Stuck` here. `StoreData` gives each
of these transactions a copy of what the last commit left (`TakeSnapshot`, bolt's
`Tx.init`, which copies the page all others are reached from); a commit puts what the
function made of that copy in its place (`Publish`), a rollback drops it. What a
plugin's function may make of what it finds is the constant `Makes`: nothing, when the
function returns an error.

**Auth.** Everything between the begin and the commit of a write transaction has
`tx` set, and nothing else happens in the store then (that is `Exclusion` of
`StoreTx`). What the outside world sees meanwhile is separate state: `shown` the
links users have, `spent` the codes the service has taken, `fate` what the user
heard. `RollBack` undoes the one and not the other. A message to the user goes to the
response URL that the slash command came with (`addressed`); it may get lost, and a
mention has none, so that `Heard` is the message or nothing, or nothing at all.
spotify looks at no error of such a message, github rolls back. `service` chooses
between the two plugins; the guards say where they differ.

**Directory.** `name` and `members` are Slack's, and change at any time.
`ListPage` is one round of `initInfo`'s loop; Slack may give any page of channels
not yet listed, and ends the list only when all that was there at the start of it
has been given. An error, a crash and Go's reaction to an unlocked map are one
action, `Die`.

**MessageLog.** `History` is Slack's `conversations.history`, taken from its use;
`Among` is the loop over what it returned, with `Listed` for the loop's conditions.
Time is in the steps of `Post` and `Pass`; a call sees the channel as it is then, and
anything may be posted or deleted before the next one. The operators have names of
their own (`LogInit`, `LogNext`, `LogSpec`), for `Slack_proof` extends `Directory` too.

Definitions commented *Variant* are plausible mistakes in the definition that
follows them. No specification uses them; each property was seen to fail when
one of them takes the place of the original (`mutants` in `PROJECT.json`).

## Runs

| Run | Question | Instance and why it is enough |
|---|---|---|
| `dispatch_slack` | Are requests taken once, replies awaited, Stop's wait sound, and does the path implement `PluginService`? | two commands and a mention for one worker, which may quit, and an interaction for another, which may call Stop: queueing, all timer races, a mention beside `handleEvents`, two callers of Stop |
| `dispatch_live` | Is there any other hang than a lost worker; do handlers return, does Stop? | a command, a webhook, and an interaction and a webhook nobody registered; the command's worker may quit and may call Stop. Each kind of wait meets each kind of loss: `handleEvents` and a webhook's handler in front of a worker that is stuck, has returned or is in Stop |
| `events` | Does every hook hear every answered message, one hook as often as another, in order; is every delivery answered? | a person's message delivered up to twice, the bot's own once, two hooks, crashes at any point: repeats, two messages under way and a hook that hangs while others wait |
| `registry` | What is registered after errors and duplicates; is Stop's count right, and does its wait end but for goroutines that hang? | three plugins in any order, two want one command name, every kind of entry but reaction hooks and interactions, which are treated like hooks and commands; a context cancelled with or without Stop, any goroutines hanging |
| `infobot` | Are confirmed facts durable and answered, and is nothing lost by the panic on an emptied store? | three names, two values; a third name makes one fact's change a bystander to two others |
| `gifs` | Is anything credited to the wrong phrase, overlooked or lost? | two phrases, one of version 1; two gifs; any number of crashes; a `/g` beside reactions and `/gsave` |
| `message_log` | Is a log a stretch of the channel, and what do its options do? | all options, up to four messages of five kinds, pages of three, counts to three, periods to two |
| `store` | Do bolt's locks deadlock; what does a late reply inside a transaction do to the others; what else can hold a goroutine up; is a plugin's update ever lost? | four goroutines: a write with a call and a reply, a read with a call and a reply and then a write, a write, a read with a call. Each lock has two kinds of waiters, and every pair of them meets. What is stored is a thing that two plugins would take if it is free: who reads before the other has stored and stores after it makes an update lost |
| `auth` | Is a login the user's own, is what users hear true, what do rollbacks leave? | two users, two links, two consents at either service: links of two users and two of one, with and without an address, consents that race, repeat, or come late |
| `directory` | Is anything missed, or filed under a wrong name? | three public channels on pages of two and a private one, three names, a user: a rename or a new channel between pages, two channels listed under one name |
| `stop_from_plugin` | Does Stop do what its comment says when a plugin calls it? (no) | one interaction and its plugin |
| `own_messages` | Are the bot's own messages ignored, as a comment says? (not before its id is known) | as `events` |

`CHECK_DEADLOCK FALSE` is set where the system really stops: in Dispatch every
request is one-shot and a stopped bot does nothing; in Registry everything may be
registered and stopped; in StoreTx the bot may be stopped; in Auth every link and
consent may be used up. Bounds: `Attempts` (deliveries of a message in `Events`),
`Seconds`, `MaxCount` and `MaxPeriod` in `MessageLog`, `Contents` and `Makes` in `StoreData`, `Services` in `Auth` (which
of the two plugins). Everything else is finite by its constants. Symmetry is used
in `infobot` and `auth`, which check no liveness.

Type invariants are proved for every instance (`Typing`, `DataTyping` and `LogTyping`)
and left out of the runs; the same goes for the properties marked *proved* below. The
others are checked by the runs; all invariants, action properties and refinements among
them are proved as well, and liveness properties are not.

The properties, in the terms of the code:

* `TakenOnce` - a request a plugin works on is its own, and no longer in anybody's
  send. `ReplyAwaited` - while a plugin owes a reply, its receiver is in its
  select or has timed out. `ClosedAfterDrain` - the database is closed under no
  plugin. `NoRecovery` - a lost worker, and `handleEvents` once it offers to it,
  are lost for good. `ImplementsService` - refinement of `PluginService`.
* `AcceptedReturns`, `NoOtherHang`, `StopCompletes` - handlers return; nothing
  hangs but for a lost worker; Stop returns but for a worker stuck on a late reply
  or inside Stop. `OnlyLostBlock` (proved) - what the first two come to at one moment:
  who listens has a timer, who sends has a worker that goes on or is lost.
* `AnsweredIsHeard`, `HeardAlike`, `InOrder`, `OnlyHooksBlock` - what Slack is told
  was received was taken by all hooks; however often Slack repeats a message and
  whatever dies on the way, no hook hears it more often than one before it, or less
  often by more than the deliveries that were cut short; sequential messages are
  heard in order; only a hanging hook blocks a delivery.
* `PrefixServed`, `RunningIsServed` (proved), `FirstKeepsName` (proved),
  `ClosedUnderNone`, `Counted`, `StopReturns` - partial registration leaves a prefix; no goroutine
  runs unreachable; names stay; the wait group counts right; Stop returns unless a
  goroutine hangs.
* `Durable`, `Remembered`, `InStep`, `NothingToLose` - confirmed facts are on disk,
  in memory, and the two agree unless a save failed; the store that panics has no
  confirmed fact in it.
* `Credited`, `NothingOverlooked`, `LegacyServed`, `NothingForgotten`, `OldPhrasesOnly` -
  no reply counts for a phrase it was not saved or said for; what `/g` says against
  the bucket is only what was stored after it began; the migration loses nothing, except, when its note could not
  be written, what users taught about version 1 phrases.
* `Exclusion` (proved), `NoCircle` - one writer, no reader while the file is mapped anew,
  and no circle of waiters among the locks. `NoWriteAgain`, `NoneBeginsAgain` - what
  a late reply inside a transaction costs, for good: all writes, or after the next
  commit that grows the file all transactions. `OnlyHangsBlock` - nothing else keeps
  a goroutine from its select, where it sees that Stop has cancelled its context.
  `WaitHasEnd` (proved) - the same at one moment: among those a goroutine waits for,
  directly or through others, one can go on or hangs.
  `ImplementsStore` - refinement of `AtomicStore`: what a plugin stores is made of all
  that was stored before it, and who reads sees one commit's state to its end.
  `NothingStoredAgain` (proved) - a late reply inside a write transaction freezes what
  is stored.
* `KnownOnceShown` - who follows a link before its state is committed is known when
  the callback is served. `LateRefused`, `StatesStay` (proved) - spotify's states expire and
  are never taken away. `SuccessStored` - who hears of a login has a token; that a user
  hears anything cannot be promised. `ImplementsLogin` - refinement of `Login`: tokens come from consents on
  the user's own link, once each, and nobody is logged out.
* `KnownOnceUp`, `NamesAgree` (proved), `PostsWhereNamed`, `StartLearns` - Start misses
  nothing that was there; the two maps agree; a name leads to a channel that had it
  since the start; a restart learns what was new.
* `Conversation`, `NeitherBotsNorPeriod`, `AtOrBefore`, `MoreIsOlder` (proved) - logs
  without a period have no gaps and keep the order; two options do not do what they
  are documented to; `GetMessage` falls back on the message before; a larger count adds older
  messages only.

## What the code does not keep

Two runs are expected to fail, and one passes that says what a comment denies;
`PROJECT.json` quotes the lines.

* `stop_from_plugin`: `bot.go:233` says that Stop closes the database and disconnects,
  but when the admin plugin calls it (`admin.go:19`, `:74`) it waits for the goroutine
  it runs in.
* `own_messages`: `events.go:49` says that what the bot has said is ignored, but until
  `initInfo` has run `botId` is empty: the hooks hear the bot itself and not people,
  and Slack is told that people's messages were received (`Ignore`).
* `message_log`, `NeitherBotsNorPeriod`: `message_log.go:13` and `:17` say that
  `IncludeBots` includes bots' messages and that `Period` looks back in time. Every
  message with a subtype is skipped, a bot's too, and the start of a period is sent as
  milliseconds where Slack reads seconds, so that such a log is empty (`Oldest`,
  `Listed`). `SkipAttachments` skips whole messages.

The models also contain, as the code has it:

* a reply later than 2.5s blocks its plugin for ever (`NoRecovery`); inside a write
  transaction it takes every plugin's writes with it (`NoWriteAgain`), inside a read
  transaction, with the next commit that grows the file, everything
  (`NoneBeginsAgain`);
* a nil reply that the select picks after the timer fired is dereferenced
  (`webhooks.go:122`, `plugins.go:640`): `LateOutcome` in `Dispatch`;
* `/comic` returns on a failed response and stays registered (`comics.go:170` and
  eight more places), so that the next one blocks `handleEvents`: `Quit`. A mention
  has no response URL, so that posting to it always fails: `/comic` by mention
  returns the first time, and github's authorisation by mention rolls back;
* the cases that should keep channels and users up to date (`events.go:144`) name
  types the parser never returns, and the list is asked for without private
  channels: a mention is dropped in every channel that is private or new since the
  start (`KnownOnceUp` and `StartLearns` say what is left);
* forgetting the last fact and restarting leaves a nil map, in which setting a fact
  panics: `NothingToLose`;
* spotify deletes an expired state in a transaction that then returns an error, so
  it stays (`spotify.go:214`): `Refuse`; github adds 15 minutes in nanoseconds to a
  time in seconds, so its states do not expire (`github.go:73`): `Expired`; neither
  deletes a state that was used;
* github's webhook undoes a login when telling the user fails, and keeps silent when
  the exchange fails: `TellSuccessFails`, `ExchangeFails`; spotify drops the errors of
  its messages (`spotify.go:206`, `:218`, `:227`, `:253`), and answers nobody whose
  login began by a mention: `Heard`;
* a second plugin of one id shares the first one's bucket, which `plugins.go:457`
  only speaks of refusing: `InitPluginBucket` in `Registry`.

Not in the models, but met on the way: a stored spotify token's expiry is divided by
nine thousand million (`spotify.go:40`); `RespondToSlashCommand` sends its JSON twice
in one body (`plugins.go:659`); `nextep` asks for one page for ever when a show has
two (`nextep.go:71`); `/roll -5` and `/dice 1d0` panic in `Int63n`.

## Fairness

`Dispatch!Fairness`: goroutines that can run do; senders queue in FIFO order on a Go
channel and `select` picks among ready channels at random, so a sender whose channel
is received from again and again is served, and an idle worker's select sees the
cancelled context; a running timer fires; a plugin finishes what it began (but for
`nextep`'s loop over pages, which has no end for some shows and is left out), but
nothing makes a webhook's response fail to be written. One weak fairness condition
says it all: a request is one-shot, so every behaviour of the model comes to rest
after finitely many steps, and `WF_vars(Progress)` says that it does so only where
none of these steps is possible. A condition for each action would say the same.

`Events!Fairness`: deliveries repeat and hooks are idle again and again, so there
taking a delivery is strongly fair, for the same reason; a hook need not finish
(`Hang`), which the property excepts. `Registry!Fairness`: a registration that began
goes on, a goroutine returns once the context is cancelled unless it hangs, and Stop
goes on when the count is zero. It makes nobody hang and nobody call Stop, also not
after the parent context was cancelled: `StopReturns` speaks of a Stop that was called.
No fairness is assumed of requests, deliveries, failures or crashes.

`StoreTx!Fairness`: Go's mutexes serve who waits in turn, so a lock that is free
again and again is taken in the end (strong fairness; one condition for all locks of
a goroutine, which waits for one at a time). Nothing is assumed of `Exit` and `Close`:
no property checked here needs that a goroutine leaves or that the file is closed. A function given to a transaction goes
on and an awaited reply is taken. Nothing makes a service answer: `calling` may last
for ever, and the liveness properties except it. `Directory!FairSpec`: Slack answers
`initInfo`, if only with an error; nothing makes the bot start or stay up.

`auth`, `dispatch_slack`, `infobot`, `gifs`, `message_log` and `own_messages` assume no fairness; `events`,
`registry`, `store` and `directory` check both kinds of properties together.

## Proofs

`Dispatch_proof` proves, for any requests, workers, routes and registry:
`Typing`, `OneTaker`, `RepliesAwaited`, `StopDrains`, `LostForGood`, `Refinement`,
`OnlyLostBlockAlways`.
The only assumption is `DispatchAssumption` on the constants. The inductive
invariant `IInv` adds to the four invariants that

* `Placement`: a busy worker has a job of its own and an idle one none; a worker
  in a reply has a job with a reply channel;
* `Fresh`: a request that has not left its handler's send is nobody's job and not
  with `handleEvents`;
* `Dispatching`: what `handleEvents` is sending is a command or interaction that
  was accepted and has a target;
* `StopperBusy`: a worker inside Stop is not idle, so its own exit cannot end the
  wait.

None of the four is inductive alone: that no request is taken twice needs to know
where it can still come from (`Fresh`, `Dispatching`), and that replies are awaited
needs `TakenOnce`, as two workers with one job would both reply. `LostForGood`
follows step by step from the invariant, as does `Refinement`: each step is a step
of `PluginService` or leaves its three variables alone; that an answer is only
given to a served request is where `ReplyAwaited` is needed. `OnlyLostBlockAlways` adds
that whoever listens has a timer that runs or has fired (`TimersOK`).

`Infobot_proof` proves `Durable`, `Remembered`, `InStep` and `NothingToLose` for any
names and values, from `InfobotAssumption`. The strengthening says where memory and
disk may differ while a message is at hand: only in the fact that message is about,
or in facts nothing is promised of; and that a nil map goes with an empty store.

Each of the other modules has the same shape: `InitInv`, one lemma for each action or
group of actions, `StepInv`, `Always`, then a theorem for each property. The only
assumption is that module's `...Assumption` on its constants.

| Proof | Theorems | The invariant, and why it is needed |
|---|---|---|
| `StoreTx_proof` | `Typing`, `ExclusionAlways`, `NoCircleAlways`, `NoWriteAgainEver`, `NoneBeginsAgainEver`, `WaitHasEndAlways` | `Exclusion` with `Modes`: a goroutine is only at places its transaction's mode leads to, so that who is inside a read is no writer. `NoCircle` is a rank on the places: each waits for one nearer to the inside of a transaction. `WaitHasEnd` follows from it with `ReplyOwed`, that who replies had somebody to reply to: otherwise those who wait would wait in a circle |
| the same, of `StoreData` | `DataImplementsTx`, `DataTyping`, `StoreRefinement`, `NothingStoredAgainEver`, `FrozenForGood` | `SnapshotOK`: who is inside or committing has a snapshot, and a writer's is what is stored now. That is where `Exclusion` is needed |
| `Auth_proof` | `Typing`, `KnownOnceShownAlways`, `LateRefusedAlways`, `SuccessStoredAlways`, `StatesStayEver`, `Refinement` | what is at hand is known (`TxOK`), states belong to those the links were made for (`LinksOK`), consents have links that were made (`GivenOK`), and for each promise what it rests on while the transaction is open (`LateOK`, `SaidOK`) |
| `Slack_proof`, of `Directory` | `Typing`, `KnownOnceUpAlways`, `NamesAgreeAlways`, `PostsWhereNamedAlways` | what is listed is filed (`ListedOK`), a name filed was had (`HadOK`), what was there before is listed by the phase after (`BeforeOK`) |
| `Slack_proof`, of `MessageLog` | `AmongKeeps`, `LogTyping`, `ConversationAlways`, `NeitherBotsNorPeriodAlways`, `AtOrBeforeAlways`, `MoreIsOlderAlways` | a channel's messages stand in the order of their times, none of the future (`ChannelOK`). All else comes from two lemmas: `AmongKeeps`, what a filter returns, and `HistoryIsNewest`, what Slack's answer is; that a log of a period is empty needs that the channel is older than twice any period, counted from 1970 (`MessageLogAssumption`) |
| `Gifs_proof` | `Typing`, `CreditedAlways`, `NothingOverlookedAlways`, `LegacyServedAlways`, `NothingForgottenEver`, `OldPhrasesOnlyEver` | what `/g` is about to remember it fetched (`FoundOK`); what it read and what was stored since make up what is stored (`AskedOK`); the note says that the migration is done (`MigratedOK`), and until it is written nobody is taught anything unless writing it failed (`UntaughtOK`, `OnceOK`) |
| `Registry_proof` | `Typing`, `PrefixServedAlways`, `RunningIsServedAlways`, `CountedAlways`, `ClosedUnderNoneAlways`, `FirstKeepsNameEver` | where a registration is says what it has served and started (`AtOK`, `ServedOK`, `RunningOK`), and what started behind a Stop is known (`LateOK`) |
| `Events_proof` | `Typing`, `AnsweredIsHeardAlways`, `HeardAlikeAlways`, `InOrderAlways` | a delivery's place in the order says who has heard it (`NextOK`, `HeardOK`, `OnceOK`); what was answered before is heard before (`BeforeOK`). `HeardAlike` counts: the deliveries of a message a hook has heard are those whose place is behind it |

`StoreRefinement` maps each step of bolt's locks to a step of `AtomicStore` or to none:
the commit is the update, the beginning of a read the look. It is what lets `Infobot`,
`Gifs` and `Auth` have a transaction as one step: the lock that `LockRw` waits for
makes the copy a writer started from still the stored one when it commits.
`DataImplementsTx` carries what is proved of `StoreTx` over to it. `FrozenForGood` says
of the late reply inside a write transaction what it costs users: what is stored then
is stored for ever.

`AmongKeeps` is about a function that is defined by recursion on a sequence's length. The
library's induction theorems have an operator for a parameter, which the provers
cannot instantiate; `Induction` in `Slack_proof` is the same for a set in its place
and is proved from `NatLessThanWellFounded`: a set's least exception would have a
predecessor that is none. `KeptDefined` builds by it the function that the recursive
definition names, and `KeepOne` is what one more element makes of it.

Only model-checked: liveness under fairness, which is beyond the prover. These are
`AcceptedReturns`, `NoOtherHang`, `StopCompletes`, `OnlyHooksBlock`, `StopReturns`,
`OnlyHangsBlock` and `StartLearns`. `OnlyLostBlock` and `WaitHasEnd` are the part of the
first two and of `OnlyHangsBlock` that needs no fairness: in every reachable state, of
any number of goroutines, whoever waits could be served, unless somebody is lost.

## Not modelled

* Text and formatting; the parsing of requests, of "x is y", of song links, of `++`
  and `--`; Slack's request signatures (a hash over one request; `Dispatch` has the
  refusal).
* comics' templates: each change reads and writes the whole list in one transaction,
  and that a number is still that of the list a user was shown is promised nowhere.
  Rendering draws on images.
* random: arithmetic on random numbers without state. karma's arithmetic on one
  number, within one transaction.
* nextep, echo, eslogs, and the filter of twitter's stream: no state; to the rest they
  are workers of `Dispatch`, hooks of `Events` and callers of `Directory`.
* Tokens once they are stored: the oauth2 library refreshes them in memory, nothing
  stores the result.
* Data races on the maps that `RegisterPlugin`, `initInfo` and the handlers share
  without a lock, but for `Die` in `Directory`: the repository has no main program
  that says when plugins are registered.
* Panics inside plugins but for infobot's; the HTTP server's limits; Slack, giphy and
  the other services but for what the code relies on; generated code.

`PROJECT.json` lists every component with its status.

## Plan

1. Done: `Dispatch` with `PluginService`, `StoreTx`, `StoreData` with `AtomicStore`,
   `Auth` with `Login`, `Directory`, `Events`, `Registry`, `Infobot`, `Gifs`,
   `MessageLog`; proofs of all safety and action properties that are checked, and of
   the three refinements.
2. Open: `Infobot`, `Gifs` and `Auth` composed with `AtomicStore`, so that the step from
   `StoreRefinement` to their atomic store calls is a theorem too.
3. Open: the part of `OnlyHooksBlock` and `StopReturns` that needs no fairness, where it
   says more than `AnsweredIsHeard` and `Counted` do.
