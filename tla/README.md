# A verification development for ebotula

ebotula is an IRC bot written in C.  It administrates accounts, the rights of
these accounts in channels, and the channels.  One process runs a main thread
that reads the server's lines, a configurable number of execution threads that
handle them, a timing thread, and a short-lived thread that joins the channels.
They share a command queue, a callback list and six gdbm databases.

This directory holds TLA+ models of the parts where these threads meet, the
configurations with which TLC checks them, and proofs that TLAPS checks.  All
source paths below are relative to `src/src/`.

## 1. The system

| component | state | operations | used by |
|---|---|---|---|
| life of the bot, `ircbot.c` | flags `stop` and `again`, receive buffer, thread handles | `main` restarts `AppMain`; `AppMain` connects, starts the threads, receives and splits lines, flushes, joins, frees | everything |
| command queue, `queue.c` | ring list with sentinel, counter, mutex, condition variable | push, pop (blocks), isempty, isfull, flush, delete, iterate | main and execution threads; as a plain list by the database listings |
| parser, `parser.c` | none | `preParser` identifies a line, `CommandExecutionThread` pops, reads the caller's level, calls the handler; `stopParser` | main thread, execution threads, signals |
| accounts, `account.c` | `mutexAccount` | `log_on`, `log_out`, `rmAccount`, `rmAccessRights`, two sweeps, two level queries | commands, events, timing thread |
| databases, `dbaccess.c` | USER, TIMELOG, NICKTOUSER, USERTONICK, CHANNEL, ACCESS, one mutex each | add, replace, delete, check, exist, get, list | all handlers |
| callback list, `callbacklist.c` | double linked list with head, tail, size, mutex | insert, remove, search, destroy | handlers of MODE, 311 and 401, `!ban`, `!kick` |
| event handlers, `handles.c` | none | NICK, JOIN, MODE, KICK, TOPIC, NAMES, 311, 401 | execution threads |
| commands, `command.c` | none | 30 bot commands | execution threads |
| callbacks, `callback.c` | none | `ModeResetCb`, `SetBanCb`, `KickCb` | handler of 311 |
| timing thread, `timing.c` | times of the last ping and sweeps | ping, hourly sweeps, nickserv | |
| network, `network.c` | socket, `mutexSend`, characters sent per minute | connect, `SendLine`, `RecvLine`, throttle, nickname choice, join thread | everything |
| senders, `irc.c` | none | one function per IRC command | handlers |
| strings, `extract.c`, `utilities.c` | none | pure functions on lines, modes, channel data | handlers |
| configuration, `configparser.c`, `baseconfig.c`, `parameter.c` | `sSetup` | read once at the start | |
| tables and texts, `cmdlist.c`, `irchelp.c`, `ctcp.c`, `messages.c` | none | command table, help, CTCP answers | parser |

How they interact: the server's lines go through `RecvLine`, `preParser` and
`pushQueue` to one execution thread each.  Its handler reads and writes the
databases and sends lines.  MODE protection, `!ban` and `!kick` need a user's
netmask: they leave an item in the callback list and send WHOIS, and the answer
comes back through the same queue, possibly to another thread.  The timing
thread calls `account.c` beside the handlers.  `stop` is set by `!die`,
`!restart`, signals, and failures of the connection; every loop tests it.

What is hard here, and what makes each part correct:

* the queue: several consumers, a condition variable that wakes one sleeper, a
  `stop` flag that no lock protects, a flush that competes with the consumers.
  Correct means: in order, exactly once, no sleeper beside a message, and an end.
* the accounts: two databases that are each other's inverse, updated by two
  accesses each; readers take no lock, and checks are made before the lock.
  Correct means: one netmask per account, every session can be ended.
* the callback list: the functions lock, their callers do not, so a pointer may
  be stale when it is used; answers arrive in an order of their own.
  Correct means: no item lost or used twice, no freed element used, no item
  that waits for ever.
* rights: a level is read at dispatch and used later; rights are kept per
  channel name and per account name, and both names come and go; a kick is
  decided when the server has answered.  Correct means: rights end with their
  account, only masters make and unmake masters.
* channels: a record is read, changed and written back whole, and the server
  hears of it later; other users change the channel meanwhile, the bot loses op,
  is kicked, or dies.  Correct means: the server gets back what the record says.
* sending: one mutex around `send`, and a signal handler that sends too.
  Correct means: one line at a time, nothing is sent through a destroyed mutex,
  and a stop request ends the bot.
* the receive loop: lines cut anywhere by TCP; ownership of a line's memory
  passes to another thread.

`PROJECT.json` lists the hazards one by one with their lines and the properties
that cover them, and those that still have none.

## 2. The modules

| module | models | proofs |
|---|---|---|
| `Dispatch` | abstract: what dispatching lines to threads promises | |
| `Admission` | abstract: what logging on and off promises | |
| `Registry` | abstract: what the callback list promises | |
| `CommandQueue` | `queue.c` as used by `ircbot.c` and `parser.c`, from the start of the threads to the deletion of the queue | `CommandQueueProofs` |
| `Sessions` | `account.c` and the four databases of accounts and sessions, with the commands, events and sweeps that call it | `SessionsProofs` |
| `CallbackList` | `callbacklist.c` pointer by pointer, its callers and the server's answers | `CallbackListProofs`, `RegistryProofs` |
| `ReceiveLoop` | the receive loop of `ircbot.c` byte by byte: the cut of the stream into lines, and who frees a line | `ReceiveLoopProofs` |
| `Rights` | CHANNEL_DB and ACCESS_DB, the level of a caller, and the commands and callbacks that change rights or decide by them | `RightsProofs` |
| `Channels` | the record of a channel, the channel on the server, the commands and events that move one towards the other, with the conversions of `utilities.c` | `ChannelsProofs` |
| `Sending` | `SendLine`, `stopParser` as command and as signal handler, the end of the connection, and the main thread from the first handler to the destruction of the mutex | `SendingProofs` |
| `MCCommandQueue`, `MCSessions`, `MCCallbackList`, `MCReceiveLoop`, `MCRights`, `MCChannels` | instances for TLC, symmetry, bounds, and statements of the documentation that the code does not keep | |

Definitions whose comment begins with "Fault variant" are not part of any
specification.  They say how a plausible mistake in the code would look, and
each property of the passing runs is violated when one of them replaces the
definition it varies.

### CommandQueue

A step is a critical section of `queue_mutex`, one access of `stop`, or a
handler.  `pc` says where each thread is: the main thread runs `loop` (test of
`stop`), `recv`, `parse`, and after the loop `flush`, `flushPop`, `joinTimer`,
`join`, then the second flush inside `deleteQueue` and `closed`; an execution
thread runs `check`, `pop`, `wait` (asleep), `exec`, `exited`.
`pthread_cond_signal` wakes any one sleeper, which must test again;
`pthread_cond_wait` may also return by itself (`SpuriousWakeup`).  Messages are
numbered in the order they are pushed; `taken`, `done`, `dropped` and `late` are
history.  A line that is not pushed (not identified, a PING, no memory) is
`SkipLine`.  `stop` becomes true by `DieOrRestart` inside a handler, by
`StopSignal`, or by a failing receive.

### Sessions

`users` and `stamp` are USER_DB and TIMELOG_DB; `n2u` and `u2n` are NICKTOUSER_DB
and USERTONICK_DB.  Each database access is one step, because `dbaccess_mutex`
makes no more than that atomic and readers do not take `mutexAccount`.  `job`
holds the locals of the command a thread executes.  A time stamp is "recent" or
"expired" (older than `autologgoff`); how long an account lives beyond that is
left open, so the account sweep may take or leave an expired one.  The initial
state is a start of the bot: no sessions, any accounts, any time stamps of
existing accounts.  `Admitted` says that the module implements `Admission`, where every
thread has a plan (end a session, remove an account, begin a session), a session begins
only by a plan that an `!hello`, a checked `!ident` or a NICK has made, and the two
session databases change in one step.  `LastOn` maps USERTONICK_DB: inside a critical
section it is what it will be at the end of it, and other threads, which read
NICKTOUSER_DB only, or take the mutex, cannot tell the difference.  What `Admission`
leaves open is as telling: a plan is carried out whatever has become of the account or
of the session meanwhile, and a second `!hello` of a netmask leaves a login that
ends the session of the first when it is logged off.  Passwords, and what the handlers send, are left out; so are
the access rights that `rmAccount` removes in its critical section, which touch
none of these databases.

### CallbackList

`list` holds `head`, `tail`, `size` and the links.  A caller's read of
`CallbackList.tail` or `.head` is a step of its own before the locked function,
and search and removal are two steps.  When a freed element or a nickname of a
destroyed item would be used, `broken` is set and the model stops, because the
C program's behaviour is undefined from there: the invariants that need a
defined list say `~broken => ...`.

`Registered` says that the module implements `Registry`: a line of items, each of
which enters it once and meets one fate (refused, called, dropped).  The line is
`Waiting`, what the links from the head lead to; an item is taken there when its
element is freed, and called when its function is; one step of this module is one
step of the line or none.  What the refinement says about threads is in the guards of
`Registry`: only when two threads have been in the handlers at once may an item be
refused, enter elsewhere than at the end, overtake an older one of its nickname, or
the execution be undefined.  The server is external: it answers every WHOIS
once, in order, by 311 or 401, and may answer other commands of the bot by 401.

### ReceiveLoop

The same loop as in `CommandQueue`, seen from the other side: there a receive is
a number of lines, here it is characters, and the threads are no more than what
they do to the memory of a line (`Execute`).  A line of the server is three
characters, text, carriage return and line feed, which is enough for a cut
before, between and behind them; a character is its position in the stream, so
two characters are never confused.  `buffer` keeps what `recv` left there, which
`ReceiveError` (`recv` returns -1) parses again.  A line that `preParser`
identifies gets memory of its own, named by the number of the parse; `sMsg` in
the main thread and the message in the queue both point to it.  `split` and
`errors` are history: they say which of the two things that disturb the stream
have happened.

### Rights

ACCESS_DB is two variables, `master` (key: a login) and `right` (key: a login and
a channel); `users`, `channels` and the two session databases stand beside them.
Each access of ACCESS_DB is a step, `log_on` and `log_out` are one step each, since
`Sessions` has them in detail and `ImplementsAdmission` shows that their two writes act
as one; only a relogin is two steps there, the end of the old session and the new one.  `job` holds what a command was given and what
`getUserLevel` found when it was dispatched; that value is used until the command
ends, as `sMsgItem.UserLevel` is.  "m" is what `!hello` writes, "+m" what
`!accountmode` writes: code that looks at the second character sees two different
things.  `mod[1]`, which `!accountmode` reads without having written it when a
caller who is no master asks for 'm', is any letter; so is the decision of
`checkUserLevel` when the user is not logged on, which may also end the process
(`Crash`).  `!kick` and `!ban` leave a question in `asked`; the answer may come
when rights and sessions have changed.  `founders`, `rivals` and `excused` are
history.  What the commands do to user modes on the server is left out.

### Channels

Channels do not touch each other, so there is one.  `record` is its entry in
CHANNEL_DB; a record keeps its mode line as letters and arguments, since
`StrToChannelMode` reads the arguments by the order of the letters and
`ChannelModeToStr` writes them in the order of its indices.  Of the eleven letters
five are kept: two with an argument, one without, the one (`a`) that
`CHANNEL_MODES` lacks, and the one (`i`) behind `MAX_MODES`, which `!chanmode`
sends but never stores.  `server` is the channel as the server has it.  The
handlers read the record in one step, `replace_db` tests and stores in two, and
what is sent comes after that.  A null argument ends the process (`Crash`), and
so may anything else (`Kill`); the next one joins the channels it finds.
`overtaken`, `missed`, `late` and `foreign` are history: who works on an old
copy, who was inside `replace_db` during a removal, whether such a thread had
the last word, and which modes other users have changed while the bot had op.
The server and the other users are external.

### Sending

Each thread has a stack of what it is at: a signal puts `stopParser` on top of
whatever the thread does, a send without connection does the same through
SIGPIPE, and `stopParser` puts a `SendLine` on top of itself.  Delays are left
out.  `link` is the connection; the server closes it after a QUIT, and
`disconnectServer` only shuts it for receiving.  `Init` is the state behind the
installation of the handlers: `stop` is unset when the process has just begun, and
still set when `main` has called `AppMain` again after `!restart`, for the only
reset is `ircbot.c:400`.

## 3. The runs

| run | instance | result |
|---|---|---|
| `CommandQueue` | 3 execution threads, 3 messages, 2 lines per receive, fairness | holds: `TypeOK`, `FifoOrder`, `ExactlyOnce`, `NoLostWakeup`, `OneLateMessage`, `QueueFreedLast`, `Dispatched`, `MessageServed`, `BusyWorkersStop`, `ReceiveLoopEnds` |
| `CommandQueueShutdown` | 2 threads | violated: `ShutdownCompletes` |
| `Sessions` | 2 accounts, 2 netmasks, 2 execution threads and the timing thread | holds: `TypeOK`, `OneMaskPerLogin`, `MaskCanLogOut`, `SessionIsStamped`, `Admitted` |
| `SessionsRemovedFromAll` | 2 execution threads | violated: `RemovedFromAll` |
| `CallbackList` | 2 threads, 2 nicknames, 3 items, 1 foreign 401, fairness | holds: `TypeOK`, `WellFormed`, `ItemsAccountedFor`, `AnswersCover`, `Registered`, `ListEmpties` |
| `CallbackListStale` | the same | violated: `NoStaleElement` |
| `ReceiveLoop` | 3 lines of 3 characters, the first and the third a command, 5 parsed lines, 1 failing receive | holds: `TypeOK`, `StreamOrder`, `NoTextLost`, `FreedOnce` |
| `ReceiveLoopCut` | 3 lines, the first a command | violated: `OnlyUnparsed` |
| `Rights` | 2 accounts, 2 netmasks, 1 channel, 2 execution threads and the timing thread, 2 commands from any state at rest | holds: `TypeOK`, `RightsHaveAccounts`, `OneFounder`, `MasterByMaster`, `LastMaster` |
| `RightsKick` | 1 execution thread, 1 command | violated: `MastersStay` |
| `Channels` | 2 execution threads, 3 inputs, 7 mode lines, 2 old records | holds: `TypeOK`, `RecordReadable`, `TopicRestored`, `ModesSet`, `WriteKeepsOthers`, `RemovedStaysRemoved` |
| `Sending` | main, timing, one execution and the join thread, 3 lines that are sent, 2 signals, at the first start and after `!restart`, fairness | holds: `TypeOK`, `DestroyedUnused`, `OwnerGoesOn`, `SignalEndsLoop` |

Why the bounds are enough.  *CommandQueue*: three consumers and the flushing
main thread are more takers than messages, so there are states with several
sleepers and one message, with all threads awake, and with the flush competing
with two pops; the safety properties are proved without any bound.  *Sessions*:
one netmask is the owner's of account `alice`, one of `bob`, and both may try to
log on as either; with two netmasks and two logins each of the four relations
between a netmask and a session occurs (own, other's, moved, none).  `TwoBusy`
lets two of the three threads be inside a command at once, any two; the
properties are proved for any number.  *CallbackList*: three items and two
nicknames give a list with an inner element and with two equal nicknames; the safety
properties are proved for any number.
*ReceiveLoop*: with three lines a receive can hold the end of one line, a whole
line and the beginning of the next; five parsed lines leave room for the two
that a cut behind a return and a failing receive add.  A failing receive can be
repeated in the code; each one only parses the buffer once more, and without the
bound the rest would grow for ever.
*Rights*: the runs begin in every state at rest (any accounts, rights and
sessions that fit each other), so two commands, run against each other in every
order, stand for the last two of any history; three threads have room for a
sweep beside two commands.  `OneFounder` needs two `!hello`, `LastMaster` two masters, and
a kick with a change of rights between question and answer takes two.
*Channels*: three inputs are two commands and an event, or two overlapping
commands and a crash; the records an earlier run may have left supply what a
fourth input would.  *Sending*: two signals are enough for a handler inside a
handler and for one in each of two threads.
Symmetry is used over the execution threads only and in runs without liveness
properties; no definition distinguishes them.  `Rights` also exchanges the two
users, each with his netmask.

Fairness.  In `CommandQueue` the main thread's steps together, each execution
thread's steps, and the end of the timing thread are weakly fair: the operating
system schedules a thread that can run, `poll` has a timeout, handlers return.
No fairness is assumed for stop requests, spurious wakeups, or the choice of
what is received.  In `CallbackList` the execution threads, the server's answers
and the destruction of the list are weakly fair, commands are not.  In `Sending`
each thread's steps inside `SendLine` and `stopParser`, the main thread's own way,
its receive included, since `poll` has a timeout, and the server's closing after a
QUIT are weakly fair; signals, the loss of the connection, and which of a line and
the timeout a receive ends with are not.  `Sessions`, `Rights` and `Channels` have no
liveness property and no fairness.

What the violated properties show.  They are statements of the documentation.

* `ShutdownCompletes` (`doc/ebotula.1.in`: `!die` shuts the bot down): `popQueue`
  waits for an element and not for `stop`.  One broadcast in `flushQueue` makes
  the sleepers test the counter and sleep again, and `AppMain` joins them for
  ever.  The flush itself can wait for ever too, when a worker takes the last
  element between its test and its pop.  `BusyWorkersStop` is what does hold: a thread outside `popQueue` stops.
* `RemovedFromAll` (`account.h`): a login checked before `rmAccount` logs on
  after it.  `SessionIsStamped` shows why such a session does not stay for ever
  unseen: it gets a time stamp, and the account sweep goes by the time stamps.
* `NoStaleElement` (`ChangeLog`): two threads use one callback element.
* `OnlyUnparsed` (comment at `ircbot.c:469`): when a receive ends with the return
  of a line, the line stays in the rest and is parsed again, joined to the line
  feed and the next line.  `StreamOrder` is what holds while that does not
  happen, `NoTextLost` what holds in any case.

* `MastersStay` (`doc/ebotula.1.in`, `!kick`): `checkUserLevel` looks for 'm' in the
  second character, which "m" does not have, and reads the right in the channel
  first.  The founder of the bot, and a master who has a right in a channel, are kicked
  and banned like others.

The properties that hold name their exceptions, and each exception is a flaw of
the code that the run shows to be reached when it is taken out of the formula.
`RightsHaveAccounts`: rights survive their account if they were on a channel
removed before, or were written by a command that had checked the account before.
`OneFounder`: two overlapping `!hello` find the list of accounts empty.
`MasterByMaster`: a master is also made by `mod[1]` when it happens to be 'm'.
`LastMaster`: the last master is lost when his account is removed, when two masters
take each other's rights, or when he names himself in another spelling, because
`strcmp` compares with case and the databases without.
`BusyWorkersStop` says nothing of threads that sleep in `popQueue`, which is what
`ShutdownCompletes` is about.  `WriteKeepsOthers`, `TopicRestored`, `ModesSet`: two commands on one channel lose
an update, and the line sent last need not be the record stored last.
`RemovedStaysRemoved`: `replace_db` stores a channel that was removed after its test.
`SignalEndsLoop`: a handler that interrupts its own thread inside `SendLine`
waits for the mutex that thread holds; SIGPIPE makes this certain whenever a send
finds the connection gone.  The other exception is `StopIsOld`: after `!restart` a
signal that comes before `ircbot.c:400` finds `stop` set, so `stopParser` sends no
QUIT, the reset erases the flag, and the bot runs on, against the comment at
`ircbot.c:377` ("redefine the signal handler for to stop the bot").  At the first
start the same signal sends its QUIT, and the bot ends when the server answers.  `OwnerGoesOn` says that there is no other way to keep
the mutex.  `DestroyedUnused`: only the detached
`JoinAllChannelsThread` can use the mutex after its destruction.

`MaskCanLogOut` is what remains of `account.h`'s "in both files": `!hello` needs no
more than the level of a logged-on user, so a netmask can create a second account
while logged on; its `add_db` fails and the other database is written in any case.

`FreedOnce` is as much as the code gives: `sMsg` keeps the pointer of the last
line if it was queued, and `free(sMsg.pMsgLine)` behind the loop frees it beside
the thread that executes it.  A bot that stops behind any other line frees every
line at most once.

## 4. The proofs

All are for any finite set of threads and any number of messages, accounts,
netmasks; the assumptions are the named ASSUMEs of the modules (threads are
different from each other, `None` is none of the values, an earlier run of the bot
has stored modes as `!chanmode` does).

`CommandQueueProofs`.  `FifoOrder` is inductive beside the types.  `ExactlyOnce`
is not: a popped number is new only because of `FifoOrder`, and a pop loses
nothing only because a thread outside its handler holds no message (`Busy`), so
the inductive invariant is `IInv == TypeOK /\ FifoOrder /\ Busy /\ ExactlyOnce`.
`OneLateMessage` rests on `LateInv`: a thread that has popped after the stop is in
its handler, at the test, or gone, and the test does not let it pop again;
`QueueFreedLast` on `JoinInv`: after the join every worker has exited, only labels
behind the loop follow, and `closed` is reached with an empty queue.  `NoLostWakeup` needs the cardinalities of
the threads awake: a push adds a message and wakes one sleeper if there is one,
and a thread falls asleep only on an empty queue.  `ImplementsDispatch` maps a
worker's pop to `Start`, `Finish` to `Finish`, the pop of the flush to
`Discard`, and needs `StopSeen` (the flush begins after a stop).

`SessionsProofs`.  The invariant `SessionInv` joins the types, mutual exclusion
(`Exclusive`), the inverse relation of the databases with the one exception of a
thread between its two writes (`Inverse`), and what the owner of the mutex knows
of its login at each label (`Progress`).  Steps are split into those outside the
critical sections, which disturb no session, and those under the mutex.
`ImplementsAdmission` needs besides which command can be at which label and whether its
login has a netmask (`Knows`).  A check or a start is a `Take`, the deletion from
NICKTOUSER_DB an `End` or a `Displace`, the addition a `Begin`, the deletion from
USER_DB a `Remove`, and everything else, the lock and the second write included, is no
step; `AgreeAlways` says that what `Admission` sees of the databases always agrees.
From the same invariant, `NoSwitchAlways`: no step turns a session into one of another
account.

`ReceiveLoopProofs`, for any number of lines, commands, parsed lines and failing
receives.  `FreedOnce` rests on `OwnerInv`: in the loop no line of the queue is
freed, behind it the line of `sMsg` is the only one that can be both.
`NoTextLost` needs `FeedInv`: every return in the text is followed by its line
feed, since the rest has no return and the buffer is a piece of the stream, so
the character skipped by `pStrPos+1` is never one of a line.  `StreamOrder` speaks of
the concatenation of all parsed lines, a recursive definition; `FlattenLines` gets
its value without induction, because two solutions of its equation would differ at a
least place (`LeastExists`).  What is inductive is `OrderInv`: while no receive has
ended behind a return or failed, the n-th parsed line is the text of the n-th line of
the stream, and what is to be parsed is the stream from there on.

`RightsProofs`, for any accounts, netmasks, channels, threads and commands.  `Typed`
is `TypeOK` together with what a thread's label says of its locals: which
commands can be there, which of their arguments are set, and which level the
caller had at dispatch.  With it `MasterByMaster` and `LastMaster` are properties
of single steps; that the timing thread only removes (`TimerSweeps`) is a small
invariant of its own.  `OneFounder` needs `Founding`: while no two `!hello` have
overlapped there is one at a time, and if it has found the list empty, only its own
account can be a founder.  `RightsHaveAccounts` needs `NoneLeft`: rights are for
listed channels, so that a removal, which goes through the list, finds all of
them, and at each label of a removal what lies behind it is deleted (`Removed`).

`SendingProofs`, for any number of lines and signals, so for handlers interrupted
by handlers to any depth.  `SendingInv` says what a stack looks like (at the bottom
the thread's own code, above it only labels of `SendLine` and `stopParser`), that
behind the join only the detached thread is left beside the main thread (`Phases`),
and that the owner of the mutex is inside once (`Exclusive`), which a handler on top
does not change, because it cannot get the mutex either.  `OwnerGoesOn` needs the
converse, `Kept`: who owns the mutex has a label between lock and unlock in its stack;
and `Early`, that nobody but the main thread has a stack before `Create`.

`ChannelsProofs`, for any number of threads, texts, words, mode lines and inputs.
`RoundTrip` is about the conversions: modes that have a keyword and a limit with
their letters only (`Kept`) are read back from what `ChannelModeToStr` writes, since
the letters stand in the order of their arguments.  `MergeKeeps` shows that
`!chanmode` leaves such modes, so `RecordKept`, the record is what its own modes are
written as, is an invariant and `RecordReadable` follows.  `Knowledge` says what a
thread that was not overtaken knows: before it stores, the fields that its command
does not change are those of the record; before it sends, what it sends is in the
record.  `WriteKeepsOthers` and `RemovedStaysRemoved` are properties of a step from
there.  `TopicRestored` and `ModesSet` are about states at rest; `TopicInv` and
`ModesInv` extend them to all states in which the bot has op: the server has the topic
(each mode), or a message waits, a handler is about to read, or a thread is about to
send that will see to it, or one that was overtaken will have the last word.

`CallbackListProofs`, for any finite set of threads and any number of nicknames,
items and answers.  What the links say is not a formula of single links: `Shape`
states that there is an order of the elements which `next` and `prev`, head and tail
follow (`Order`).  `WayIs` shows that the way along the links is the only function
that follows them, by the least place where two such functions differ, and
`WayAhead` and `WayBack` give it from the order; so the lemmas `InsertBehind`,
`RemoveAny` and `SearchFinds` speak of orders and the actions of links.  `ListInv`
joins to it what makes the removal of an element of the list certain: a pointer a
thread holds is to an element of the list or to a freed one (`Holds`), and each item
is in one place (`Accounts`).  `AnswersCover` is too weak to be inductive, because a
handler that has read the head of an empty list finds nothing, whatever is inserted
afterwards; `Covered` does not count it, and such a handler is harmless because the
list had no item for its answer.  `Alone` says that what a thread on its own has read
is still so (`Fresh`), from which `OneThreadIsSafe` (no freed element is used and no
item refused) and `OldestFirst` (an answer removes the oldest item) follow.

`RegistryProofs`: `ImplementsRegistry`, from `ListInv`.  `LineIs` gives the line as the
order of the elements, so `insert_next` is `InsertAt` behind the element that was the
tail when the caller looked (`InsertedIs`), `remove` is `RemoveAt` (`RemovedIs`), and the
destruction takes the last one (`FrontIs`).  Each action has a lemma that names its
step: `Register` creates, `InsertNext` enters or refuses, `Remove` takes or drops, `Call`
calls, `DestroyTail` discards, everything else at most notes an overlap.  The step that
uses a freed element is `Undefine`, which needs two threads by `OneThreadIsSafe`.

Only model-checked: the liveness properties (`MessageServed`, `BusyWorkersStop`,
`ReceiveLoopEnds`, `ListEmpties`, `SignalEndsLoop`).  Liveness under fairness is beyond
the provers used here.

## 5. What is not modelled

Not modelled, because they are input, output or constant tables without shared
state: sockets, the format of the databases, help and list texts, CTCP, the
configuration file and the command line.  `intl/` and `po/` are vendored and most
of the repository's lines; `tools/` is a separate program.  `crypt`'s static buffer,
memory that is leaked, and sizes of buffers are below the level of these models.

* User modes (op and voice of others) on the server: what `ModeResetCb`, `hUserJoin`
  and `!accountmode` do to them.  The bot keeps no state of them, and `ModeResetCb`
  compares the second character of a right with the second character of the
  channel's name, so it takes back the op that others give to an owner of almost
  any channel; a model could only repeat that.
* `GetCharPerMin` and the delays of `SendLine`: arithmetic on the clock that
  delays a line and changes nothing else.
* The choice of a nickname in `ConnectToIrc` and `!nick`, `!pass`, `!invite`,
  `!deban`, `!say`: one line sent, or data the models abstract from.
* Conversions of one line (`extract.c`): abstracted to their results.
* The `JoinAllChannelsThread` of the run before `!restart`, when it is still asleep or
  joining: `Sending` begins when it has ended.  `connectServer` initialises
  `mutexSend` again while such a thread may be inside, which is undefined.

## 6. The plan

What would come next, the most telling first:

- the composition of `CallbackList` with `Rights`: a callback item that was queued for
  a user who has logged out since, and whose answer decides about rights;
- a bound on how many logins one sweep (`account.c:96`) can end although the user has
  been active after the time stamp was read;
- the modes a removed account keeps on the server (`command.c:1256`), which needs the
  channel's view of its users;
- `GetCharPerMin` (`network.c:206`) as a function of the clock, against the number of
  characters really sent within the last minute.
