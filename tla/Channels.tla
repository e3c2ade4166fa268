------------------------------ MODULE Channels ------------------------------
(***************************************************************************)
(* A channel: its record in CHANNEL_DB, the channel on the server, and the *)
(* execution threads that change the one by the other.  The commands       *)
(* !addchannel, !rmchannel, !join, !part, !topic, !greeting and !chanmode  *)
(* read the record, change a field of it and write all of it back; the     *)
(* handlers of the server's messages set topic and modes from the record.  *)
(* Channels do not touch each other, so there is one here.                 *)
(*                                                                         *)
(* A record is a line of text, modes, topic and greeting with tabs between *)
(* them.  The modes keep their form here, letters and arguments, since the *)
(* order of these decides what is read back.                               *)
(***************************************************************************)
EXTENDS Naturals, Sequences, FiniteSets, FiniteSetsExt

CONSTANTS
    Workers,      \* the execution threads
    Texts,        \* topics and greetings
    Words,        \* keywords and limits
    ModeLines,    \* what is given to !chanmode
    OldData,      \* what an earlier run of the bot may have stored
    MaxInputs,    \* bound: messages from the server, and restarts
    None

\* The letters of StrToChannelMode: 'k' and 'l' take an argument, 't' and 'a' stand
\* for those that do not, 'i' has the last index.
Flags == {"k", "l", "t", "a", "i"}

\* CHANNEL_MODES, the letters that ask for the leading plus, lacks 'a'.
SignedFlags == Flags \ {"a"}

\* chanmode goes through the indices below MAX_MODES, so never MOD_INVITE.
MergedFlags == Flags \ {"i"}

\* A mode line is a word of letters and signs, and up to two words behind it.
ModeWords == Flags \cup {"+", "-"}

-----------------------------------------------------------------------------
(* Conversions: utilities.c and extract.c *)

Modes == [sign : {"+", "-", "none"}, flags : SUBSET Flags,
          keyword : Words \cup {None}, limit : Words \cup {None}]

NoModes == [sign |-> "none", flags |-> {}, keyword |-> None, limit |-> None]

\* Where these letters stand in a mode line.
Places(line, letters) == {i \in 1..Len(line.letters) : line.letters[i] \in letters}

\* 'k' and 'l' take the next argument, which is a null pointer if there is none.
Argument(line, letter) ==
    LET places == Places(line, {letter})
        next == Cardinality({i \in Places(line, {"k", "l"}) : i <= Max(places)})
    IN IF places = {} \/ next > Len(line.args) THEN None ELSE line.args[next]

\* StrToChannelMode: of a sign or a letter that is repeated the last one counts.
StrToChannelMode(line) ==
    LET signs == Places(line, {"+", "-"})
    IN [sign |-> IF signs = {} THEN "none" ELSE line.letters[Max(signs)],
        flags |-> {f \in Flags : Places(line, {f}) # {}},
        keyword |-> Argument(line, "k"),
        limit |-> Argument(line, "l")]

\* It reads the length of the argument without a test.
Faults(line) == LET m == StrToChannelMode(line)
                IN \/ "k" \in m.flags /\ m.keyword = None
                   \/ "l" \in m.flags /\ m.limit = None

Optional(condition, word) == IF condition THEN <<word>> ELSE <<>>

\* The sign and the letters in the order of the indices MOD_*.
ModeStr(m) == Optional(m.sign # "none", m.sign)
              \o Optional("k" \in m.flags, "k") \o Optional("l" \in m.flags, "l")
              \o Optional("t" \in m.flags, "t") \o Optional("a" \in m.flags, "a")
              \o Optional("i" \in m.flags, "i")

\* Fault variant: the limit is written before the keyword.
ChannelModeToStr_Swapped(m) ==
    [letters |-> ModeStr(m),
     args |-> Optional("l" \in m.flags /\ m.limit # None, m.limit)
              \o Optional("k" \in m.flags /\ m.keyword # None, m.keyword)]

\* Fault variant: both arguments are written without a test.
ChannelModeToStr_Both(m) == [letters |-> ModeStr(m), args |-> <<m.keyword, m.limit>>]

\* ChannelModeToStr: the keyword comes before the limit.
ChannelModeToStr(m) ==
    [letters |-> ModeStr(m),
     args |-> Optional("k" \in m.flags /\ m.keyword # None, m.keyword)
              \o Optional("l" \in m.flags /\ m.limit # None, m.limit)]

\* Fault variant: the keyword and the limit are kept without their letters.
Merge_Keep(old, new) ==
    LET flags == IF new.sign = "+" THEN old.flags \cup (new.flags \cap MergedFlags)
                 ELSE IF new.sign = "-" THEN old.flags \ (new.flags \cap MergedFlags)
                 ELSE old.flags
    IN [old EXCEPT !.flags = flags,
                   !.sign = IF flags \cap SignedFlags # {} THEN "+" ELSE "none"]

\* chanmode: the new modes put into the old ones, nothing without a sign.
Merge(old, new) ==
    LET merged == new.flags \cap MergedFlags
        Word(flag, was, is) == IF flag \notin merged THEN was
                               ELSE IF new.sign = "-" THEN None
                               ELSE IF new.sign = "+" /\ is # None THEN is ELSE was
        flags == CASE new.sign = "+" -> old.flags \cup merged
                   [] new.sign = "-" -> old.flags \ merged
                   [] OTHER -> old.flags
    IN [sign |-> IF flags \cap SignedFlags # {} THEN "+" ELSE "none",
        flags |-> flags,
        keyword |-> Word("k", old.keyword, new.keyword),
        limit |-> Word("l", old.limit, new.limit)]

\* What ChannelDataToStr writes.
Stored(data) == [line |-> ChannelModeToStr(data.modes), topic |-> data.topic,
                 greeting |-> data.greeting]

\* addChannel stores two tabs.
NoData == [topic |-> None, greeting |-> None, modes |-> NoModes]
EmptyRecord == [line |-> [letters |-> <<>>, args |-> <<>>], topic |-> None, greeting |-> None]

Lines == [letters : Seq(ModeWords), args : Seq(Words)]
Records == [line : Lines, topic : Texts \cup {None}, greeting : Texts \cup {None}]
Data == [topic : Texts \cup {None}, greeting : Texts \cup {None}, modes : Modes]

\* Modes that chanmode has stored: a keyword and a limit with their letters only,
\* no minus, and no 'i'.
Kept(m) == /\ "k" \in m.flags <=> m.keyword # None
           /\ "l" \in m.flags <=> m.limit # None
           /\ m.sign # "-"
           /\ m.flags \subseteq MergedFlags

ASSUME ChannelsAssumption ==
    /\ None \notin Texts \cup Words \cup Records
    /\ MaxInputs \in Nat
    /\ ModeLines \subseteq Lines
    /\ OldData \subseteq {data \in Data : Kept(data.modes)}

-----------------------------------------------------------------------------
VARIABLES
    record,       \* CHANNEL_DB: the record or None
    server,       \* the channel on the server: topic, flags, and the bot in it
    joining,      \* JoinAllChannelsThread has the channel on its list
    inbox,        \* commands and events that wait for an execution thread
    pc, job,      \* where each thread is, and its locals
    budget,       \* inputs that may still come
    overtaken,    \* history: threads whose record was changed by another since
    missed,       \* history: threads between test and store as it was removed
    late,         \* history: what an overtaken thread has had the last word on
    foreign       \* history: flags other users changed while the bot had op

vars == <<record, server, joining, inbox, pc, job, budget, overtaken, missed, late, foreign>>
history == <<overtaken, missed, late, foreign>>

Commands == {"addchannel", "rmchannel", "join", "part", "topic", "greeting", "chanmode"}

\* TOPIC of another user, MODE or 353 that gives the bot op, KICK of the bot.
Events == {"topicEvent", "opEvent", "kickEvent"}

Items == [line : ModeLines \cup {EmptyRecord.line}, op : Commands \cup Events,
          text : Texts \cup {None}]

\* data is the record as read and changed, or what is to be sent.
Jobs == [item : Items, data : Data]

With(op, text, line) == [line |-> line, op |-> op, text |-> text]
Item(op) == With(op, None, EmptyRecord.line)
Idle == [item |-> Item("join"), data |-> NoData]

Labels == {"idle", "exist", "add", "join", "del", "part", "read", "test", "store",
           "topic", "mode"}

\* The bot has started.
Init == /\ record \in {Stored(data) : data \in OldData} \cup {None}
        /\ server = [topic |-> None, flags |-> {}, op |-> FALSE, in |-> FALSE]
        /\ joining = (record # None)
        /\ inbox = <<>>
        /\ pc = [w \in Workers |-> "idle"]
        /\ job = [w \in Workers |-> Idle]
        /\ budget = MaxInputs
        /\ overtaken = {}
        /\ missed = {}
        /\ late = {}
        /\ foreign = {}

Goto(w, label) == /\ pc' = [pc EXCEPT ![w] = label]
                  /\ job' = IF label = "idle" THEN [job EXCEPT ![w] = Idle] ELSE job

\* w has no copy of the record any more, or one that is up to date.
Forget(w) == overtaken' = overtaken \ {w} /\ missed' = missed \ {w}

Return(w) == Goto(w, "idle") /\ Forget(w)

-----------------------------------------------------------------------------
(* The server and its users. *)

Spend == budget > 0 /\ budget' = budget - 1

\* A line of a user that is a command.
Say(item) == /\ Spend
             /\ inbox' = Append(inbox, item)
             /\ UNCHANGED <<record, server, joining, pc, job, history>>

\* Another user changes the topic; the server tells those in the channel.
OtherTopic(text) ==
    /\ Spend
    /\ server' = [server EXCEPT !.topic = text]
    /\ inbox' = IF server.in THEN Append(inbox, Item("topicEvent")) ELSE inbox
    /\ UNCHANGED <<record, joining, pc, job, history>>

\* Another user changes a mode; hResetModes does nothing about it.
OtherMode(f) ==
    /\ Spend
    /\ server' = [server EXCEPT !.flags = IF f \in @ THEN @ \ {f} ELSE @ \cup {f}]
    /\ foreign' = IF server.op THEN foreign \cup {f} ELSE foreign
    /\ UNCHANGED <<record, joining, inbox, pc, job, overtaken, missed, late>>

\* Another user gives the bot op or takes it: hResetModes only asks for it then.
OtherOp == /\ Spend
           /\ server.in
           /\ server' = [server EXCEPT !.op = ~ @]
           /\ inbox' = IF server.op THEN inbox ELSE Append(inbox, Item("opEvent"))
           /\ UNCHANGED <<record, joining, pc, job, history>>

OtherKick == /\ Spend
             /\ server.in
             /\ server' = [server EXCEPT !.in = FALSE, !.op = FALSE]
             /\ inbox' = Append(inbox, Item("kickEvent"))
             /\ UNCHANGED <<record, joining, pc, job, history>>

\* The server takes a JOIN: the first one in a channel creates it and has op, of
\* which the names in the answer tell (hBotNeedOp).
TakeJoin == \/ /\ server.in
               /\ UNCHANGED <<server, inbox>>
            \/ /\ ~ server.in
               /\ server' = [server EXCEPT !.in = TRUE]
               /\ UNCHANGED inbox
            \/ /\ ~ server.in
               /\ server' = [topic |-> None, flags |-> {}, op |-> TRUE, in |-> TRUE]
               /\ inbox' = Append(inbox, Item("opEvent"))

\* It takes a topic if the sender has op or the channel is without 't', a mode if
\* the sender has op.
TakesTopic == server.in /\ (server.op \/ "t" \notin server.flags)
TakesModes == server.in /\ server.op

-----------------------------------------------------------------------------
(* The execution threads. *)

Entry(op) == CASE op = "addchannel" -> "exist"
               [] op = "rmchannel" -> "del"
               [] op \in {"join", "kickEvent"} -> "join"
               [] op = "part" -> "part"
               [] OTHER -> "read"

\* popQueue and the call of the handler.
Dispatch(w) == /\ pc[w] = "idle"
               /\ inbox # <<>>
               /\ inbox' = Tail(inbox)
               /\ pc' = [pc EXCEPT ![w] = Entry(Head(inbox).op)]
               /\ job' = [job EXCEPT ![w].item = Head(inbox)]
               /\ UNCHANGED <<record, server, joining, budget, history>>

\* The threads whose copy of the record is old once w has changed it.
Overtaken(w) == {v \in Workers \ {w} : pc[v] \in {"test", "store", "topic", "mode"}}

AddExist(w) == /\ pc[w] = "exist"
               /\ Goto(w, IF record = None THEN "add" ELSE "idle")
               /\ UNCHANGED <<record, server, joining, inbox, budget, history>>

\* add_db keeps a record that is there by now, and join follows in any case.
Add(w) == /\ pc[w] = "add"
          /\ Goto(w, "join")
          /\ record' = IF record = None THEN EmptyRecord ELSE record
          /\ overtaken' = IF record = None THEN overtaken \cup Overtaken(w) ELSE overtaken
          /\ UNCHANGED <<server, joining, inbox, budget, missed, late, foreign>>

Join(w) == /\ pc[w] = "join"
           /\ Return(w)
           /\ TakeJoin
           /\ UNCHANGED <<record, joining, budget, late, foreign>>

Delete(w) == /\ pc[w] = "del"
             /\ Goto(w, "part")
             /\ record' = None
             /\ IF record = None THEN UNCHANGED <<overtaken, missed>>
                ELSE /\ overtaken' = overtaken \cup Overtaken(w)
                     /\ missed' = missed \cup {v \in Workers : pc[v] = "store"}
             /\ UNCHANGED <<server, joining, inbox, budget, late, foreign>>

Part(w) == /\ pc[w] = "part"
           /\ Return(w)
           /\ server' = [server EXCEPT !.in = FALSE, !.op = FALSE]
           /\ UNCHANGED <<record, joining, inbox, budget, late, foreign>>

\* The handlers that read the record; only the commands store it.
Stores(op) == op \in {"topic", "greeting", "chanmode"}

\* StrToChannelData, and the field that the command changes.
Changed(item) ==
    LET modes == StrToChannelMode(record.line)
        data == [topic |-> record.topic, greeting |-> record.greeting, modes |-> modes]
    IN CASE item.op = "topic" -> [data EXCEPT !.topic = item.text]
         [] item.op = "greeting" -> [data EXCEPT !.greeting = item.text]
         [] item.op = "chanmode" -> [data EXCEPT !.modes = Merge(@, StrToChannelMode(item.line))]
         [] OTHER -> data

\* A conversion that does not fault; hResetTopic converts no modes.
Readable(item) == /\ item.op # "topicEvent" => ~ Faults(record.line)
                  /\ item.op = "chanmode" => ~ Faults(item.line)

\* Fault variant: channelInit sends no topic.
AfterRead_NoTopic(op) == IF Stores(op) THEN "test"
                         ELSE IF op = "opEvent" THEN "mode" ELSE "topic"

\* channelInit sends a topic if there is one, hResetTopic sends one anyhow.
AfterRead(op) == IF Stores(op) THEN "test"
                 ELSE IF op = "opEvent" /\ record.topic = None THEN "mode" ELSE "topic"

Read(w) ==
    /\ pc[w] = "read"
    /\ IF record = None
       THEN Return(w)
       ELSE /\ Readable(job[w].item)
            /\ pc' = [pc EXCEPT ![w] = AfterRead(job[w].item.op)]
            /\ job' = [job EXCEPT ![w].data = Changed(job[w].item)]
            /\ UNCHANGED <<overtaken, missed>>
    /\ UNCHANGED <<record, server, joining, inbox, budget, late, foreign>>

\* Where a command goes on behind its write, be it successful or not.
AfterStore(op) == CASE op = "topic" -> "topic" [] op = "chanmode" -> "mode" [] OTHER -> "idle"

\* Fault variant: the record is stored whether there is one or not.
ReplaceTest_Skip(w) == /\ pc[w] = "test"
                       /\ Goto(w, "store")
                       /\ UNCHANGED <<record, server, joining, inbox, budget, history>>

\* replace_db tests whether there is a record.
ReplaceTest(w) == /\ pc[w] = "test"
                  /\ IF record # None
                     THEN Goto(w, "store") /\ UNCHANGED <<overtaken, missed>>
                     ELSE Goto(w, AfterStore(job[w].item.op)) /\ Forget(w)
                  /\ UNCHANGED <<record, server, joining, inbox, budget, late, foreign>>

\* Then it stores all of it.
Store(w) ==
    /\ pc[w] = "store"
    /\ record' = Stored(job[w].data)
    /\ Goto(w, AfterStore(job[w].item.op))
    /\ overtaken' = (overtaken \ {w}) \cup Overtaken(w)
    /\ missed' = missed \ {w}
    /\ late' = IF w \in overtaken THEN {"topic", "mode"} ELSE late
    /\ UNCHANGED <<server, joining, inbox, budget, foreign>>

\* What the server has heard last is old if the sender was overtaken.
Heard(w, what) == late' = IF w \in overtaken THEN late \cup {what} ELSE late \ {what}

\* Fault variant: channelInit ends with the topic.
AfterTopic_Idle(op) == "idle"

AfterTopic(op) == IF op = "opEvent" THEN "mode" ELSE "idle"

SendTopic(w) ==
    /\ pc[w] = "topic"
    /\ LET label == AfterTopic(job[w].item.op)
       IN Goto(w, label) /\ IF label = "idle" THEN Forget(w) ELSE UNCHANGED <<overtaken, missed>>
    /\ IF TakesTopic
       THEN server' = [server EXCEPT !.topic = job[w].data.topic] /\ Heard(w, "topic")
       ELSE UNCHANGED <<server, late>>
    /\ UNCHANGED <<record, joining, inbox, budget, foreign>>

\* The modes that are sent: all in channelInit, in chanmode those it was given.
Sent(w) == IF job[w].item.op = "opEvent" THEN job[w].data.modes
           ELSE StrToChannelMode(job[w].item.line)

SendModes(w) ==
    /\ pc[w] = "mode"
    /\ Return(w)
    /\ IF TakesModes
       THEN /\ server' = [server EXCEPT !.flags = IF Sent(w).sign = "-" THEN @ \ Sent(w).flags
                                                  ELSE @ \cup Sent(w).flags]
            /\ foreign' = foreign \ Sent(w).flags
            /\ IF job[w].item.op = "opEvent" \/ w \in overtaken THEN Heard(w, "mode")
               ELSE UNCHANGED late
       ELSE UNCHANGED <<server, late, foreign>>
    /\ UNCHANGED <<record, joining, inbox, budget>>

-----------------------------------------------------------------------------
(* The bot dies and is started again. *)

JoinAll == /\ joining
           /\ joining' = FALSE
           /\ TakeJoin
           /\ UNCHANGED <<record, pc, job, budget, history>>

Restart == /\ server' = [server EXCEPT !.in = FALSE, !.op = FALSE]
           /\ joining' = (record # None)
           /\ inbox' = <<>>
           /\ pc' = [w \in Workers |-> "idle"]
           /\ job' = [w \in Workers |-> Idle]
           /\ overtaken' = {}
           /\ missed' = {}
           /\ UNCHANGED <<record, late, foreign>>

\* The process is killed.
Kill == Spend /\ Restart

\* A conversion reads a null pointer.
Crash(w) == /\ pc[w] = "read"
            /\ record # None
            /\ ~ Readable(job[w].item)
            /\ Restart
            /\ UNCHANGED budget

-----------------------------------------------------------------------------
User == \/ \E op \in {"addchannel", "rmchannel", "join", "part"} : Say(Item(op))
        \/ \E op \in {"topic", "greeting"}, text \in Texts \cup {None} :
               Say(With(op, text, EmptyRecord.line))
        \/ \E line \in ModeLines : Say(With("chanmode", None, line))

Other == \/ \E text \in Texts : OtherTopic(text)
         \/ \E f \in Flags \ {"k", "l"} : OtherMode(f)
         \/ OtherOp \/ OtherKick

Work(w) == \/ Dispatch(w) \/ AddExist(w) \/ Add(w) \/ Join(w) \/ Delete(w) \/ Part(w)
           \/ Read(w) \/ ReplaceTest(w) \/ Store(w) \/ SendTopic(w) \/ SendModes(w)

Next == \/ User \/ Other
        \/ \E w \in Workers : Work(w) \/ Crash(w)
        \/ JoinAll \/ Kill

Spec == Init /\ [][Next]_vars

-----------------------------------------------------------------------------
(* Properties. *)

TypeOK == /\ record \in Records \cup {None}
          /\ server \in [topic : Texts \cup {None}, flags : SUBSET Flags,
                         op : BOOLEAN, in : BOOLEAN]
          /\ joining \in BOOLEAN
          /\ inbox \in Seq(Items)
          /\ pc \in [Workers -> Labels]
          /\ job \in [Workers -> Jobs]
          /\ budget \in 0..MaxInputs
          /\ overtaken \subseteq Workers
          /\ missed \subseteq Workers
          /\ late \subseteq {"topic", "mode"}
          /\ foreign \subseteq Flags

\* Reading a record back never reads a null pointer: 'k' and 'l' have their
\* argument whatever was added, removed and converted before.
RecordReadable == record # None => ~ Faults(record.line)

\* chanmode, setTopic and setGreeting write back what they read: a write changes
\* the field of its command alone, unless another thread changed the record since.
WriteKeepsOthers ==
    [][\A w \in Workers :
         pc[w] = "store" /\ pc'[w] # "store" /\ record' # None /\ w \notin overtaken =>
           /\ record # None
           /\ LET op == job[w].item.op
              IN /\ op # "chanmode" => record'.line = record.line
                 /\ op # "topic" => record'.topic = record.topic
                 /\ op # "greeting" => record'.greeting = record.greeting]_vars

\* A channel that rmchannel has removed comes back by addchannel alone, or by a
\* command that was between the test and the store of replace_db meanwhile.
RemovedStaysRemoved ==
    [][record = None /\ record' # None =>
         \E w \in Workers : pc[w] = "add" \/ (pc[w] = "store" /\ w \in missed)]_vars

\* Nothing is under way, and the bot may change the channel.
Settled == /\ inbox = <<>> /\ ~ joining
           /\ \A w \in Workers : pc[w] = "idle"
           /\ server.in /\ server.op
           /\ record # None

\* The channel gets the topic of the record back whatever other users do to it,
\* and whenever the bot lost op, was kicked or died, unless a thread whose record
\* was old had the last word.
TopicRestored == Settled /\ record.topic # None /\ "topic" \notin late =>
                     server.topic = record.topic

\* Every mode of the record is set, except those other users took away while the
\* bot had op.
ModesSet == Settled /\ "mode" \notin late =>
                StrToChannelMode(record.line).flags \subseteq server.flags \cup foreign
=============================================================================
