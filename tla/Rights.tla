------------------------------- MODULE Rights -------------------------------
(***************************************************************************)
(* The access rights: the databases ACCESS_DB and CHANNEL_DB beside the    *)
(* accounts and sessions, the level of a caller (getUserLevel,             *)
(* AccessRight), and the commands that change rights or what they hang on: *)
(* !hello, !ident, !logoff, !accountmode, !addchannel, !rmchannel,         *)
(* !rmaccount and the account sweep of the timing thread; and !kick and    *)
(* !ban, which ask the server for the netmask of the user and decide by    *)
(* the rights when the answer comes (callback.c, checkUserLevel).          *)
(*                                                                         *)
(* ACCESS_DB has two kinds of keys: a login alone, for a master, and a     *)
(* login followed by a channel.  They are two variables here.  Each access *)
(* of ACCESS_DB is a step; log_on, log_out and __log_out are one step each *)
(* (Sessions has them in detail).  The callback list is CallbackList's      *)
(* subject; here the answers come in the order of the questions.           *)
(***************************************************************************)
EXTENDS Naturals, Sequences, FiniteSets

CONSTANTS
    Workers,      \* the execution threads
    Timer,        \* the timing thread
    Masks,        \* netmasks, nick!user@host
    Logins,       \* account names
    Channels,     \* channel names
    NickOf,       \* the nickname in a netmask, the account !hello creates
    MaxCommands,  \* bound: number of commands and sweeps that are started
    None          \* no database entry, no login, no channel

Threads == Workers \cup {Timer}

\* What an entry says: hello stores "m", accountmode a sign and a letter.  "?"
\* is a letter nobody asked for (see Letter).
MasterValues == {"m", "+m"}
ChannelValues == {"+v", "+o", "+?"}

ASSUME RightsAssumption == /\ Timer \notin Workers
                           /\ NickOf \in [Masks -> Logins]
                           /\ MaxCommands \in Nat
                           /\ None \notin Logins \cup Masks \cup Channels \cup Threads
                           /\ None \notin MasterValues \cup ChannelValues

\* UserLevel_t
NoneLevel == 0
LoggedLevel == 1
FriendLevel == 2
OwnerLevel == 3
MasterLevel == 4

VARIABLES
    users,        \* the keys of USER_DB
    channels,     \* the keys of CHANNEL_DB
    master,       \* ACCESS_DB under a login
    right,        \* ACCESS_DB under a login and a channel
    n2u, u2n,     \* NICKTOUSER_DB and USERTONICK_DB
    mutex,        \* mutexAccount: its owner or None
    pc, job,      \* where each thread is, and its locals
    asked,        \* the callback items of !kick and !ban, oldest first
    budget,       \* the commands that may still be started
    founders,     \* history: existing accounts that hello made a master
    rivals,       \* history: two hellos have overlapped
    excused       \* history: logins whose rights an account removal may miss

vars == <<users, channels, master, right, n2u, u2n, mutex, pc, job, asked, budget,
          founders, rivals, excused>>
access == <<master, right>>
sessions == <<n2u, u2n>>
history == <<founders, rivals, excused>>

Ops == {"hello", "ident", "logoff", "accountmode", "addchannel", "rmchannel",
        "rmaccount", "kick", "ban"}

\* mask, op, target, chan, sign and letter are the command; login and level are
\* what getUserLevel finds; first is "the list of accounts is empty"; old the
\* old mode; victim the netmask of the user to be kicked; rest the channels
\* rmAccessRights has still to visit; unset is true if mod[1] was read without
\* being written, byMaster what the level should say.
Jobs == [op : Ops, mask : Masks \cup {None}, target : Logins \cup {None},
         chan : Channels \cup {None}, sign : {"+", "-"}, letter : {"v", "o", "m", "?"},
         login : Logins \cup {None}, level : 0..4, first : BOOLEAN,
         old : MasterValues \cup ChannelValues \cup {None},
         victim : Masks \cup {None}, rest : SUBSET Channels,
         unset : BOOLEAN, byMaster : BOOLEAN]

Idle == [op |-> "hello", mask |-> None, target |-> None, chan |-> None, sign |-> "+",
         letter |-> "o", login |-> None, level |-> 0, first |-> FALSE, old |-> None,
         victim |-> None, rest |-> {}, unset |-> FALSE, byMaster |-> FALSE]

\* What a callback item holds: who asked, for which channel, and whom to kick.
Questions == [op : {"kick", "ban"}, login : Logins, chan : Channels, victim : Masks]

Labels == {"idle", "channelLevel", "masterLevel", "access",
           "list", "add", "on", "first", "firstAdd", "firstReplace", "firstStore",
           "check", "out", "channel",
           "modeCheck", "oldMode", "oldMaster", "delMaster", "set", "replace", "store",
           "exist", "remove", "rights", "rightsList", "rightsNext", "user",
           "ask", "caller", "victimRight", "victimMaster", "callerMaster", "kick"}

\* The labels of an account removal, from the lock to the unlock.
Removing == {"rights", "rightsList", "rightsNext", "user"}
IsRemoval(j) == j.op = "rmaccount"

\* The bot is at rest: any databases whose rights belong to accounts and listed
\* channels (owners only; "+v" comes from accountmode), and any sessions.
Init == /\ users \in SUBSET Logins
        /\ channels \in SUBSET Channels
        /\ master \in {f \in [Logins -> MasterValues \cup {None}] :
                         \A l \in Logins : f[l] # None => l \in users}
        /\ right \in {f \in [Logins -> [Channels -> {"+o", None}]] :
                        \A l \in Logins, c \in Channels :
                            f[l][c] # None => l \in users /\ c \in channels}
        /\ n2u \in [Masks -> users \cup {None}]
        /\ u2n \in [Logins -> Masks \cup {None}]
        /\ \A m \in Masks, l \in Logins : n2u[m] = l <=> u2n[l] = m
        /\ mutex = None
        /\ pc = [t \in Threads |-> "idle"]
        /\ job = [t \in Threads |-> Idle]
        /\ asked = <<>>
        /\ budget = MaxCommands
        /\ founders = {}
        /\ rivals = FALSE
        /\ excused = {}

Goto(t, b) == pc' = [pc EXCEPT ![t] = b]

\* The handler returns.
Return(t) == Goto(t, "idle") /\ job' = [job EXCEPT ![t] = Idle]

-----------------------------------------------------------------------------
(* The level of the caller. *)

\* AccessRight: what each command asks for.
Needs(op) == CASE op \in {"hello", "ident"} -> NoneLevel
               [] op = "logoff" -> LoggedLevel
               [] op \in {"accountmode", "kick", "ban"} -> OwnerLevel
               [] OTHER -> MasterLevel

\* Where the handler of a command begins.
Entry(op) == CASE op = "hello" -> "list"
               [] op = "ident" -> "check"
               [] op = "logoff" -> "out"
               [] op = "accountmode" -> "modeCheck"
               [] op = "rmaccount" -> "exist"
               [] op \in {"kick", "ban"} -> "ask"
               [] OTHER -> "channel"

\* What an entry of a channel is worth; one without 'o' and 'v' hides a master's.
ChannelLevel(value) == CASE value = "+o" -> OwnerLevel
                         [] value = "+v" -> FriendLevel
                         [] OTHER -> LoggedLevel

\* A line from the queue: getUserLevel looks for the login of the netmask.
Dispatch(w, m, op, l, c, s, x) ==
    /\ pc[w] = "idle" /\ budget > 0
    /\ budget' = budget - 1
    /\ Goto(w, IF n2u[m] = None THEN "access"
                       ELSE IF c = None THEN "masterLevel" ELSE "channelLevel")
    /\ job' = [job EXCEPT ![w] =
                 [Idle EXCEPT !.op = op, !.mask = m, !.target = l, !.chan = c, !.sign = s,
                              !.letter = x, !.login = n2u[m],
                              !.level = IF n2u[m] = None THEN NoneLevel ELSE LoggedLevel]]
    /\ UNCHANGED <<users, channels, access, sessions, mutex, asked, history>>

ReadChannelLevel(w) ==
    /\ pc[w] = "channelLevel"
    /\ LET value == right[job[w].login][job[w].chan]
       IN IF value = None
          THEN Goto(w, "masterLevel") /\ UNCHANGED job
          ELSE /\ Goto(w, "access")
               /\ job' = [job EXCEPT ![w].level = ChannelLevel(value)]
    /\ UNCHANGED <<users, channels, access, sessions, mutex, asked, budget, history>>

ReadMasterLevel(w) ==
    /\ pc[w] = "masterLevel"
    /\ Goto(w, "access")
    /\ LET found == master[job[w].login] # None
       IN job' = [job EXCEPT ![w].level = IF found THEN MasterLevel ELSE @,
                             ![w].byMaster = found]
    /\ UNCHANGED <<users, channels, access, sessions, mutex, asked, budget, history>>

\* AccessRight and the call of the handler.
Access(w) == /\ pc[w] = "access"
             /\ IF job[w].level >= Needs(job[w].op)
                THEN Goto(w, Entry(job[w].op)) /\ UNCHANGED job
                ELSE Return(w)
             /\ UNCHANGED <<users, channels, access, sessions, mutex, asked, budget,
                            history>>

-----------------------------------------------------------------------------
(* Sessions. *)

\* What log_on does to the two databases, in its critical section.
LogOn(l, m) ==
    LET without == IF u2n[l] = None THEN n2u ELSE [n2u EXCEPT ![u2n[l]] = None]
    IN /\ n2u' = IF without[m] = None THEN [without EXCEPT ![m] = l] ELSE without
       /\ u2n' = [u2n EXCEPT ![l] = m]

\* What __log_out does to them.
LogOut(l) == IF u2n[l] = None THEN UNCHANGED sessions
             ELSE /\ n2u' = [n2u EXCEPT ![u2n[l]] = None]
                  /\ u2n' = [u2n EXCEPT ![l] = None]

\* !ident: not logged on yet, and the account exists with this password.
IdentCheck(w) == /\ pc[w] = "check"
                 /\ IF n2u[job[w].mask] = None /\ job[w].target \in users
                    THEN Goto(w, "on") /\ UNCHANGED job
                    ELSE Return(w)
                 /\ UNCHANGED <<users, channels, access, sessions, mutex, asked,
                                budget, history>>

\* log_on, for !ident and !hello.
Logon(w) == /\ pc[w] = "on"
            /\ mutex = None
            /\ IF job[w].op = "hello"
               THEN Goto(w, "first") /\ UNCHANGED job
               ELSE Return(w)
            /\ LogOn(job[w].target, job[w].mask)
            /\ UNCHANGED <<users, channels, access, mutex, asked, budget, history>>

\* !logoff: the login is read once more, then log_out.
Logoff(w) == /\ pc[w] = "out"
             /\ mutex = None
             /\ Return(w)
             /\ LET l == n2u[job[w].mask]
                IN IF l = None THEN UNCHANGED sessions ELSE LogOut(l)
             /\ UNCHANGED <<users, channels, access, mutex, asked, budget, history>>

-----------------------------------------------------------------------------
(* !hello *)

InHello(t) == job[t].op = "hello" /\ pc[t] \in {"add", "on", "first", "firstAdd",
                                                "firstReplace", "firstStore"}

\* The list of accounts, before the new one is added.
HelloList(w) == /\ pc[w] = "list"
                /\ IF job[w].level > LoggedLevel
                   THEN Return(w) /\ UNCHANGED rivals
                   ELSE /\ Goto(w, "add")
                        /\ job' = [job EXCEPT ![w].target = NickOf[job[w].mask],
                                              ![w].first = (users = {})]
                        /\ rivals' = (rivals \/ \E t \in Workers : InHello(t))
                /\ UNCHANGED <<users, channels, access, sessions, mutex, asked, budget,
                               founders, excused>>

HelloAdd(w) == /\ pc[w] = "add"
               /\ Goto(w, IF job[w].target \in users THEN "first" ELSE "on")
               /\ users' = users \cup {job[w].target}
               /\ UNCHANGED <<channels, access, sessions, mutex, job, asked, budget,
                              history>>

\* Fault variant: the list is not asked.
HelloFirst_Always(w) ==
    /\ pc[w] = "first"
    /\ Goto(w, IF master[job[w].target] = None THEN "firstAdd" ELSE "firstReplace")
    /\ UNCHANGED <<users, channels, access, sessions, mutex, job, asked, budget,
                   history>>

\* The first account is a master - also if add_db failed.
HelloFirst(w) ==
    /\ pc[w] = "first"
    /\ IF job[w].first
       THEN /\ Goto(w, IF master[job[w].target] = None THEN "firstAdd" ELSE "firstReplace")
            /\ UNCHANGED job
       ELSE Return(w)
    /\ UNCHANGED <<users, channels, access, sessions, mutex, asked, budget, history>>

\* A write that an account removal cannot undo, because it is over, because it
\* has begun, or because the channel is not on the list it goes by.
Late(l, c) == \/ l \notin users
              \/ c # None /\ c \notin channels
              \/ \E t \in Threads : /\ IsRemoval(job[t])
                                    /\ job[t].target = l
                                    /\ pc[t] \in Removing

Excuse(l, c) == excused' = IF Late(l, c) THEN excused \cup {l} ELSE excused

FirstMaster(w) ==
    /\ Return(w)
    /\ master' = [master EXCEPT ![job[w].target] = "m"]
    /\ founders' = (founders \cup {job[w].target}) \cap users
    /\ Excuse(job[w].target, None)
    /\ UNCHANGED <<users, channels, right, sessions, mutex, asked, budget, rivals>>

\* add_db fails if there is an entry now.
HelloFirstAdd(w) ==
    /\ pc[w] = "firstAdd"
    /\ \/ master[job[w].target] = None /\ FirstMaster(w)
       \/ /\ master[job[w].target] # None
          /\ Return(w)
          /\ UNCHANGED <<users, channels, access, sessions, mutex, asked, budget,
                         history>>

\* replace_db tests once more that there is one, and stores in any case.
HelloFirstReplace(w) ==
    /\ pc[w] = "firstReplace"
    /\ IF master[job[w].target] # None
       THEN Goto(w, "firstStore") /\ UNCHANGED job
       ELSE Return(w)
    /\ UNCHANGED <<users, channels, access, sessions, mutex, asked, budget, history>>

HelloFirstStore(w) == pc[w] = "firstStore" /\ FirstMaster(w)

-----------------------------------------------------------------------------
(* !addchannel and !rmchannel *)

ChangeChannel(w) ==
    /\ pc[w] = "channel"
    /\ Return(w)
    /\ LET c == job[w].chan
       IN IF job[w].op = "addchannel"
          THEN /\ channels' = channels \cup {c}
               /\ UNCHANGED excused
          ELSE /\ channels' = channels \ {c}
               /\ excused' = excused \cup {l \in Logins : right[l][c] # None}
    /\ UNCHANGED <<users, access, sessions, mutex, asked, budget, founders, rivals>>

-----------------------------------------------------------------------------
(* rmAccessRights, called by rmAccount and by !accountmode *)

\* Fault variant: the master entry is forgotten.
DelMasterRight_Keep(t) ==
    /\ pc[t] = "rights"
    /\ Goto(t, "rightsList")
    /\ UNCHANGED <<users, channels, access, sessions, mutex, job, asked, budget,
                   history>>

DelMasterRight(t) ==
    /\ pc[t] = "rights"
    /\ Goto(t, "rightsList")
    /\ master' = [master EXCEPT ![job[t].target] = None]
    /\ UNCHANGED <<users, channels, right, sessions, mutex, job, asked, budget,
                   history>>

ListChannels(t) ==
    /\ pc[t] = "rightsList"
    /\ Goto(t, "rightsNext")
    /\ job' = [job EXCEPT ![t].rest = channels]
    /\ UNCHANGED <<users, channels, access, sessions, mutex, asked, budget, history>>

DelChannelRight(t, c) ==
    /\ pc[t] = "rightsNext"
    /\ c \in job[t].rest
    /\ job' = [job EXCEPT ![t].rest = @ \ {c}]
    /\ right' = [right EXCEPT ![job[t].target][c] = None]
    /\ UNCHANGED <<users, channels, master, sessions, mutex, pc, asked, budget,
                   history>>

RightsRemoved(t) ==
    /\ pc[t] = "rightsNext"
    /\ job[t].rest = {}
    /\ Goto(t, IF IsRemoval(job[t]) THEN "user" ELSE "set")
    /\ UNCHANGED <<users, channels, access, sessions, mutex, job, asked, budget,
                   history>>

-----------------------------------------------------------------------------
(* !rmaccount and the sweep *)

RmAccountExist(w) == /\ pc[w] = "exist"
                     /\ IF job[w].target \in users
                        THEN Goto(w, "remove") /\ UNCHANGED job
                        ELSE Return(w)
                     /\ UNCHANGED <<users, channels, access, sessions, mutex, asked,
                                    budget, history>>

\* rmDeadAccounts: the list it iterates may name an account that is gone.
Sweep(l) == /\ pc[Timer] = "idle" /\ budget > 0
            /\ budget' = budget - 1
            /\ Goto(Timer, "remove")
            /\ job' = [job EXCEPT ![Timer] = [Idle EXCEPT !.op = "rmaccount", !.target = l]]
            /\ UNCHANGED <<users, channels, access, sessions, mutex, asked, history>>

\* rmAccount: lock, __log_out.
Remove(t) == /\ pc[t] = "remove"
             /\ mutex = None
             /\ mutex' = t
             /\ Goto(t, "rights")
             /\ LogOut(job[t].target)
             /\ UNCHANGED <<users, channels, access, job, asked, budget, history>>

\* USER_DB and TIMELOG_DB, unlock.
RemoveUser(t) == /\ pc[t] = "user"
                 /\ Return(t)
                 /\ users' = users \ {job[t].target}
                 /\ founders' = founders \ {job[t].target}
                 /\ mutex' = None
                 /\ UNCHANGED <<channels, access, sessions, asked, budget, rivals,
                                excused>>

-----------------------------------------------------------------------------
(* !accountmode *)

\* The caller is logged on, the channel is listed, the account exists.  strcmp
\* compares the names with their case, so a caller may name himself in another
\* spelling.
ModeCheck(w) ==
    /\ pc[w] = "modeCheck"
    /\ \/ /\ n2u[job[w].mask] # None
          /\ job[w].chan \in channels
          /\ job[w].target \in users
          /\ Goto(w, "oldMode")
          /\ job' = [job EXCEPT ![w].login = n2u[job[w].mask]]
       \/ /\ \/ n2u[job[w].mask] = None
             \/ job[w].chan \notin channels
             \/ job[w].target \notin users
             \/ n2u[job[w].mask] = job[w].target
          /\ Return(w)
    /\ UNCHANGED <<users, channels, access, sessions, mutex, asked, budget, history>>

\* Fault variant: everybody who may call accountmode may make a master.
Letter_Unchecked(j) == {[letter |-> j.letter, unset |-> FALSE]}

\* mod[1] behind the switch: what was asked for; but only a master writes 'm', and
\* after the message to another one mod[1] is what happened to be there.
Letter(j) == IF j.letter = "m" /\ j.level # MasterLevel
             THEN {[letter |-> x, unset |-> TRUE] : x \in {"v", "o", "m", "?"}}
             ELSE {[letter |-> j.letter, unset |-> FALSE]}

\* What follows the read of the old mode.  oldmod[1] of "m" is the end of it.
Decide(letter, old) == IF letter # "m"
                       THEN IF old = "+m" THEN "delMaster" ELSE "set"
                       ELSE IF old # None /\ old # "+m" THEN "rights" ELSE "set"

Modify(w, old) == \E x \in Letter(job[w]) :
    /\ Goto(w, Decide(x.letter, old))
    /\ job' = [job EXCEPT ![w].old = old, ![w].letter = x.letter, ![w].unset = x.unset]

OldMode(w) ==
    /\ pc[w] = "oldMode"
    /\ LET old == right[job[w].target][job[w].chan]
       IN IF old # None THEN Modify(w, old)
          ELSE Goto(w, "oldMaster") /\ UNCHANGED job
    /\ UNCHANGED <<users, channels, access, sessions, mutex, asked, budget, history>>

\* Fault variant: an owner may modify a master.
OldMaster_Any(w) ==
    /\ pc[w] = "oldMaster"
    /\ Modify(w, master[job[w].target])
    /\ UNCHANGED <<users, channels, access, sessions, mutex, asked, budget, history>>

\* Only a master can modify a master.
OldMaster(w) ==
    /\ pc[w] = "oldMaster"
    /\ LET old == master[job[w].target]
       IN IF old # None /\ job[w].level # MasterLevel
          THEN Return(w)
          ELSE Modify(w, old)
    /\ UNCHANGED <<users, channels, access, sessions, mutex, asked, budget, history>>

DelOldMaster(w) ==
    /\ pc[w] = "delMaster"
    /\ Goto(w, "set")
    /\ master' = [master EXCEPT ![job[w].target] = None]
    /\ UNCHANGED <<users, channels, right, sessions, mutex, job, asked, budget,
                   history>>

\* The entry a mode is written to, and the channel it depends on.
Found(j) == IF j.letter = "m" THEN master[j.target] ELSE right[j.target][j.chan]
Depends(j) == IF j.letter = "m" THEN None ELSE j.chan

Write(j, value) == IF j.letter = "m"
                   THEN /\ master' = [master EXCEPT ![j.target] = value]
                        /\ UNCHANGED right
                   ELSE /\ right' = [right EXCEPT ![j.target][j.chan] = value]
                        /\ UNCHANGED master

\* Fault variant: the sign is not written.
Value_NoSign(j) == j.letter

\* "+" and the letter.
Value(j) == CASE j.letter = "m" -> "+m" [] j.letter = "o" -> "+o"
              [] j.letter = "v" -> "+v" [] OTHER -> "+?"

\* del_db for '-'; add_db for '+', which fails if there is an entry.
SetMode(w) ==
    \/ /\ pc[w] = "set" /\ job[w].sign = "-"
       /\ Return(w)
       /\ Write(job[w], None)
       /\ UNCHANGED <<users, channels, sessions, mutex, asked, budget, history>>
    \/ /\ pc[w] = "set" /\ job[w].sign = "+"
       /\ Found(job[w]) = None
       /\ Return(w)
       /\ Write(job[w], Value(job[w]))
       /\ Excuse(job[w].target, Depends(job[w]))
       /\ UNCHANGED <<users, channels, sessions, mutex, asked, budget, founders,
                      rivals>>
    \/ /\ pc[w] = "set" /\ job[w].sign = "+"
       /\ Found(job[w]) # None
       /\ Goto(w, "replace")
       /\ UNCHANGED <<users, channels, access, sessions, mutex, job, asked, budget,
                      history>>

ReplaceMode(w) ==
    /\ pc[w] = "replace"
    /\ IF Found(job[w]) # None
       THEN Goto(w, "store") /\ UNCHANGED job
       ELSE Return(w)
    /\ UNCHANGED <<users, channels, access, sessions, mutex, asked, budget, history>>

StoreMode(w) ==
    /\ pc[w] = "store"
    /\ Return(w)
    /\ Write(job[w], Value(job[w]))
    /\ Excuse(job[w].target, Depends(job[w]))
    /\ UNCHANGED <<users, channels, sessions, mutex, asked, budget, founders, rivals>>

-----------------------------------------------------------------------------
(* !kick and !ban *)

\* The callback item, and the WHOIS.
Ask(w) == /\ pc[w] = "ask"
          /\ n2u[job[w].mask] # None
          /\ Return(w)
          /\ \E v \in Masks :
                asked' = Append(asked, [op |-> job[w].op, login |-> n2u[job[w].mask],
                                        chan |-> job[w].chan, victim |-> v])
          /\ UNCHANGED <<users, channels, access, sessions, mutex, budget, history>>

\* Only !kick looks whether the caller is still logged on.
AskNot(w) == /\ pc[w] = "ask" /\ job[w].op = "kick"
             /\ n2u[job[w].mask] = None
             /\ Return(w)
             /\ UNCHANGED <<users, channels, access, sessions, mutex, asked, budget, history>>

\* 311: the callback begins with the login of the user's netmask.
Answer(w) ==
    /\ pc[w] = "idle" /\ asked # <<>>
    /\ asked' = Tail(asked)
    /\ Goto(w, "caller")
    /\ LET q == Head(asked)
       IN job' = [job EXCEPT ![w] = [Idle EXCEPT !.op = q.op, !.login = q.login, !.chan = q.chan,
                                                 !.victim = q.victim, !.target = n2u[q.victim]]]
    /\ UNCHANGED <<users, channels, access, sessions, mutex, budget, history>>

\* 401: there is no such user.
NoAnswer(w) == /\ pc[w] = "idle" /\ asked # <<>>
               /\ asked' = Tail(asked)
               /\ UNCHANGED <<users, channels, access, sessions, mutex, pc, job, budget, history>>

\* The netmask of the caller, who must still be logged on.  Without a login of the
\* user, checkUserLevel decides by a pointer it has not set.
CallerMask(w) ==
    /\ pc[w] = "caller"
    /\ LET m == u2n[job[w].login]
       IN \/ /\ m # None
             /\ job' = [job EXCEPT ![w].mask = m]
             /\ \/ job[w].target # None /\ Goto(w, "victimRight")
                \/ job[w].target = None /\ Goto(w, "kick")
          \/ (m = None \/ job[w].target = None) /\ Return(w)
    /\ UNCHANGED <<users, channels, access, sessions, mutex, asked, budget, history>>

\* The right of the user in the channel hides that of a master.
VictimRight(w) ==
    /\ pc[w] = "victimRight"
    /\ LET value == right[job[w].target][job[w].chan]
       IN /\ job' = [job EXCEPT ![w].old = value]
          /\ Goto(w, IF value = None THEN "victimMaster" ELSE "callerMaster")
    /\ UNCHANGED <<users, channels, access, sessions, mutex, asked, budget, history>>

\* pMod[1] is 'm' for "+m" and the end of "m".
VictimMaster(w) ==
    /\ pc[w] = "victimMaster"
    /\ LET value == master[job[w].target]
       IN CASE value = None -> Goto(w, "kick") /\ UNCHANGED job
            [] value = "m" -> /\ Goto(w, "callerMaster")
                              /\ job' = [job EXCEPT ![w].old = value]
            [] OTHER -> Return(w)
    /\ UNCHANGED <<users, channels, access, sessions, mutex, asked, budget, history>>

\* The callers hand over the nickname of the caller for his login.
CallerMaster(w) ==
    /\ pc[w] = "callerMaster"
    /\ IF master[NickOf[job[w].mask]] # None \/ job[w].old # "+o"
       THEN Goto(w, "kick") /\ UNCHANGED job
       ELSE Return(w)
    /\ UNCHANGED <<users, channels, access, sessions, mutex, asked, budget, history>>

\* KICK, or MODE +b.
Kick(w) == /\ pc[w] = "kick"
           /\ Return(w)
           /\ UNCHANGED <<users, channels, access, sessions, mutex, asked, budget, history>>

\* !ban takes the length of the login of a caller who is not logged on any more,
\* and checkUserLevel follows the pointer it has not set.  The process ends, and
\* the next one begins with new session databases.
Crash(w) == /\ \/ pc[w] = "ask" /\ job[w].op = "ban" /\ n2u[job[w].mask] = None
               \/ pc[w] = "caller" /\ job[w].target = None /\ u2n[job[w].login] # None
            /\ n2u' = [m \in Masks |-> None]
            /\ u2n' = [l \in Logins |-> None]
            /\ mutex' = None
            /\ pc' = [t \in Threads |-> "idle"]
            /\ job' = [t \in Threads |-> Idle]
            /\ asked' = <<>>
            /\ UNCHANGED <<users, channels, access, budget, history>>

-----------------------------------------------------------------------------
\* The commands with the arguments they have.
Command(w, m) ==
    \/ \E c \in Channels \cup {None} :
           \/ Dispatch(w, m, "hello", None, c, "+", "o")
           \/ \E l \in Logins : Dispatch(w, m, "rmaccount", l, c, "+", "o")
    \/ Dispatch(w, m, "logoff", None, None, "+", "o")
    \/ \E l \in Logins : Dispatch(w, m, "ident", l, None, "+", "o")
    \/ \E op \in {"addchannel", "rmchannel", "kick", "ban"}, c \in Channels :
           Dispatch(w, m, op, None, c, "+", "o")
    \/ \E l \in Logins, c \in Channels, s \in {"+", "-"}, x \in {"v", "o", "m"} :
           Dispatch(w, m, "accountmode", l, c, s, x)

Level(w) == ReadChannelLevel(w) \/ ReadMasterLevel(w) \/ Access(w)

Session(w) == IdentCheck(w) \/ Logon(w) \/ Logoff(w)

Hello(w) == \/ HelloList(w) \/ HelloAdd(w) \/ HelloFirst(w) \/ HelloFirstAdd(w)
            \/ HelloFirstReplace(w) \/ HelloFirstStore(w)

AccountMode(w) == \/ ModeCheck(w) \/ OldMode(w) \/ OldMaster(w) \/ DelOldMaster(w)
                  \/ SetMode(w) \/ ReplaceMode(w) \/ StoreMode(w)

KickOrBan(w) == \/ Ask(w) \/ AskNot(w) \/ Answer(w) \/ NoAnswer(w) \/ CallerMask(w)
                \/ VictimRight(w) \/ VictimMaster(w) \/ CallerMaster(w) \/ Kick(w)

RmAccount(t) == \/ Remove(t) \/ DelMasterRight(t) \/ ListChannels(t)
                \/ (\E c \in Channels : DelChannelRight(t, c))
                \/ RightsRemoved(t) \/ RemoveUser(t)

Next == \/ \E w \in Workers : \/ \E m \in Masks : Command(w, m)
                              \/ Level(w) \/ Session(w) \/ Hello(w) \/ AccountMode(w)
                              \/ ChangeChannel(w) \/ RmAccountExist(w)
                              \/ KickOrBan(w) \/ Crash(w)
        \/ \E l \in Logins : Sweep(l)
        \/ \E t \in Threads : RmAccount(t)

Spec == Init /\ [][Next]_vars

-----------------------------------------------------------------------------
(* Properties. *)

TypeOK == /\ users \subseteq Logins
          /\ channels \subseteq Channels
          /\ master \in [Logins -> MasterValues \cup {None}]
          /\ right \in [Logins -> [Channels -> ChannelValues \cup {None}]]
          /\ n2u \in [Masks -> Logins \cup {None}]
          /\ u2n \in [Logins -> Masks \cup {None}]
          /\ mutex \in Threads \cup {None}
          /\ pc \in [Threads -> Labels]
          /\ job \in [Threads -> Jobs]
          /\ asked \in Seq(Questions)
          /\ budget \in 0..MaxCommands
          /\ founders \subseteq Logins
          /\ rivals \in BOOLEAN
          /\ excused \subseteq Logins

\* account.h: rmAccount removes an account and all its access rights, so that
\* nobody inherits them who creates an account of that name.  It holds for every
\* account of which no right was on a removed channel and for which no
\* accountmode or hello wrote a right once the removal had begun.
RightsHaveAccounts ==
    \A l \in Logins \ (users \cup excused) :
        master[l] = None /\ \A c \in Channels : right[l][c] = None

\* hello: the first account is the master.  There is one such account at a time
\* as long as no two hellos have overlapped.
OneFounder == rivals \/ Cardinality(founders) <= 1

\* An account becomes a master by a hello that found no account, by an
\* accountmode whose caller was found to be a master when the command was
\* dispatched, or by one that goes on with an unset mode.
MasterByMaster ==
    [][\A l \in Logins : master[l] = None /\ master'[l] # None =>
         \E t \in Workers : /\ job[t].target = l
                            /\ \/ job[t].op = "hello" /\ job[t].first
                               \/ job[t].op = "accountmode" /\ job[t].byMaster
                               \/ job[t].op = "accountmode" /\ job[t].unset]_vars

\* accountmode refuses to modify the caller's own account, so that a master
\* remains.  Who takes away the rights of the last master removes his account,
\* was a master when the command was dispatched and no longer is, has named
\* himself in another spelling, or goes on with an unset mode.
LastMaster ==
    [][(\E l \in Logins : master[l] # None) /\ (\A l \in Logins : master'[l] = None) =>
         \E t \in Threads : \/ IsRemoval(job[t]) /\ pc[t] = "rights"
                            \/ /\ job[t].op = "accountmode"
                               /\ pc[t] \in {"delMaster", "rights", "set"}
                               /\ \/ job[t].unset
                                  \/ /\ job[t].byMaster
                                     /\ \/ master[job[t].login] = None
                                        \/ job[t].target = job[t].login]_vars
=============================================================================
