------------------------------ MODULE Sessions ------------------------------
(***************************************************************************)
(* Accounts and logins: the databases USER_DB, TIMELOG_DB, NICKTOUSER_DB   *)
(* and USERTONICK_DB of dbaccess.c, the functions of account.c that change *)
(* them, and the commands and events that call those functions (!hello,    *)
(* !ident, !logoff, !rmaccount, QUIT, NICK, and the hourly sweeps of the   *)
(* timing thread).                                                         *)
(*                                                                         *)
(* Each database access is a step: dbaccess_mutex makes it atomic, and     *)
(* nothing larger is atomic for a reader, because readers do not take      *)
(* mutexAccount.  Reads of USERTONICK_DB by the owner of mutexAccount are  *)
(* joined to the step that takes the mutex (only owners write that         *)
(* database), and the unlock to the last write before it.                  *)
(*                                                                         *)
(* Keys are compared without case (StrToLower); a login and a netmask      *)
(* stand for such a class.                                                 *)
(***************************************************************************)
EXTENDS Naturals, FiniteSets

CONSTANTS
    Workers,      \* the execution threads
    Timer,        \* the timing thread
    Logins,       \* account names
    Masks,        \* netmasks, nick!user@host
    NickOf,       \* the nickname in a netmask, the account !hello creates
    None          \* no database entry

Threads == Workers \cup {Timer}

\* A stamp is "expired" when it is older than autologgoff.  It may then be older
\* than accountlivetime, too: AppMain makes that the longer of the two.
Stamps == {"recent", "expired"}

ASSUME SessionsAssumption == /\ Timer \notin Workers
                             /\ NickOf \in [Masks -> Logins]
                             /\ None \notin Logins \cup Masks \cup Threads \cup Stamps

VARIABLES
    users,        \* the keys of USER_DB
    stamp,        \* TIMELOG_DB: None, or the age of the last log_on
    n2u,          \* NICKTOUSER_DB: the login of an authenticated netmask
    u2n,          \* USERTONICK_DB: the netmask of a login
    mutex,        \* mutexAccount: its owner or None
    pc,           \* where each thread is
    job,          \* the locals of the command each thread executes
    todo          \* what is left of the list the timing thread iterates

vars == <<users, stamp, n2u, u2n, mutex, pc, job, todo>>
databases == <<users, stamp, n2u, u2n>>

Ops == {"none", "hello", "ident", "logoff", "nick", "rmaccount", "deadLogins", "deadAccounts"}

Labels == {"idle", "check", "sweep", "sweepTest",
           "on", "onDel", "onAdd", "onSet", "stamp", "stampReplace", "stampStore", "stampAdd",
           "out", "rm", "outDel", "outSet", "rmUser", "rmTime"}

\* Labels inside a critical section of mutexAccount.
Critical == {"onDel", "onAdd", "onSet", "outDel", "outSet", "rmUser", "rmTime"}

Jobs == [op : Ops, login : Logins \cup {None}, mask : Masks \cup {None},
         old : Masks \cup {None}]

NoJob == [op |-> "none", login |-> None, mask |-> None, old |-> None]

\* A start of the bot: the session databases are created anew, the accounts and
\* their time stamps are those of the last run (dialogMaster writes no stamp).
Init == /\ users \in SUBSET Logins
        /\ stamp \in {f \in [Logins -> Stamps \cup {None}] :
                        \A l \in Logins : f[l] # None => l \in users}
        /\ n2u = [m \in Masks |-> None]
        /\ u2n = [l \in Logins |-> None]
        /\ mutex = None
        /\ pc = [t \in Threads |-> "idle"]
        /\ job = [t \in Threads |-> NoJob]
        /\ todo = {}

Goto(t, a, b) == pc[t] = a /\ pc' = [pc EXCEPT ![t] = b]

\* Thread t starts a command with its arguments.
Begin(t, b, op, l, m) == /\ Goto(t, "idle", b)
                         /\ job' = [job EXCEPT ![t] = [op |-> op, login |-> l,
                                                       mask |-> m, old |-> None]]

\* The thread's handler returns; a sweep goes on with its next entry.
Resume(t, a) == /\ pc[t] = a
                /\ pc' = [pc EXCEPT ![t] = IF t = Timer THEN "sweep" ELSE "idle"]
                /\ job' = [job EXCEPT ![t] = IF t = Timer
                                             THEN [NoJob EXCEPT !.op = job[t].op]
                                             ELSE NoJob]

-----------------------------------------------------------------------------
(* The commands and events, up to their first call of account.c. *)

\* !hello: add_db succeeds if the account does not exist.  It is not asked
\* whether the netmask is logged on: hello needs a level of at most Logged.
Hello(w, m) == /\ NickOf[m] \notin users
               /\ users' = users \cup {NickOf[m]}
               /\ Begin(w, "on", "hello", NickOf[m], m)
               /\ UNCHANGED <<stamp, n2u, u2n, mutex, todo>>

\* !ident: the netmask must not be logged on.
Ident(w, m, l) == /\ n2u[m] = None
                  /\ Begin(w, "check", "ident", l, m)
                  /\ UNCHANGED <<databases, mutex, todo>>

\* check_db: the account exists and the password is right, or is not.
IdentCheck(w) == /\ pc[w] = "check"
                 /\ \/ /\ job[w].login \in users
                       /\ pc' = [pc EXCEPT ![w] = "on"]
                       /\ UNCHANGED job
                    \/ Resume(w, "check")
                 /\ UNCHANGED <<databases, mutex, todo>>

\* !logoff and QUIT: the login of the netmask is logged off.
Logoff(w, m) == /\ n2u[m] # None
                /\ Begin(w, "out", "logoff", n2u[m], m)
                /\ UNCHANGED <<databases, mutex, todo>>

\* NICK: the login moves to the netmask with the new nickname.
NickChange(w, m, new) == /\ n2u[m] # None
                         /\ Begin(w, "out", "nick", n2u[m], new)
                         /\ UNCHANGED <<databases, mutex, todo>>

\* !rmaccount of an existing account.
RmAccount(w, l) == /\ l \in users
                   /\ Begin(w, "rm", "rmaccount", l, None)
                   /\ UNCHANGED <<databases, mutex, todo>>

-----------------------------------------------------------------------------
(* The hourly sweeps of the timing thread. *)

\* rmDeadLogins lists USER_DB, rmDeadAccounts TIMELOG_DB.
StartSweep(op) == /\ op \in {"deadLogins", "deadAccounts"}
                  /\ Begin(Timer, "sweep", op, None, None)
                  /\ todo' = IF op = "deadLogins" THEN users
                             ELSE {l \in Logins : stamp[l] # None}
                  /\ UNCHANGED <<databases, mutex>>

\* The next entry: get_db(TIMELOG_DB) and the comparison with the time limit.
SweepSkip(l) == /\ pc[Timer] = "sweep"
                /\ l \in todo
                /\ stamp[l] = "expired" => job[Timer].op = "deadAccounts"
                /\ todo' = todo \ {l}
                /\ UNCHANGED <<databases, mutex, pc, job>>

SweepHit(l) == /\ l \in todo
               /\ stamp[l] = "expired"
               /\ Goto(Timer, "sweep",
                       IF job[Timer].op = "deadLogins" THEN "sweepTest" ELSE "rm")
               /\ job' = [job EXCEPT ![Timer].login = l]
               /\ todo' = todo \ {l}
               /\ UNCHANGED <<databases, mutex>>

\* rmDeadLogins: exist_db(USERTONICK_DB), between the read of the time stamp
\* and the comparison.
SweepTest == /\ pc[Timer] = "sweepTest"
             /\ IF u2n[job[Timer].login] # None
                THEN Goto(Timer, "sweepTest", "out") /\ UNCHANGED job
                ELSE Resume(Timer, "sweepTest")
             /\ UNCHANGED <<databases, mutex, todo>>

EndSweep == /\ Goto(Timer, "sweep", "idle")
            /\ todo = {}
            /\ job' = [job EXCEPT ![Timer] = NoJob]
            /\ UNCHANGED <<databases, mutex, todo>>

\* Time passes.
Expire(l) == /\ stamp[l] = "recent"
             /\ stamp' = [stamp EXCEPT ![l] = "expired"]
             /\ UNCHANGED <<users, n2u, u2n, mutex, pc, job, todo>>

-----------------------------------------------------------------------------
(* log_on *)

\* Fault variant: the critical section is entered without the mutex.
LogOn_NoMutex(t) == /\ Goto(t, "on", IF u2n[job[t].login] = None THEN "onAdd" ELSE "onDel")
                    /\ mutex' = t
                    /\ job' = [job EXCEPT ![t].old = u2n[job[t].login]]
                    /\ UNCHANGED <<databases, todo>>

\* Lock, exist_db and get_db: is this login logged on elsewhere?
LogOn(t) == /\ mutex = None
            /\ Goto(t, "on", IF u2n[job[t].login] = None THEN "onAdd" ELSE "onDel")
            /\ mutex' = t
            /\ job' = [job EXCEPT ![t].old = u2n[job[t].login]]
            /\ UNCHANGED <<databases, todo>>

\* Fault variant: the old netmask stays authenticated.
LogOnDel_Keep(t) == /\ Goto(t, "onDel", "onAdd")
                    /\ UNCHANGED <<databases, mutex, job, todo>>

\* A relogin first removes the old netmask.
LogOnDel(t) == /\ Goto(t, "onDel", "onAdd")
               /\ n2u' = [n2u EXCEPT ![job[t].old] = None]
               /\ UNCHANGED <<users, stamp, u2n, mutex, job, todo>>

\* Fault variant: the netmask is taken over from another login.
LogOnAdd_Replace(t) == /\ Goto(t, "onAdd", "onSet")
                       /\ n2u' = [n2u EXCEPT ![job[t].mask] = job[t].login]
                       /\ UNCHANGED <<users, stamp, u2n, mutex, job, todo>>

\* Fault variant: key and value of add_db are exchanged.
LogOnAdd_Swapped(t) == /\ Goto(t, "onAdd", "onSet")
                       /\ n2u' = [n2u EXCEPT ![job[t].mask] = job[t].mask]
                       /\ UNCHANGED <<users, stamp, u2n, mutex, job, todo>>

\* add_db fails, and nobody looks, if the netmask has a login already.
LogOnAdd(t) == /\ Goto(t, "onAdd", "onSet")
               /\ n2u' = IF n2u[job[t].mask] = None
                         THEN [n2u EXCEPT ![job[t].mask] = job[t].login]
                         ELSE n2u
               /\ UNCHANGED <<users, stamp, u2n, mutex, job, todo>>

\* replace_db or add_db of USERTONICK_DB, and the unlock.
LogOnSet(t) == /\ Goto(t, "onSet", "stamp")
               /\ u2n' = [u2n EXCEPT ![job[t].login] = job[t].mask]
               /\ mutex' = None
               /\ UNCHANGED <<users, stamp, n2u, job, todo>>

\* Fault variant: the branches of the test are exchanged.
StampTest_Swapped(t) == /\ Goto(t, "stamp",
                                IF stamp[job[t].login] = None THEN "stampReplace" ELSE "stampAdd")
                        /\ UNCHANGED <<databases, mutex, job, todo>>

\* exist_db(TIMELOG_DB), outside the critical section.
StampTest(t) == /\ Goto(t, "stamp",
                        IF stamp[job[t].login] # None THEN "stampReplace" ELSE "stampAdd")
                /\ UNCHANGED <<databases, mutex, job, todo>>

\* replace_db tests once more that the key exists, then stores in any case.
StampReplace(t) == /\ pc[t] = "stampReplace"
                   /\ IF stamp[job[t].login] # None
                      THEN Goto(t, "stampReplace", "stampStore") /\ UNCHANGED job
                      ELSE Resume(t, "stampReplace")
                   /\ UNCHANGED <<databases, mutex, todo>>

StampStore(t) == /\ Resume(t, "stampStore")
                 /\ stamp' = [stamp EXCEPT ![job[t].login] = "recent"]
                 /\ UNCHANGED <<users, n2u, u2n, mutex, todo>>

StampAdd(t) == /\ Resume(t, "stampAdd")
               /\ stamp' = [stamp EXCEPT ![job[t].login] = IF @ = None THEN "recent" ELSE @]
               /\ UNCHANGED <<users, n2u, u2n, mutex, todo>>

-----------------------------------------------------------------------------
(* log_out, rmAccount and the __log_out they share *)

\* What follows log_out: hNickChange logs on again, the others are done.
AfterLogOut(t, a) == IF job[t].op = "nick" THEN Goto(t, a, "on") /\ UNCHANGED job
                     ELSE Resume(t, a)

\* Lock and get_db: a login without a netmask is not logged on.
LogOut(t) == /\ pc[t] = "out"
             /\ mutex = None
             /\ IF u2n[job[t].login] = None
                THEN AfterLogOut(t, "out") /\ UNCHANGED mutex
                ELSE /\ Goto(t, "out", "outDel")
                     /\ mutex' = t
                     /\ job' = [job EXCEPT ![t].old = u2n[job[t].login]]
             /\ UNCHANGED <<databases, todo>>

\* Lock and get_db at the beginning of rmAccount.
Remove(t) == /\ mutex = None
             /\ mutex' = t
             /\ Goto(t, "rm", IF u2n[job[t].login] = None THEN "rmUser" ELSE "outDel")
             /\ job' = [job EXCEPT ![t].old = u2n[job[t].login]]
             /\ UNCHANGED <<databases, todo>>

\* Fault variant: only USERTONICK_DB is cleaned up.
LogOutDel_Keep(t) == /\ Goto(t, "outDel", "outSet")
                     /\ UNCHANGED <<databases, mutex, job, todo>>

LogOutDel(t) == /\ Goto(t, "outDel", "outSet")
                /\ n2u' = [n2u EXCEPT ![job[t].old] = None]
                /\ UNCHANGED <<users, stamp, u2n, mutex, job, todo>>

\* del_db(USERTONICK_DB); log_out unlocks, rmAccount goes on.
LogOutSet(t) == /\ pc[t] = "outSet"
                /\ u2n' = [u2n EXCEPT ![job[t].login] = None]
                /\ IF job[t].op \in {"rmaccount", "deadAccounts"}
                   THEN Goto(t, "outSet", "rmUser") /\ UNCHANGED <<mutex, job>>
                   ELSE AfterLogOut(t, "outSet") /\ mutex' = None
                /\ UNCHANGED <<users, stamp, n2u, todo>>

RemoveUser(t) == /\ Goto(t, "rmUser", "rmTime")
                 /\ users' = users \ {job[t].login}
                 /\ UNCHANGED <<stamp, n2u, u2n, mutex, job, todo>>

RemoveTime(t) == /\ Resume(t, "rmTime")
                 /\ stamp' = [stamp EXCEPT ![job[t].login] = None]
                 /\ mutex' = None
                 /\ UNCHANGED <<users, n2u, u2n, todo>>

-----------------------------------------------------------------------------
Command(w) == \/ \E m \in Masks : Hello(w, m) \/ Logoff(w, m)
              \/ \E m \in Masks, l \in Logins : Ident(w, m, l)
              \/ \E m, new \in Masks : NickChange(w, m, new)
              \/ \E l \in Logins : RmAccount(w, l)
              \/ IdentCheck(w)

Sweep == \/ \E op \in Ops : StartSweep(op)
         \/ \E l \in Logins : SweepSkip(l) \/ SweepHit(l)
         \/ SweepTest
         \/ EndSweep

Account(t) == \/ LogOn(t) \/ LogOnDel(t) \/ LogOnAdd(t) \/ LogOnSet(t)
              \/ StampTest(t) \/ StampReplace(t) \/ StampStore(t) \/ StampAdd(t)
              \/ LogOut(t) \/ Remove(t) \/ LogOutDel(t) \/ LogOutSet(t)
              \/ RemoveUser(t) \/ RemoveTime(t)

Next == \/ \E w \in Workers : Command(w)
        \/ Sweep
        \/ \E t \in Threads : Account(t)
        \/ \E l \in Logins : Expire(l)

Spec == Init /\ [][Next]_vars

-----------------------------------------------------------------------------
(* Properties. *)

TypeOK == /\ users \subseteq Logins
          /\ stamp \in [Logins -> Stamps \cup {None}]
          /\ n2u \in [Masks -> Logins \cup {None}]
          /\ u2n \in [Logins -> Masks \cup {None}]
          /\ mutex \in Threads \cup {None}
          /\ pc \in [Threads -> Labels]
          /\ job \in [Threads -> Jobs]
          /\ todo \subseteq Logins

\* getUserLevel grants the rights of an account to the netmask it finds in
\* NICKTOUSER_DB: never do two netmasks have the rights of one account, not
\* even for a reader in the middle of a log_on.
OneMaskPerLogin == \A a, b \in Masks : n2u[a] = n2u[b] /\ n2u[a] # None => a = b

\* When nobody is inside account.c, an authenticated netmask is the one that
\* USERTONICK_DB has for its login, so that log_out of the login removes it.
MaskCanLogOut == mutex = None => \A m \in Masks : n2u[m] # None => u2n[n2u[m]] = m

\* A netmask that has the rights of one account gets those of another only
\* after it was logged off: no command switches a session silently.
NoSwitch == [][\A m \in Masks : n2u[m] # None => n2u'[m] \in {n2u[m], None}]_vars

\* What the commands under way are about to do.  After the step that carries a part of
\* it out, a thread does not have that part before it any more.
Removing(t) == job[t].op \in {"rmaccount", "deadAccounts"}

Ends(t) == IF pc[t] \in {"out", "rm", "outDel"} THEN {job[t].login} ELSE {}

Removes(t) == IF pc[t] \in {"rm", "outDel", "outSet", "rmUser"} /\ Removing(t)
              THEN {job[t].login} ELSE {}

Begins(t) == IF \/ pc[t] \in {"on", "onDel", "onAdd"}
                \/ pc[t] \in {"out", "outDel", "outSet"} /\ job[t].op = "nick"
             THEN {<<job[t].mask, job[t].login>>} ELSE {}

PlanOf(t) == [end |-> Ends(t), remove |-> Removes(t), begin |-> Begins(t)]

\* USERTONICK_DB as if it were written together with NICKTOUSER_DB: the owner of the
\* mutex has written only one of them before these labels.
LastOn(l) == IF mutex = None \/ job[mutex].login # l THEN u2n[l]
             ELSE IF pc[mutex] \in {"onAdd", "outSet"} THEN None
             ELSE IF pc[mutex] = "onSet" THEN job[mutex].mask
             ELSE u2n[l]

\* The two databases, the critical sections and the checks before them are the
\* sessions of Admission.tla: a netmask has only those rights that a command has
\* admitted it to, and the writes of a log_on and a log_out are one step for others.
Adm == INSTANCE Admission WITH accounts <- users, session <- n2u,
                               last <- [l \in Logins |-> LastOn(l)],
                               plan <- [t \in Threads |-> PlanOf(t)]
Admitted == Adm!Spec

\* README: users are logged out automatically.  The sweeps find an account by
\* its time stamp, so an authenticated login has one, or the thread that logs it
\* on has still to write it - also if the account is removed meanwhile.
SessionIsStamped ==
    \A m \in Masks : n2u[m] # None /\ stamp[n2u[m]] = None =>
        \E t \in Threads : /\ job[t].login = n2u[m]
                            /\ pc[t] \in {"onSet", "stamp", "stampAdd"}
=============================================================================
