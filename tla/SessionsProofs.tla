---------------------------- MODULE SessionsProofs ----------------------------
(***************************************************************************)
(* Proofs about Sessions for every set of execution threads, logins and    *)
(* netmasks.                                                               *)
(***************************************************************************)
EXTENDS Sessions, TLAPS

\* Every disjunct of Next, as a list of cases: used by the step lemmas below.
StepCases ==
    \/ \E w \in Workers, m \in Masks : Hello(w, m)
    \/ \E w \in Workers, m \in Masks : Logoff(w, m)
    \/ \E w \in Workers, m \in Masks, l \in Logins : Ident(w, m, l)
    \/ \E w \in Workers, m, new \in Masks : NickChange(w, m, new)
    \/ \E w \in Workers, l \in Logins : RmAccount(w, l)
    \/ \E w \in Workers : IdentCheck(w)
    \/ \E op \in Ops : StartSweep(op)
    \/ \E l \in Logins : SweepSkip(l)
    \/ \E l \in Logins : SweepHit(l)
    \/ SweepTest
    \/ EndSweep
    \/ \E t \in Threads : StampTest(t)
    \/ \E t \in Threads : StampReplace(t)
    \/ \E t \in Threads : StampStore(t)
    \/ \E t \in Threads : StampAdd(t)
    \/ \E t \in Threads : LogOn(t)
    \/ \E t \in Threads : LogOnDel(t)
    \/ \E t \in Threads : LogOnAdd(t)
    \/ \E t \in Threads : LogOnSet(t)
    \/ \E t \in Threads : LogOut(t)
    \/ \E t \in Threads : Remove(t)
    \/ \E t \in Threads : LogOutDel(t)
    \/ \E t \in Threads : LogOutSet(t)
    \/ \E t \in Threads : RemoveUser(t)
    \/ \E t \in Threads : RemoveTime(t)
    \/ \E l \in Logins : Expire(l)
    \/ UNCHANGED vars

\* A step of the bot is one of the cases.
LEMMA NextCases == [Next]_vars => StepCases
BY DEF Next, Command, Sweep, Account, StepCases

-----------------------------------------------------------------------------
(* Types *)

\* Commands that carry the netmask to log on.
MaskOps == {"hello", "ident", "nick"}

\* The locals of a thread are set where they are used.
JobsSet ==
    /\ job[Timer].op \notin MaskOps
    /\ \A t \in Threads :
        /\ pc[t] \notin {"idle", "sweep"} => job[t].login \in Logins
        /\ pc[t] \in {"check", "on", "onDel", "onAdd", "onSet"} => job[t].op \in MaskOps
        /\ job[t].op \in MaskOps => job[t].mask \in Masks

Typed == TypeOK /\ JobsSet

\* The conditions hold when the bot starts.
LEMMA TypedInit == Init => Typed
<1> SUFFICES ASSUME Init PROVE Typed
  OBVIOUS
<1> USE SessionsAssumption DEF Init
<1>1. NoJob \in Jobs /\ NoJob.op \notin MaskOps
  BY DEF NoJob, Jobs, Ops, MaskOps
<1>2. job \in [Threads -> Jobs] /\ JobsSet
  BY <1>1 DEF JobsSet, Threads
<1>3. stamp \in [Logins -> Stamps \cup {None}]
  OBVIOUS
<1>4. pc \in [Threads -> Labels]
  BY DEF Labels
<1> QED
  BY <1>2, <1>3, <1>4 DEF Typed, TypeOK

\* A handler that returns leaves the thread with empty locals.
LEMMA ResumeTyped ==
    ASSUME Typed, NEW t \in Threads, NEW a, Resume(t, a)
    PROVE  /\ pc' \in [Threads -> Labels]
           /\ job' \in [Threads -> Jobs]
           /\ JobsSet'
<1> DEFINE left == IF t = Timer THEN [NoJob EXCEPT !.op = job[t].op] ELSE NoJob
<1> USE SessionsAssumption DEF Typed, TypeOK, Threads
<1>1. job[t].op \in Ops
  BY DEF Jobs
<1>2. /\ left \in Jobs
      /\ left.login = None
      /\ left.op \notin MaskOps
  BY <1>1 DEF NoJob, Jobs, Ops, JobsSet, MaskOps
<1> HIDE DEF left
<1>3. pc' = [pc EXCEPT ![t] = IF t = Timer THEN "sweep" ELSE "idle"]
  BY DEF Resume
<1>4. job' = [job EXCEPT ![t] = left]
  BY DEF Resume, left
<1>5. job'[Timer].op \notin MaskOps
  BY <1>2, <1>4 DEF JobsSet
<1> QED
  BY <1>2, <1>3, <1>4, <1>5 DEF JobsSet, Labels

\* Every step of the bot preserves the types and the use of the locals.
LEMMA TypedStep == Typed /\ [Next]_vars => Typed'
<1> SUFFICES ASSUME Typed, [Next]_vars PROVE Typed'
  OBVIOUS
<1> USE SessionsAssumption DEF Typed, TypeOK, JobsSet, Jobs, NoJob, Ops, Labels, MaskOps,
        Threads, Stamps, Goto, databases
<1>1. ASSUME NEW w \in Workers, NEW m \in Masks, Hello(w, m) PROVE Typed'
  BY <1>1 DEF Hello, Begin
<1>2. ASSUME NEW w \in Workers, NEW m \in Masks, Logoff(w, m) PROVE Typed'
  BY <1>2 DEF Logoff, Begin
<1>3. ASSUME NEW w \in Workers, NEW m \in Masks, NEW l \in Logins, Ident(w, m, l) PROVE Typed'
  BY <1>3 DEF Ident, Begin
<1>4. ASSUME NEW w \in Workers, NEW m \in Masks, NEW new \in Masks, NickChange(w, m, new)
      PROVE  Typed'
  BY <1>4 DEF NickChange, Begin
<1>5. ASSUME NEW w \in Workers, NEW l \in Logins, RmAccount(w, l) PROVE Typed'
  BY <1>5 DEF RmAccount, Begin
<1>6. ASSUME NEW w \in Workers, IdentCheck(w) PROVE Typed'
  BY <1>6, ResumeTyped DEF IdentCheck
<1>7. ASSUME NEW op \in Ops, StartSweep(op) PROVE Typed'
  BY <1>7 DEF StartSweep, Begin
<1>8. ASSUME NEW l \in Logins, SweepSkip(l) PROVE Typed'
  BY <1>8 DEF SweepSkip
<1>9. ASSUME NEW l \in Logins, SweepHit(l) PROVE Typed'
  BY <1>9 DEF SweepHit
<1>10. CASE SweepTest
  BY <1>10, ResumeTyped DEF SweepTest
<1>11. CASE EndSweep
  BY <1>11 DEF EndSweep
<1>12. ASSUME NEW t \in Threads, StampTest(t) PROVE Typed'
  BY <1>12 DEF StampTest
<1>13. ASSUME NEW t \in Threads, StampReplace(t) PROVE Typed'
  BY <1>13, ResumeTyped DEF StampReplace
<1>14. ASSUME NEW t \in Threads, StampStore(t) PROVE Typed'
  BY <1>14, ResumeTyped DEF StampStore
<1>15. ASSUME NEW t \in Threads, StampAdd(t) PROVE Typed'
  BY <1>15, ResumeTyped DEF StampAdd
<1>16. ASSUME NEW t \in Threads, LogOn(t) PROVE Typed'
  BY <1>16 DEF LogOn
<1>17. ASSUME NEW t \in Threads, LogOnDel(t) PROVE Typed'
  BY <1>17 DEF LogOnDel
<1>18. ASSUME NEW t \in Threads, LogOnAdd(t) PROVE Typed'
  BY <1>18 DEF LogOnAdd
<1>19. ASSUME NEW t \in Threads, LogOnSet(t) PROVE Typed'
  BY <1>19 DEF LogOnSet
<1>20. ASSUME NEW t \in Threads, LogOut(t) PROVE Typed'
  BY <1>20, ResumeTyped DEF LogOut, AfterLogOut
<1>21. ASSUME NEW t \in Threads, Remove(t) PROVE Typed'
  BY <1>21 DEF Remove
<1>22. ASSUME NEW t \in Threads, LogOutDel(t) PROVE Typed'
  BY <1>22 DEF LogOutDel
<1>23. ASSUME NEW t \in Threads, LogOutSet(t) PROVE Typed'
  BY <1>23, ResumeTyped DEF LogOutSet, AfterLogOut
<1>24. ASSUME NEW t \in Threads, RemoveUser(t) PROVE Typed'
  BY <1>24 DEF RemoveUser
<1>25. ASSUME NEW t \in Threads, RemoveTime(t) PROVE Typed'
  BY <1>25, ResumeTyped DEF RemoveTime
<1>26. ASSUME NEW l \in Logins, Expire(l) PROVE Typed'
  BY <1>26 DEF Expire
<1>27. CASE UNCHANGED vars
  BY <1>27 DEF vars
<1> QED
  BY NextCases, <1>1, <1>2, <1>3, <1>4, <1>5, <1>6, <1>7, <1>8, <1>9, <1>10, <1>11, <1>12,
     <1>13, <1>14, <1>15, <1>16, <1>17, <1>18, <1>19, <1>20, <1>21, <1>22, <1>23, <1>24,
     <1>25, <1>26, <1>27 DEF StepCases

\* TypeOK is an invariant of the accounts, for any threads, logins and netmasks.
THEOREM TypeCorrect == Spec => []TypeOK
<1>1. Typed => TypeOK
  BY DEF Typed
<1> QED
  BY TypedInit, TypedStep, <1>1, PTL DEF Spec

-----------------------------------------------------------------------------
(* Sessions *)

\* A thread inside a critical section owns mutexAccount.
Exclusive == \A t \in Threads : pc[t] \in Critical => mutex = t

\* t has written NICKTOUSER_DB in log_on, and USERTONICK_DB is still to follow.
SettingMask(t, m) == /\ pc[t] = "onSet"
                     /\ job[t].login = n2u[m]
                     /\ job[t].mask = m

\* An authenticated netmask is the one USERTONICK_DB has for its login, or it is
\* about to be.
Inverse == \A m \in Masks :
              n2u[m] # None => \/ u2n[n2u[m]] = m
                              \/ \E t \in Threads : SettingMask(t, m)

\* What the owner of mutexAccount knows of its login at each step.
Progress ==
    \A t \in Threads :
        /\ pc[t] \in {"onDel", "outDel"} => job[t].old = u2n[job[t].login]
        /\ pc[t] \in {"onAdd", "outSet", "rmUser", "rmTime"} =>
             \A m \in Masks : n2u[m] # job[t].login
        /\ pc[t] = "onSet" => \A m \in Masks : n2u[m] = job[t].login => m = job[t].mask

SessionInv == Typed /\ Exclusive /\ Inverse /\ Progress

\* No session exists when the bot starts.
LEMMA SessionInit == Init => SessionInv
<1> SUFFICES ASSUME Init PROVE SessionInv
  OBVIOUS
<1>1. \A t \in Threads : pc[t] = "idle"
  BY DEF Init
<1>2. \A m \in Masks : n2u[m] = None
  BY DEF Init
<1> QED
  BY <1>1, <1>2, TypedInit DEF SessionInv, Exclusive, Inverse, Progress, Critical

\* The commands, the sweeps and the writes of the time stamp are outside the
\* critical sections and do not touch the session databases.
Outside(t) == /\ UNCHANGED <<n2u, u2n, mutex>>
              /\ pc[t] \notin Critical
              /\ pc'[t] \notin Critical
              /\ \A s \in Threads \ {t} : pc'[s] = pc[s] /\ job'[s] = job[s]

\* The steps that take, hold or release mutexAccount.
Locked(t) == \/ LogOn(t) \/ LogOnDel(t) \/ LogOnAdd(t) \/ LogOnSet(t)
             \/ LogOut(t) /\ u2n[job[t].login] # None
             \/ Remove(t) \/ LogOutDel(t) \/ LogOutSet(t)
             \/ RemoveUser(t) \/ RemoveTime(t)

\* Every step is of one of the two kinds, or leaves the threads where they are.
LEMMA OutsideOrLocked ==
    Typed /\ [Next]_vars => \/ \E t \in Threads : Outside(t) \/ Locked(t)
                            \/ UNCHANGED <<n2u, u2n, mutex, pc, job>>
<1> SUFFICES ASSUME Typed, [Next]_vars
             PROVE  \/ \E t \in Threads : Outside(t) \/ Locked(t)
                    \/ UNCHANGED <<n2u, u2n, mutex, pc, job>>
  OBVIOUS
<1> USE SessionsAssumption DEF Typed, TypeOK, Threads, Goto, Critical, databases
<1>1. ASSUME NEW w \in Workers, NEW m \in Masks, Hello(w, m) \/ Logoff(w, m) PROVE Outside(w)
  BY <1>1 DEF Hello, Logoff, Begin, Outside
<1>2. ASSUME NEW w \in Workers, NEW m \in Masks, NEW l \in Logins, Ident(w, m, l)
      PROVE  Outside(w)
  BY <1>2 DEF Ident, Begin, Outside
<1>3. ASSUME NEW w \in Workers, NEW m \in Masks, NEW new \in Masks, NickChange(w, m, new)
      PROVE  Outside(w)
  BY <1>3 DEF NickChange, Begin, Outside
<1>4. ASSUME NEW w \in Workers, NEW l \in Logins, RmAccount(w, l) PROVE Outside(w)
  BY <1>4 DEF RmAccount, Begin, Outside
<1>5. ASSUME NEW w \in Workers, IdentCheck(w) PROVE Outside(w)
  BY <1>5 DEF IdentCheck, Resume, Outside
<1>6. ASSUME NEW op \in Ops, StartSweep(op) PROVE Outside(Timer)
  BY <1>6 DEF StartSweep, Begin, Outside
<1>7. ASSUME NEW l \in Logins, SweepHit(l) PROVE Outside(Timer)
  BY <1>7 DEF SweepHit, Outside
<1>8. CASE SweepTest
  BY <1>8 DEF SweepTest, Resume, Outside
<1>9. CASE EndSweep
  BY <1>9 DEF EndSweep, Outside
<1>10. ASSUME NEW t \in Threads, StampTest(t) PROVE Outside(t)
  BY <1>10 DEF StampTest, Outside
<1>11. ASSUME NEW t \in Threads, StampReplace(t) \/ StampStore(t) \/ StampAdd(t)
       PROVE  Outside(t)
  BY <1>11 DEF StampReplace, StampStore, StampAdd, Resume, Outside
<1>12. ASSUME NEW t \in Threads, LogOut(t), u2n[job[t].login] = None PROVE Outside(t)
  BY <1>12 DEF LogOut, AfterLogOut, Resume, Outside
<1>13. ASSUME NEW l \in Logins, SweepSkip(l) \/ Expire(l)
       PROVE  UNCHANGED <<n2u, u2n, mutex, pc, job>>
  BY <1>13 DEF SweepSkip, Expire
<1>14. CASE UNCHANGED vars
  BY <1>14 DEF vars
<1> QED
  BY NextCases, <1>1, <1>2, <1>3, <1>4, <1>5, <1>6, <1>7, <1>8, <1>9, <1>10, <1>11, <1>12,
     <1>13, <1>14 DEF StepCases, Locked

\* A step outside the critical sections disturbs no session.
LEMMA OutsideStep ==
    ASSUME SessionInv, NEW t \in Threads, Outside(t) PROVE Exclusive' /\ Inverse' /\ Progress'
<1> USE DEF SessionInv, Outside
<1>1. Exclusive'
  BY DEF Exclusive
<1>2. \A s \in Threads, m \in Masks : SettingMask(s, m) => SettingMask(s, m)'
  BY DEF SettingMask, Critical
<1>3. Inverse'
  BY <1>2 DEF Inverse
<1>4. Progress'
  BY DEF Progress, Critical
<1> QED
  BY <1>1, <1>3, <1>4

\* A step of log_on, log_out or rmAccount under mutexAccount preserves the
\* relation of the session databases.
LEMMA LockedStep ==
    ASSUME SessionInv, NEW t \in Threads, Locked(t) PROVE Exclusive' /\ Inverse' /\ Progress'
<1> USE SessionsAssumption DEF SessionInv, Typed, TypeOK, Goto, Critical
<1> DEFINE login == job[t].login
           mask == job[t].mask
<1>1. \A s \in Threads \ {t} : pc'[s] = pc[s] /\ job'[s] = job[s]
  BY DEF Locked, LogOn, LogOnDel, LogOnAdd, LogOnSet, LogOut, Remove, LogOutDel, LogOutSet,
         RemoveUser, RemoveTime, AfterLogOut, Resume, databases
<1>2. mutex \in {None, t} /\ \A s \in Threads \ {t} : pc[s] \notin Critical
  BY DEF Locked, LogOn, LogOnDel, LogOnAdd, LogOnSet, LogOut, Remove, LogOutDel, LogOutSet,
         RemoveUser, RemoveTime, Exclusive, Resume
<1>3. Exclusive'
  BY <1>1, <1>2 DEF Exclusive, Locked, LogOn, LogOnDel, LogOnAdd, LogOnSet, LogOut, Remove,
         LogOutDel, LogOutSet, RemoveUser, RemoveTime, AfterLogOut, Resume, databases
<1>4. login \in Logins
  BY DEF Locked, LogOn, LogOnDel, LogOnAdd, LogOnSet, LogOut, Remove, LogOutDel, LogOutSet,
         RemoveUser, RemoveTime, Resume, JobsSet
<1>5. \A m \in Masks : n2u[m] # None /\ pc[t] # "onSet" => u2n[n2u[m]] = m
  BY <1>2 DEF Inverse, SettingMask
<1>6. \A s \in Threads \ {t} : pc'[s] \notin Critical
  BY <1>1, <1>2
<1>7. ASSUME UNCHANGED databases,
             job' = [job EXCEPT ![t].old = u2n[login]],
             \/ pc'[t] \in {"onDel", "outDel"}
             \/ pc'[t] \in {"onAdd", "rmUser"} /\ u2n[login] = None,
             pc[t] # "onSet"
      PROVE  Inverse' /\ Progress'
  <2>1. job'[t].login = login /\ job'[t].old = u2n[login]
    BY <1>7 DEF Jobs
  <2>2. Inverse'
    BY <1>5, <1>7 DEF Inverse, databases
  <2>3. ASSUME u2n[login] = None PROVE \A m \in Masks : n2u[m] # login
    BY <1>4, <1>5, <1>7, <2>3
  <2> QED
    BY <1>6, <1>7, <2>1, <2>2, <2>3 DEF Progress, databases
<1>8. CASE LogOn(t) \/ Remove(t) \/ (LogOut(t) /\ u2n[login] # None)
  <2>1. UNCHANGED databases /\ job' = [job EXCEPT ![t].old = u2n[login]]
    BY <1>8 DEF LogOn, Remove, LogOut, databases
  <2>2. /\ pc[t] # "onSet"
        /\ \/ pc'[t] \in {"onDel", "outDel"}
           \/ pc'[t] \in {"onAdd", "rmUser"} /\ u2n[login] = None
    BY <1>8 DEF LogOn, Remove, LogOut
  <2> QED
    BY <1>3, <1>7, <2>1, <2>2
<1>9. CASE LogOnDel(t)
  <2>1. n2u' = [n2u EXCEPT ![u2n[login]] = None]
    BY <1>9 DEF LogOnDel, Progress
  <2>2. \A m \in Masks : n2u'[m] # None => u2n[n2u'[m]] = m /\ n2u'[m] # login
    BY <1>4, <1>5, <1>9, <2>1 DEF LogOnDel
  <2> QED
    BY <1>3, <1>4, <1>6, <1>9, <2>2 DEF LogOnDel, Inverse, Progress
<1>10. CASE LogOnAdd(t)
  <2>1. mask \in Masks
    BY <1>10 DEF LogOnAdd, JobsSet
  <2>2. \A m \in Masks : n2u[m] # login
    BY <1>10 DEF LogOnAdd, Progress
  <2>3. \A m \in Masks : n2u'[m] # None => \/ u2n[n2u'[m]] = m
                                           \/ m = mask /\ n2u'[m] = login
    BY <1>5, <1>10, <2>1 DEF LogOnAdd
  <2>4. pc'[t] = "onSet" /\ UNCHANGED <<job, u2n>>
    BY <1>10 DEF LogOnAdd
  <2>5. Inverse'
    BY <2>3, <2>4 DEF Inverse, SettingMask
  <2>6. \A m \in Masks : n2u'[m] = login => m = mask
    BY <1>10, <2>1, <2>2 DEF LogOnAdd
  <2> QED
    BY <1>3, <1>6, <2>4, <2>5, <2>6 DEF Progress
<1>11. CASE LogOnSet(t)
  <2>1. u2n' = [u2n EXCEPT ![login] = mask] /\ n2u' = n2u
    BY <1>11 DEF LogOnSet
  <2>2. \A m \in Masks : n2u[m] = login => m = mask
    BY <1>11 DEF LogOnSet, Progress
  <2>3. \A m \in Masks : n2u[m] # None /\ n2u[m] # login => u2n[n2u[m]] = m
    BY <1>2, <1>11 DEF LogOnSet, Inverse, SettingMask
  <2>4. Inverse'
    BY <1>4, <2>1, <2>2, <2>3 DEF Inverse
  <2>5. pc'[t] = "stamp"
    BY <1>11 DEF LogOnSet
  <2> QED
    BY <1>3, <1>6, <2>4, <2>5 DEF Progress
<1>12. CASE LogOutDel(t)
  <2>1. n2u' = [n2u EXCEPT ![u2n[login]] = None]
    BY <1>12 DEF LogOutDel, Progress
  <2>2. \A m \in Masks : n2u'[m] # None => u2n[n2u'[m]] = m /\ n2u'[m] # login
    BY <1>4, <1>5, <1>12, <2>1 DEF LogOutDel
  <2>3. \A m \in Masks : n2u'[m] # login
    BY <1>4, <2>2
  <2> QED
    BY <1>3, <1>6, <1>12, <2>2, <2>3 DEF LogOutDel, Inverse, Progress
<1>13. CASE LogOutSet(t)
  <2>1. u2n' = [u2n EXCEPT ![login] = None] /\ n2u' = n2u
    BY <1>13 DEF LogOutSet
  <2>2. \A m \in Masks : n2u[m] # login
    BY <1>13 DEF LogOutSet, Progress
  <2>3. Inverse'
    BY <1>4, <1>5, <1>13, <2>1, <2>2 DEF Inverse, LogOutSet
  <2>4. pc'[t] \in {"rmUser", "on", "sweep", "idle"}
    BY <1>13 DEF LogOutSet, AfterLogOut, Resume
  <2>5. pc'[t] = "rmUser" => UNCHANGED job
    BY <1>13 DEF LogOutSet, AfterLogOut, Resume
  <2> QED
    BY <1>3, <1>6, <2>1, <2>2, <2>3, <2>4, <2>5 DEF Progress
<1>14. CASE RemoveUser(t) \/ RemoveTime(t)
  <2>1. UNCHANGED <<n2u, u2n>> /\ pc[t] \in {"rmUser", "rmTime"}
    BY <1>14 DEF RemoveUser, RemoveTime, Resume
  <2>2. pc'[t] \in {"rmTime", "sweep", "idle"}
    BY <1>14 DEF RemoveUser, RemoveTime, Resume
  <2>3. Inverse'
    BY <1>5, <2>1 DEF Inverse
  <2>4. pc'[t] = "rmTime" => pc[t] = "rmUser" /\ UNCHANGED job
    BY <1>14 DEF RemoveUser, RemoveTime, Resume
  <2> QED
    BY <1>3, <1>6, <2>1, <2>2, <2>3, <2>4 DEF Progress
<1> QED
  BY <1>8, <1>9, <1>10, <1>11, <1>12, <1>13, <1>14 DEF Locked

\* The session databases stay consistent in every step of the bot.
LEMMA SessionStep == SessionInv /\ [Next]_vars => SessionInv'
<1> SUFFICES ASSUME SessionInv, [Next]_vars PROVE SessionInv'
  OBVIOUS
<1>1. Typed'
  BY TypedStep DEF SessionInv
<1>2. CASE UNCHANGED <<n2u, u2n, mutex, pc, job>>
  BY <1>1, <1>2 DEF SessionInv, Exclusive, Inverse, Progress, SettingMask
<1>3. ASSUME NEW t \in Threads, Outside(t) \/ Locked(t) PROVE SessionInv'
  BY <1>1, <1>3, OutsideStep, LockedStep DEF SessionInv
<1> QED
  BY <1>2, <1>3, OutsideOrLocked DEF SessionInv

\* The relation of the session databases holds in every reachable state.
LEMMA SessionInvariant == Spec => []SessionInv
BY SessionInit, SessionStep, PTL DEF Spec

\* Never have two netmasks the rights of one account, at no point of log_on.
THEOREM OneMaskAlways == Spec => []OneMaskPerLogin
<1>1. SessionInv => OneMaskPerLogin
  <2> SUFFICES ASSUME SessionInv, NEW a \in Masks, NEW b \in Masks,
                      n2u[a] = n2u[b], n2u[a] # None
               PROVE  a = b
    BY DEF OneMaskPerLogin
  <2>1. CASE \E t \in Threads : SettingMask(t, a) \/ SettingMask(t, b)
    BY <2>1 DEF SessionInv, Progress, SettingMask
  <2>2. CASE u2n[n2u[a]] = a /\ u2n[n2u[b]] = b
    BY <2>2
  <2> QED
    BY <2>1, <2>2 DEF SessionInv, Inverse
<1> QED
  BY <1>1, SessionInvariant, PTL

\* Outside of log_on and log_out every authenticated netmask can be logged off.
THEOREM MaskCanLogOutAlways == Spec => []MaskCanLogOut
<1>1. SessionInv => MaskCanLogOut
  BY SessionsAssumption DEF SessionInv, MaskCanLogOut, Inverse, SettingMask, Exclusive, Critical
<1> QED
  BY <1>1, SessionInvariant, PTL

\* No step gives an authenticated netmask the rights of another account.
THEOREM NoSwitchAlways == Spec => NoSwitch
<1>1. SessionInv /\ [Next]_vars => [\A m \in Masks : n2u[m] # None => n2u'[m] \in {n2u[m], None}]_vars
  <2> SUFFICES ASSUME SessionInv, [Next]_vars, NEW m \in Masks, n2u[m] # None
               PROVE  n2u'[m] \in {n2u[m], None}
    OBVIOUS
  <2>1. ASSUME NEW t \in Threads, Locked(t) PROVE n2u'[m] \in {n2u[m], None}
    BY <2>1 DEF SessionInv, Typed, TypeOK, Locked, LogOn, LogOnDel, LogOnAdd, LogOnSet, LogOut,
           Remove, LogOutDel, LogOutSet, RemoveUser, RemoveTime, databases
  <2> QED
    BY <2>1, OutsideOrLocked DEF SessionInv, Outside
<1> QED
  BY <1>1, SessionInvariant, PTL DEF Spec, NoSwitch

\* The initial databases have no session, so none without a time stamp.
LEMMA StampedInit == Init => SessionIsStamped
BY DEF Init, SessionIsStamped

\* Where the thread that logs a login on is about to write its time stamp.
Stamping == {"onSet", "stamp", "stampAdd"}

\* A step that logs nobody on, takes no stamp of an authenticated login away, and
\* is not of a thread about to write a stamp.
Aside(t) == /\ pc[t] \notin Stamping
            /\ \A s \in Threads \ {t} : pc'[s] = pc[s] /\ job'[s] = job[s]
            /\ \A m \in Masks : n2u'[m] \in {n2u[m], None}
            /\ \A m \in Masks : n2u[m] # None /\ stamp[n2u[m]] # None => stamp'[n2u[m]] # None

\* Such a step leaves everybody else to write the stamps still owed.
LEMMA AsideStep ==
    ASSUME SessionInv, SessionIsStamped, NEW t \in Threads, Aside(t) PROVE SessionIsStamped'
<1> SUFFICES ASSUME NEW m \in Masks, n2u'[m] # None, stamp'[n2u'[m]] = None
             PROVE  \E s \in Threads : /\ job'[s].login = n2u'[m]
                                        /\ pc'[s] \in {"onSet", "stamp", "stampAdd"}
  BY DEF SessionIsStamped
<1>1. n2u'[m] = n2u[m] /\ stamp[n2u[m]] = None
  BY DEF Aside
<1>2. PICK s \in Threads : job[s].login = n2u[m] /\ pc[s] \in Stamping
  BY <1>1 DEF SessionIsStamped, Stamping
<1> QED
  BY <1>1, <1>2 DEF Aside, Stamping

\* Every step keeps an authenticated login within reach of the sweeps.
LEMMA StampedStep == SessionInv /\ SessionIsStamped /\ [Next]_vars => SessionIsStamped'
<1> SUFFICES ASSUME SessionInv, SessionIsStamped, [Next]_vars PROVE SessionIsStamped'
  OBVIOUS
<1> USE SessionsAssumption DEF SessionInv, Typed, TypeOK, Threads, Goto, databases
<1>1. ASSUME NEW w \in Workers, NEW m \in Masks, Hello(w, m) \/ Logoff(w, m) PROVE Aside(w)
  BY <1>1 DEF Hello, Logoff, Begin, Aside, Stamping
<1>2. ASSUME NEW w \in Workers, NEW m \in Masks, NEW l \in Logins, Ident(w, m, l) PROVE Aside(w)
  BY <1>2 DEF Ident, Begin, Aside, Stamping
<1>3. ASSUME NEW w \in Workers, NEW m \in Masks, NEW new \in Masks, NickChange(w, m, new)
      PROVE  Aside(w)
  BY <1>3 DEF NickChange, Begin, Aside, Stamping
<1>4. ASSUME NEW w \in Workers, NEW l \in Logins, RmAccount(w, l) PROVE Aside(w)
  BY <1>4 DEF RmAccount, Begin, Aside, Stamping
<1>5. ASSUME NEW w \in Workers, IdentCheck(w) PROVE Aside(w)
  BY <1>5 DEF IdentCheck, Resume, Aside, Stamping
<1>6. ASSUME NEW op \in Ops, StartSweep(op) PROVE Aside(Timer)
  BY <1>6 DEF StartSweep, Begin, Aside, Stamping
<1>7. ASSUME NEW l \in Logins, SweepSkip(l) \/ SweepHit(l) PROVE Aside(Timer)
  BY <1>7 DEF SweepSkip, SweepHit, Aside, Stamping
<1>8. CASE SweepTest \/ EndSweep
  <2>1. Aside(Timer)
    BY <1>8 DEF SweepTest, EndSweep, Resume, Aside, Stamping
  <2> QED
    BY <2>1, AsideStep
<1>9. ASSUME NEW t \in Threads, StampReplace(t) \/ StampStore(t) PROVE Aside(t)
  BY <1>9 DEF StampReplace, StampStore, Resume, Aside, Stamping, Stamps
<1>10. ASSUME NEW t \in Threads, LogOn(t) \/ LogOnDel(t) PROVE Aside(t)
  BY <1>10 DEF LogOn, LogOnDel, Aside, Stamping
<1>11. ASSUME NEW t \in Threads, LogOut(t) \/ Remove(t) \/ LogOutDel(t) \/ LogOutSet(t)
       PROVE  Aside(t)
  BY <1>11 DEF LogOut, Remove, LogOutDel, LogOutSet, AfterLogOut, Resume, Aside, Stamping
<1>12. ASSUME NEW t \in Threads, RemoveUser(t) \/ RemoveTime(t) PROVE Aside(t)
  BY <1>12 DEF RemoveUser, RemoveTime, Resume, Aside, Stamping, Progress
<1>13. ASSUME NEW t \in Threads, StampTest(t) \/ LogOnAdd(t) \/ LogOnSet(t)
       PROVE  SessionIsStamped'
  BY <1>13 DEF StampTest, LogOnAdd, LogOnSet, SessionIsStamped
<1>14. ASSUME NEW t \in Threads, StampAdd(t) PROVE SessionIsStamped'
  <2>1. job[t].login \in Logins
    BY <1>14 DEF StampAdd, Resume, JobsSet
  <2>2. stamp'[job[t].login] # None /\ \A l \in Logins : stamp[l] # None => stamp'[l] # None
    BY <1>14, <2>1 DEF StampAdd, Stamps
  <2>3. n2u' = n2u /\ \A s \in Threads \ {t} : pc'[s] = pc[s] /\ job'[s] = job[s]
    BY <1>14 DEF StampAdd, Resume
  <2> QED
    BY <2>1, <2>2, <2>3 DEF SessionIsStamped
<1>15. ASSUME NEW l \in Logins, Expire(l) PROVE SessionIsStamped'
  <2>1. \A k \in Logins : stamp[k] # None => stamp'[k] # None
    BY <1>15 DEF Expire, Stamps
  <2> QED
    BY <1>15, <2>1 DEF Expire, SessionIsStamped
<1>16. CASE UNCHANGED vars
  BY <1>16 DEF vars, SessionIsStamped
<1> QED
  BY NextCases, AsideStep, <1>1, <1>2, <1>3, <1>4, <1>5, <1>6, <1>7, <1>8, <1>9, <1>10, <1>11,
     <1>12, <1>13, <1>15, <1>14, <1>16 DEF StepCases

\* Every authenticated login has a time stamp, or a thread about to write it.
THEOREM SessionIsStampedAlways == Spec => []SessionIsStamped
<1>1. SessionIsStamped /\ SessionInv /\ [Next]_vars => SessionIsStamped'
  BY StampedStep
<1> QED
  BY <1>1, StampedInit, SessionInvariant, PTL DEF Spec

-----------------------------------------------------------------------------
(* The sessions implement Admission *)

\* What a thread knows, beside Progress, of the command it is in and of the session
\* of its login.
Knows ==
    /\ pc[Timer] # "idle" => job[Timer].op \in {"deadLogins", "deadAccounts"}
    /\ pc[Timer] = "sweepTest" => job[Timer].op = "deadLogins"
    /\ \A t \in Threads :
        /\ pc[t] = "out" => ~Removing(t)
        /\ pc[t] \in {"rm", "rmUser"} => Removing(t)
        /\ pc[t] \in {"onDel", "outDel"} => u2n[job[t].login] # None
        /\ pc[t] = "rmUser" => u2n[job[t].login] = None

\* Nobody is in a command when the bot starts.
LEMMA KnowsInit == Init => Knows
BY SessionsAssumption DEF Init, Knows, Threads

\* A thread that returns from its handler knows nothing but the sweep it is in.
LEMMA KnowsResume ==
    ASSUME Typed, Knows, NEW t \in Threads, NEW a, Resume(t, a), a # "idle",
           \A s \in Threads \ {t} : pc[s] \in Critical => u2n'[job[s].login] = u2n[job[s].login]
    PROVE  Knows'
<1> USE SessionsAssumption DEF Typed, TypeOK, Threads
<1>1. /\ pc'[t] \in {"idle", "sweep"}
      /\ t # Timer => pc'[t] = "idle"
      /\ t = Timer => job'[t].op = job[t].op
      /\ pc[t] = a
  BY DEF Resume, NoJob
<1>2. \A s \in Threads \ {t} : pc'[s] = pc[s] /\ job'[s] = job[s]
  BY DEF Resume
<1> QED
  BY <1>1, <1>2 DEF Knows, Removing, Critical

\* Every step of the bot preserves what its threads know.
LEMMA KnowsStep == SessionInv /\ Knows /\ [Next]_vars => Knows'
<1> SUFFICES ASSUME SessionInv, Knows, [Next]_vars PROVE Knows'
  OBVIOUS
<1>0. \A s, t \in Threads : pc[s] \in Critical /\ (mutex = None \/ pc[t] \in Critical) => s = t
  BY SessionsAssumption DEF SessionInv, Exclusive, Threads
<1> USE SessionsAssumption DEF SessionInv, Typed, TypeOK, Knows, Removing, Threads, Goto, databases
<1>1. ASSUME NEW w \in Workers, NEW m \in Masks, Hello(w, m) PROVE Knows'
  BY <1>1 DEF Hello, Begin
<1>2. ASSUME NEW w \in Workers, NEW m \in Masks, Logoff(w, m) PROVE Knows'
  BY <1>2 DEF Logoff, Begin
<1>3. ASSUME NEW w \in Workers, NEW m \in Masks, NEW l \in Logins, Ident(w, m, l) PROVE Knows'
  BY <1>3 DEF Ident, Begin
<1>4. ASSUME NEW w \in Workers, NEW m \in Masks, NEW new \in Masks, NickChange(w, m, new)
      PROVE  Knows'
  BY <1>4 DEF NickChange, Begin
<1>5. ASSUME NEW w \in Workers, NEW l \in Logins, RmAccount(w, l) PROVE Knows'
  BY <1>5 DEF RmAccount, Begin
<1>6. ASSUME NEW w \in Workers, IdentCheck(w) PROVE Knows'
  BY <1>6, KnowsResume DEF IdentCheck
<1>7. ASSUME NEW op \in Ops, StartSweep(op) PROVE Knows'
  BY <1>7 DEF StartSweep, Begin
<1>8. ASSUME NEW l \in Logins, SweepSkip(l) PROVE Knows'
  BY <1>8 DEF SweepSkip
<1>9. ASSUME NEW l \in Logins, SweepHit(l) PROVE Knows'
  BY <1>9 DEF SweepHit, Jobs
<1>10. CASE SweepTest
  BY <1>10, KnowsResume DEF SweepTest
<1>11. CASE EndSweep
  BY <1>11 DEF EndSweep, NoJob
<1>12. ASSUME NEW t \in Threads, StampTest(t) PROVE Knows'
  BY <1>12 DEF StampTest
<1>13. ASSUME NEW t \in Threads, StampReplace(t) PROVE Knows'
  BY <1>13, KnowsResume DEF StampReplace
<1>14. ASSUME NEW t \in Threads, StampStore(t) PROVE Knows'
  BY <1>14, KnowsResume DEF StampStore
<1>15. ASSUME NEW t \in Threads, StampAdd(t) PROVE Knows'
  BY <1>15, KnowsResume DEF StampAdd
<1>16. ASSUME NEW t \in Threads, LogOn(t) PROVE Knows'
  BY <1>16 DEF LogOn, Jobs
<1>17. ASSUME NEW t \in Threads, LogOnDel(t) PROVE Knows'
  BY <1>17 DEF LogOnDel
<1>18. ASSUME NEW t \in Threads, LogOnAdd(t) PROVE Knows'
  BY <1>18 DEF LogOnAdd
<1>19. ASSUME NEW t \in Threads, LogOnSet(t) PROVE Knows'
  BY <1>19, <1>0 DEF LogOnSet, Critical
<1>20. ASSUME NEW t \in Threads, LogOut(t) PROVE Knows'
  <2>1. CASE u2n[job[t].login] = None /\ job[t].op = "nick"
    BY <1>20, <2>1 DEF LogOut, AfterLogOut
  <2>2. CASE u2n[job[t].login] = None /\ job[t].op # "nick"
    BY <1>20, <2>2, KnowsResume DEF LogOut, AfterLogOut
  <2>3. CASE u2n[job[t].login] # None
    BY <1>20, <2>3 DEF LogOut, Jobs
  <2> QED
    BY <2>1, <2>2, <2>3
<1>21. ASSUME NEW t \in Threads, Remove(t) PROVE Knows'
  BY <1>21 DEF Remove, Jobs
<1>22. ASSUME NEW t \in Threads, LogOutDel(t) PROVE Knows'
  BY <1>22 DEF LogOutDel
<1>23. ASSUME NEW t \in Threads, LogOutSet(t) PROVE Knows'
  <2>1. \A s \in Threads \ {t} : pc[s] \notin Critical
    BY <1>0, <1>23 DEF LogOutSet, Critical
  <2>2. job[t].login \in Logins
    BY <1>23 DEF LogOutSet, JobsSet
  <2>3. CASE Removing(t)
    BY <1>23, <2>1, <2>2, <2>3 DEF LogOutSet, Critical
  <2>4. CASE ~Removing(t) /\ job[t].op = "nick"
    BY <1>23, <2>1, <2>4 DEF LogOutSet, AfterLogOut, Critical
  <2>5. CASE ~Removing(t) /\ job[t].op # "nick"
    BY <1>23, <2>1, <2>5, KnowsResume DEF LogOutSet, AfterLogOut
  <2> QED
    BY <2>3, <2>4, <2>5
<1>24. ASSUME NEW t \in Threads, RemoveUser(t) PROVE Knows'
  BY <1>24 DEF RemoveUser
<1>25. ASSUME NEW t \in Threads, RemoveTime(t) PROVE Knows'
  BY <1>25, KnowsResume DEF RemoveTime
<1>26. ASSUME NEW l \in Logins, Expire(l) PROVE Knows'
  BY <1>26 DEF Expire
<1>27. CASE UNCHANGED vars
  BY <1>27 DEF vars
<1> QED
  BY NextCases, <1>1, <1>2, <1>3, <1>4, <1>5, <1>6, <1>7, <1>8, <1>9, <1>10, <1>11, <1>12,
     <1>13, <1>14, <1>15, <1>16, <1>17, <1>18, <1>19, <1>20, <1>21, <1>22, <1>23, <1>24,
     <1>25, <1>26, <1>27 DEF StepCases

-----------------------------------------------------------------------------
\* The state that Sessions maps to: see Admitted.
Lasts == [l \in Logins |-> LastOn(l)]
Plans == [t \in Threads |-> PlanOf(t)]

AdmInv == SessionInv /\ Knows

\* Only the thread that takes the step changes its plan.
LEMMA PlansAre ==
    ASSUME NEW t \in Threads, \A s \in Threads \ {t} : pc'[s] = pc[s] /\ job'[s] = job[s]
    PROVE  Plans' = [Plans EXCEPT ![t] = PlanOf(t)']
<1>1. \A s \in Threads \ {t} : PlanOf(s)' = PlanOf(s)
  BY DEF PlanOf, Ends, Removes, Begins, Removing
<1> QED
  BY <1>1 DEF Plans

\* Outside the critical sections the databases do not change, nor what stands for them.
LEMMA LastOutside ==
    ASSUME SessionInv, NEW t \in Threads, Outside(t)
    PROVE  Lasts' = Lasts
<1> USE SessionsAssumption DEF SessionInv, Typed, TypeOK, Outside, Threads
<1>1. ASSUME NEW l \in Logins PROVE LastOn(l)' = LastOn(l)
  <2>1. CASE mutex = None
    BY <2>1 DEF LastOn
  <2>2. CASE mutex = t
    BY <2>2 DEF LastOn, Critical
  <2>3. CASE mutex \notin {None, t}
    BY <2>3 DEF LastOn
  <2> QED
    BY <2>1, <2>2, <2>3
<1> QED
  BY <1>1 DEF Lasts

\* A step that changes neither databases nor plans is none of Admission.
LEMMA Stays ==
    ASSUME NEW t \in Threads, \A s \in Threads \ {t} : pc'[s] = pc[s] /\ job'[s] = job[s],
           PlanOf(t)' = PlanOf(t), Lasts' = Lasts, UNCHANGED <<users, n2u>>
    PROVE  UNCHANGED Adm!vars
<1>1. Plans' = Plans
  BY PlansAre DEF Plans
<1> QED
  BY <1>1 DEF Adm!vars, Plans, Lasts

\* A thread that has planned nothing takes on a command.
LEMMA TakeIs ==
    ASSUME SessionInv, NEW t \in Threads, Outside(t), PlanOf(t) = Adm!Nothing,
           NEW p, PlanOf(t)' = p, p # Adm!Nothing, Adm!May(t, p)
    PROVE  Adm!Next
<1>1. Plans' = [Plans EXCEPT ![t] = PlanOf(t)']
  BY PlansAre DEF Outside
<1>2. Lasts' = Lasts /\ n2u' = n2u
  BY LastOutside DEF Outside
<1>3. Plans[t] = PlanOf(t) /\ Plans'[t] = p
  BY <1>1 DEF Plans
<1>4. Adm!Take(t, Plans[t])
  BY <1>1, <1>2, <1>3 DEF Adm!Take, Plans, Lasts
<1> QED
  BY <1>4 DEF Adm!Next, Plans

\* What follows an idle label has no plan before it.
LEMMA NoPlan ==
    ASSUME NEW t \in Threads,
           pc[t] \notin {"on", "onDel", "onAdd", "out", "rm", "outDel", "outSet", "rmUser"}
    PROVE  PlanOf(t) = Adm!Nothing
BY DEF PlanOf, Ends, Removes, Begins, Adm!Nothing, Adm!Plan

\* The same after a step.
LEMMA NoPlanThen ==
    ASSUME NEW t \in Threads,
           pc'[t] \notin {"on", "onDel", "onAdd", "out", "rm", "outDel", "outSet", "rmUser"}
    PROVE  PlanOf(t)' = Adm!Nothing
BY DEF PlanOf, Ends, Removes, Begins, Adm!Nothing, Adm!Plan

\* The commands of the execution threads are taken on as they are.
LEMMA CommandIs ==
    ASSUME AdmInv, NEW w \in Workers, Command(w)
    PROVE  Adm!Next \/ UNCHANGED Adm!vars
<1> USE SessionsAssumption DEF AdmInv, SessionInv, Typed, TypeOK, Threads, Goto
<1> w \in Threads
  OBVIOUS
<1>1. ASSUME NEW m \in Masks, Hello(w, m) PROVE Adm!Next
  <2>1. Outside(w)
    BY <1>1 DEF Hello, Begin, Outside, Critical
  <2>2. PlanOf(w) = Adm!Nothing
    BY <1>1, NoPlan DEF Hello, Begin
  <2> DEFINE p == Adm!Plan({}, {}, {<<m, NickOf[m]>>})
  <2>3. PlanOf(w)' = p
    BY <1>1 DEF Hello, Begin, PlanOf, Ends, Removes, Begins, Adm!Plan
  <2>4. p # Adm!Nothing
    BY DEF Adm!Plan, Adm!Nothing
  <2>5. Adm!May(w, p)
    BY <1>1 DEF Hello, Adm!May, Adm!Found
  <2> QED
    BY <2>1, <2>2, <2>3, <2>4, <2>5, TakeIs
<1>2. ASSUME NEW m \in Masks, Logoff(w, m) PROVE Adm!Next
  <2>1. Outside(w)
    BY <1>2 DEF Logoff, Begin, Outside, Critical, databases
  <2>2. PlanOf(w) = Adm!Nothing
    BY <1>2, NoPlan DEF Logoff, Begin
  <2> DEFINE p == Adm!Plan({n2u[m]}, {}, {})
  <2>3. PlanOf(w)' = p
    BY <1>2 DEF Logoff, Begin, PlanOf, Ends, Removes, Begins, Adm!Plan
  <2>4. p # Adm!Nothing
    BY DEF Adm!Plan, Adm!Nothing
  <2>5. Adm!May(w, p)
    BY <1>2 DEF Logoff, Adm!May, Adm!Quit, databases
  <2> QED
    BY <2>1, <2>2, <2>3, <2>4, <2>5, TakeIs
<1>3. ASSUME NEW m \in Masks, NEW l \in Logins, Ident(w, m, l) PROVE UNCHANGED Adm!vars
  <2>1. Outside(w)
    BY <1>3 DEF Ident, Begin, Outside, Critical, databases
  <2>2. PlanOf(w) = Adm!Nothing /\ PlanOf(w)' = Adm!Nothing
    BY <1>3, NoPlan, NoPlanThen DEF Ident, Begin
  <2> QED
    BY <1>3, <2>1, <2>2, LastOutside, Stays DEF Ident, Outside, databases
<1>4. ASSUME NEW m \in Masks, NEW new \in Masks, NickChange(w, m, new) PROVE Adm!Next
  <2>1. Outside(w)
    BY <1>4 DEF NickChange, Begin, Outside, Critical, databases
  <2>2. PlanOf(w) = Adm!Nothing
    BY <1>4, NoPlan DEF NickChange, Begin
  <2> DEFINE p == Adm!Plan({n2u[m]}, {}, {<<new, n2u[m]>>})
  <2>3. PlanOf(w)' = p
    BY <1>4 DEF NickChange, Begin, PlanOf, Ends, Removes, Begins, Adm!Plan
  <2>4. p # Adm!Nothing
    BY DEF Adm!Plan, Adm!Nothing
  <2>5. Adm!May(w, p)
    BY <1>4 DEF NickChange, Adm!May, Adm!Rename, databases
  <2> QED
    BY <2>1, <2>2, <2>3, <2>4, <2>5, TakeIs
<1>5. ASSUME NEW l \in Logins, RmAccount(w, l) PROVE Adm!Next
  <2>1. Outside(w)
    BY <1>5 DEF RmAccount, Begin, Outside, Critical, databases
  <2>2. PlanOf(w) = Adm!Nothing
    BY <1>5, NoPlan DEF RmAccount, Begin
  <2> DEFINE p == Adm!Plan({l}, {l}, {})
  <2>3. PlanOf(w)' = p
    BY <1>5 DEF RmAccount, Begin, PlanOf, Ends, Removes, Begins, Removing, Adm!Plan
  <2>4. p # Adm!Nothing
    BY DEF Adm!Plan, Adm!Nothing
  <2>5. Adm!May(w, p)
    BY <1>5 DEF RmAccount, Adm!May, Adm!Expel, databases
  <2> QED
    BY <2>1, <2>2, <2>3, <2>4, <2>5, TakeIs
<1>6. CASE IdentCheck(w)
  <2>1. Outside(w) /\ UNCHANGED <<users, n2u>>
    BY <1>6 DEF IdentCheck, Resume, Outside, Critical, databases
  <2>2. PlanOf(w) = Adm!Nothing
    BY <1>6, NoPlan DEF IdentCheck
  <2>3. CASE Resume(w, "check")
    <3>1. PlanOf(w)' = Adm!Nothing
      BY <2>3, NoPlanThen DEF Resume
    <3> QED
      BY <2>1, <2>2, <3>1, LastOutside, Stays DEF Outside
  <2>4. CASE job[w].login \in users /\ pc' = [pc EXCEPT ![w] = "on"] /\ job' = job
    <3> DEFINE p == Adm!Plan({}, {}, {<<job[w].mask, job[w].login>>})
    <3>1. PlanOf(w)' = p
      BY <2>4 DEF PlanOf, Ends, Removes, Begins, Adm!Plan
    <3>2. p # Adm!Nothing
      BY DEF Adm!Plan, Adm!Nothing
    <3>3. job[w].mask \in Masks /\ job[w].login \in Logins
      BY <1>6 DEF IdentCheck, JobsSet
    <3>4. Adm!May(w, p)
      BY <2>1, <2>4, <3>3 DEF Adm!May, Adm!Identify
    <3> QED
      BY <2>1, <2>2, <3>1, <3>2, <3>4, TakeIs
  <2> QED
    BY <1>6, <2>3, <2>4 DEF IdentCheck
<1> QED
  BY <1>1, <1>2, <1>3, <1>4, <1>5, <1>6 DEF Command

\* The sweeps of the timing thread are taken on entry by entry.
LEMMA SweepIs ==
    ASSUME AdmInv, Sweep
    PROVE  Adm!Next \/ UNCHANGED Adm!vars
<1> USE SessionsAssumption DEF AdmInv, SessionInv, Typed, TypeOK, Threads, Goto
<1> Timer \in Threads
  OBVIOUS
<1>1. ASSUME Outside(Timer), PlanOf(Timer) = Adm!Nothing, PlanOf(Timer)' = Adm!Nothing,
             UNCHANGED <<users, n2u>>
      PROVE  UNCHANGED Adm!vars
  BY <1>1, LastOutside, Stays DEF Outside
<1>2. ASSUME NEW op \in Ops, StartSweep(op) PROVE UNCHANGED Adm!vars
  <2>1. Outside(Timer) /\ UNCHANGED <<users, n2u>>
    BY <1>2 DEF StartSweep, Begin, Outside, Critical, databases
  <2>2. PlanOf(Timer) = Adm!Nothing /\ PlanOf(Timer)' = Adm!Nothing
    BY <1>2, NoPlan, NoPlanThen DEF StartSweep, Begin
  <2> QED
    BY <1>1, <2>1, <2>2
<1>3. ASSUME NEW l \in Logins, SweepSkip(l) PROVE UNCHANGED Adm!vars
  <2>1. Outside(Timer) /\ UNCHANGED <<users, n2u>>
    BY <1>3 DEF SweepSkip, Outside, Critical, databases
  <2>2. PlanOf(Timer) = Adm!Nothing /\ PlanOf(Timer)' = Adm!Nothing
    BY <1>3, NoPlan, NoPlanThen DEF SweepSkip
  <2> QED
    BY <1>1, <2>1, <2>2
<1>4. CASE EndSweep
  <2>1. Outside(Timer) /\ UNCHANGED <<users, n2u>>
    BY <1>4 DEF EndSweep, Outside, Critical, databases
  <2>2. PlanOf(Timer) = Adm!Nothing /\ PlanOf(Timer)' = Adm!Nothing
    BY <1>4, NoPlan, NoPlanThen DEF EndSweep
  <2> QED
    BY <1>1, <2>1, <2>2
<1>5. ASSUME NEW l \in Logins, SweepHit(l) PROVE Adm!Next \/ UNCHANGED Adm!vars
  <2>1. Outside(Timer) /\ UNCHANGED <<users, n2u>>
    BY <1>5 DEF SweepHit, Outside, Critical, databases
  <2>2. PlanOf(Timer) = Adm!Nothing
    BY <1>5, NoPlan DEF SweepHit
  <2>3. job'[Timer].op = job[Timer].op /\ job'[Timer].login = l
    BY <1>5 DEF SweepHit, Jobs
  <2>4. CASE pc'[Timer] = "sweepTest"
    <3>1. PlanOf(Timer)' = Adm!Nothing
      BY <2>4, NoPlanThen
    <3> QED
      BY <1>1, <2>1, <2>2, <3>1
  <2>5. CASE pc'[Timer] = "rm" /\ job[Timer].op # "deadLogins"
    <3> DEFINE p == Adm!Plan({l}, {l}, {})
    <3>1. job[Timer].op = "deadAccounts"
      BY <1>5, <2>5 DEF Knows, SweepHit
    <3>2. PlanOf(Timer)' = p
      BY <2>3, <2>5, <3>1 DEF PlanOf, Ends, Removes, Begins, Removing, Adm!Plan
    <3>3. p # Adm!Nothing
      BY DEF Adm!Plan, Adm!Nothing
    <3>4. Adm!May(Timer, p)
      BY <2>1 DEF Adm!May, Adm!Sweep
    <3> QED
      BY <2>1, <2>2, <3>2, <3>3, <3>4, TakeIs
  <2> QED
    BY <1>5, <2>4, <2>5 DEF SweepHit
<1>6. CASE SweepTest
  <2>1. Outside(Timer) /\ UNCHANGED <<users, n2u>>
    BY <1>6 DEF SweepTest, Resume, Outside, Critical, databases
  <2>2. PlanOf(Timer) = Adm!Nothing
    BY <1>6, NoPlan DEF SweepTest
  <2>3. CASE Resume(Timer, "sweepTest")
    <3>1. PlanOf(Timer)' = Adm!Nothing
      BY <2>3, NoPlanThen DEF Resume
    <3> QED
      BY <1>1, <2>1, <2>2, <3>1
  <2>4. CASE pc' = [pc EXCEPT ![Timer] = "out"] /\ job' = job
    <3> DEFINE l == job[Timer].login
               p == Adm!Plan({l}, {}, {})
    <3>1. l \in Logins /\ job[Timer].op = "deadLogins"
      BY <1>6 DEF SweepTest, JobsSet, Knows
    <3>2. PlanOf(Timer)' = p
      BY <2>4, <3>1 DEF PlanOf, Ends, Removes, Begins, Adm!Plan
    <3>3. p # Adm!Nothing
      BY DEF Adm!Plan, Adm!Nothing
    <3>4. Adm!May(Timer, p)
      BY <2>1, <3>1 DEF Adm!May, Adm!Sweep
    <3> QED
      BY <2>1, <2>2, <3>2, <3>3, <3>4, TakeIs
  <2> QED
    BY <1>6, <2>3, <2>4 DEF SweepTest
<1> QED
  BY <1>2, <1>3, <1>4, <1>5, <1>6 DEF Sweep

\* The time stamps are no matter of Admission.
LEMMA StampIs ==
    ASSUME AdmInv, NEW t \in Threads,
           StampTest(t) \/ StampReplace(t) \/ StampStore(t) \/ StampAdd(t)
    PROVE  UNCHANGED Adm!vars
<1> USE SessionsAssumption DEF AdmInv, SessionInv, Typed, TypeOK, Goto
<1>1. Outside(t) /\ UNCHANGED <<users, n2u>>
  BY DEF StampTest, StampReplace, StampStore, StampAdd, Resume, Outside, Critical, databases
<1>2. /\ pc[t] \in {"stamp", "stampReplace", "stampStore", "stampAdd"}
      /\ pc'[t] \in {"stampReplace", "stampStore", "stampAdd", "sweep", "idle"}
  BY DEF StampTest, StampReplace, StampStore, StampAdd, Resume, Threads
<1>3. PlanOf(t) = Adm!Nothing /\ PlanOf(t)' = Adm!Nothing
  BY <1>2, NoPlan, NoPlanThen
<1> QED
  BY <1>1, <1>3, LastOutside, Stays DEF Outside

\* A step of the owner of mutexAccount, or of the next one.
LEMMA Owner ==
    ASSUME SessionInv, NEW t \in Threads, Locked(t)
    PROVE  /\ \A s \in Threads \ {t} : pc'[s] = pc[s] /\ job'[s] = job[s]
           /\ job[t].login \in Logins
           /\ pc[t] \in Critical => mutex = t
           /\ pc[t] \notin Critical => mutex = None
<1> USE SessionsAssumption DEF SessionInv, Typed, TypeOK, Goto, Critical
<1>1. \A s \in Threads \ {t} : pc'[s] = pc[s] /\ job'[s] = job[s]
  BY DEF Locked, LogOn, LogOnDel, LogOnAdd, LogOnSet, LogOut, Remove, LogOutDel, LogOutSet,
         RemoveUser, RemoveTime, AfterLogOut, Resume, databases
<1>2. job[t].login \in Logins
  BY DEF Locked, LogOn, LogOnDel, LogOnAdd, LogOnSet, LogOut, Remove, LogOutDel, LogOutSet,
         RemoveUser, RemoveTime, Resume, JobsSet
<1>3. pc[t] \in Critical => mutex = t
  BY DEF Exclusive
<1>4. pc[t] \notin Critical => mutex = None
  BY DEF Locked, LogOn, LogOnDel, LogOnAdd, LogOnSet, LogOut, Remove, LogOutDel, LogOutSet,
         RemoveUser, RemoveTime, Resume
<1> QED
  BY <1>1, <1>2, <1>3, <1>4

\* log_on: the lock and the last write are no step of Admission, the deletion of the
\* old netmask displaces it, and the other write begins the session.
LEMMA LogOnIs ==
    ASSUME AdmInv, NEW t \in Threads, LogOn(t) \/ LogOnDel(t) \/ LogOnAdd(t) \/ LogOnSet(t)
    PROVE  Adm!Next \/ UNCHANGED Adm!vars
<1> USE SessionsAssumption DEF AdmInv, SessionInv, Typed, TypeOK, Goto
<1> DEFINE login == job[t].login
           mask == job[t].mask
<1>1. Locked(t)
  BY DEF Locked
<1>2. \A s \in Threads \ {t} : pc'[s] = pc[s] /\ job'[s] = job[s]
  BY <1>1, Owner
<1>3. login \in Logins
  BY <1>1, Owner
<1>4. Plans' = [Plans EXCEPT ![t] = PlanOf(t)'] /\ Plans[t] = PlanOf(t)
  BY <1>2, PlansAre DEF Plans
<1>5. mask \in Masks
  BY DEF LogOn, LogOnDel, LogOnAdd, LogOnSet, JobsSet
<1>6. CASE LogOn(t)
  <2>1. mutex = None /\ mutex' = t /\ u2n' = u2n /\ UNCHANGED <<users, n2u>>
    BY <1>6 DEF LogOn, databases
  <2>2. /\ job'[t].login = login /\ job'[t].mask = mask
        /\ pc'[t] = (IF u2n[login] = None THEN "onAdd" ELSE "onDel")
    BY <1>6 DEF LogOn, Jobs
  <2>3. PlanOf(t)' = PlanOf(t)
    BY <1>6, <2>2 DEF LogOn, PlanOf, Ends, Removes, Begins
  <2>4. Lasts' = Lasts
    BY <2>1, <2>2 DEF Lasts, LastOn
  <2> QED
    BY <1>2, <2>1, <2>3, <2>4, Stays
<1>7. CASE LogOnDel(t)
  <2>1. mutex = t /\ mutex' = t /\ u2n' = u2n /\ job' = job /\ UNCHANGED users
    BY <1>1, <1>7, Owner DEF LogOnDel, Critical
  <2>2. u2n[login] # None /\ n2u' = [n2u EXCEPT ![u2n[login]] = None]
    BY <1>7 DEF LogOnDel, Knows, Progress
  <2>3. pc[t] = "onDel" /\ pc'[t] = "onAdd"
    BY <1>7 DEF LogOnDel
  <2>4. PlanOf(t)' = PlanOf(t) /\ PlanOf(t).end = {} /\ PlanOf(t).begin = {<<mask, login>>}
    BY <2>1, <2>3 DEF PlanOf, Ends, Removes, Begins
  <2>5. Plans' = Plans
    BY <1>4, <2>4 DEF Plans
  <2>6. Lasts[login] = u2n[login] /\ Lasts' = [Lasts EXCEPT ![login] = None]
    BY <1>3, <2>1, <2>3 DEF Lasts, LastOn
  <2> DEFINE b == <<mask, login>>
  <2>7. Adm!Loses(login) /\ b[2] = login
    BY <2>2, <2>6 DEF Adm!Loses, Lasts
  <2>8. \E c \in PlanOf(t).begin : Adm!Loses(c[2])
    BY <2>4, <2>7
  <2>9. Adm!Displace(t, PlanOf(t))
    BY <2>1, <2>4, <2>5, <2>8 DEF Adm!Displace, Plans
  <2> QED
    BY <1>4, <2>9 DEF Adm!Next, Plans
<1>8. CASE LogOnAdd(t)
  <2>1. mutex = t /\ mutex' = t /\ u2n' = u2n /\ job' = job /\ UNCHANGED users
    BY <1>1, <1>8, Owner DEF LogOnAdd, Critical
  <2>2. n2u' = [n2u EXCEPT ![mask] = IF @ = None THEN login ELSE @]
    BY <1>5, <1>8 DEF LogOnAdd
  <2>3. pc[t] = "onAdd" /\ pc'[t] = "onSet"
    BY <1>8 DEF LogOnAdd
  <2>4. /\ PlanOf(t)' = Adm!Plan({}, PlanOf(t).remove, {})
        /\ PlanOf(t).end = {} /\ PlanOf(t).begin = {<<mask, login>>}
    BY <2>1, <2>3 DEF PlanOf, Ends, Removes, Begins, Adm!Plan
  <2>5. Plans' = [Plans EXCEPT ![t] = Adm!Plan({}, PlanOf(t).remove, {})]
    BY <1>4, <2>4
  <2>6. Lasts[login] = None /\ Lasts' = [Lasts EXCEPT ![login] = mask]
    BY <1>3, <2>1, <2>3 DEF Lasts, LastOn
  <2> DEFINE b == <<mask, login>>
  <2>7. b[1] = mask /\ b[2] = login
    OBVIOUS
  <2>8. \E c \in PlanOf(t).begin :
          /\ Lasts[c[2]] = None
          /\ Lasts' = [Lasts EXCEPT ![c[2]] = c[1]]
          /\ n2u' = [n2u EXCEPT ![c[1]] = IF @ = None THEN c[2] ELSE @]
    BY <2>2, <2>4, <2>6, <2>7
  <2>9. Adm!Begin(t, PlanOf(t))
    BY <2>1, <2>4, <2>5, <2>8 DEF Adm!Begin, Plans, Lasts
  <2> QED
    BY <1>4, <2>9 DEF Adm!Next, Plans
<1>9. CASE LogOnSet(t)
  <2>1. mutex = t /\ mutex' = None /\ u2n' = [u2n EXCEPT ![login] = mask] /\ job' = job
    BY <1>1, <1>9, Owner DEF LogOnSet, Critical
  <2>2. pc[t] = "onSet" /\ pc'[t] = "stamp" /\ UNCHANGED <<users, n2u>>
    BY <1>9 DEF LogOnSet
  <2>3. PlanOf(t)' = PlanOf(t)
    BY <2>2, NoPlan, NoPlanThen
  <2>4. Lasts' = Lasts
    BY <1>3, <2>1, <2>2 DEF Lasts, LastOn
  <2> QED
    BY <1>2, <2>2, <2>3, <2>4, Stays
<1> QED
  BY <1>6, <1>7, <1>8, <1>9

\* log_out and the removal from the session databases: the first write ends the
\* session, or the lock finds that there is none; the other steps are none of Admission.
LEMMA LogOutIs ==
    ASSUME AdmInv, NEW t \in Threads,
           LogOut(t) \/ Remove(t) \/ LogOutDel(t) \/ LogOutSet(t)
    PROVE  Adm!Next \/ UNCHANGED Adm!vars
<1> USE SessionsAssumption DEF AdmInv, SessionInv, Typed, TypeOK, Goto
<1> DEFINE login == job[t].login
<1>1. login \in Logins
  BY DEF LogOut, Remove, LogOutDel, LogOutSet, JobsSet
<1>2. \A s \in Threads \ {t} : pc'[s] = pc[s] /\ job'[s] = job[s]
  BY DEF LogOut, Remove, LogOutDel, LogOutSet, AfterLogOut, Resume
<1>3. Plans' = [Plans EXCEPT ![t] = PlanOf(t)'] /\ Plans[t] = PlanOf(t)
  BY <1>2, PlansAre DEF Plans
\* What the lock finds.
<1>4. ASSUME mutex = None, UNCHANGED databases, u2n[login] = None,
             mutex' = None \/ (mutex' = t /\ pc'[t] = "rmUser"),
             login \in PlanOf(t).end,
             PlanOf(t)' = Adm!Plan({}, PlanOf(t).remove, PlanOf(t).begin)
      PROVE  Adm!Next
  <2>1. Lasts[login] = None
    BY <1>1, <1>4 DEF Lasts, LastOn
  <2>2. Lasts' = Lasts
    BY <1>4 DEF Lasts, LastOn, databases
  <2>3. Plans' = [Plans EXCEPT ![t] = Adm!Plan({}, PlanOf(t).remove, PlanOf(t).begin)]
    BY <1>3, <1>4
  <2>4. Adm!End(t, PlanOf(t))
    BY <1>4, <2>1, <2>2, <2>3 DEF Adm!End, Plans, Lasts, databases
  <2> QED
    BY <1>3, <2>4 DEF Adm!Next, Plans
<1>5. ASSUME mutex = None, UNCHANGED databases, u2n[login] # None, mutex' = t,
             pc'[t] = "outDel", job'[t].login = login, PlanOf(t)' = PlanOf(t)
      PROVE  UNCHANGED Adm!vars
  <2>1. Lasts' = Lasts
    BY <1>5 DEF Lasts, LastOn, databases
  <2> QED
    BY <1>2, <1>5, <2>1, Stays DEF databases
<1>6. CASE LogOut(t)
  <2>1. mutex = None /\ pc[t] = "out" /\ UNCHANGED databases /\ ~Removing(t)
    BY <1>6 DEF LogOut, Knows
  <2>2. CASE u2n[login] = None
    <3>1. mutex' = None
      BY <1>6, <2>1, <2>2 DEF LogOut
    <3>2. login \in PlanOf(t).end /\ PlanOf(t).remove = {}
      BY <2>1 DEF PlanOf, Ends, Removes
    <3>3. CASE job[t].op = "nick"
      <4>1. pc'[t] = "on" /\ job' = job
        BY <1>6, <2>2, <3>3 DEF LogOut, AfterLogOut
      <4>2. PlanOf(t)' = Adm!Plan({}, PlanOf(t).remove, PlanOf(t).begin)
        BY <2>1, <3>3, <4>1 DEF PlanOf, Ends, Removes, Begins, Adm!Plan
      <4> QED
        BY <1>4, <2>1, <2>2, <3>1, <3>2, <4>2
    <3>4. CASE job[t].op # "nick"
      <4>1. pc'[t] \in {"sweep", "idle"}
        BY <1>6, <2>2, <3>4 DEF LogOut, AfterLogOut, Resume
      <4>2. PlanOf(t).begin = {}
        BY <2>1, <3>4 DEF PlanOf, Begins
      <4>3. PlanOf(t)' = Adm!Plan({}, PlanOf(t).remove, PlanOf(t).begin)
        BY <3>2, <4>1, <4>2, NoPlanThen DEF Adm!Nothing
      <4> QED
        BY <1>4, <2>1, <2>2, <3>1, <3>2, <4>3
    <3> QED
      BY <3>3, <3>4
  <2>3. CASE u2n[login] # None
    <3>1. mutex' = t /\ pc'[t] = "outDel" /\ job' = [job EXCEPT ![t].old = u2n[login]]
      BY <1>6, <2>3 DEF LogOut
    <3>2. job'[t].login = login /\ job'[t].op = job[t].op /\ job'[t].mask = job[t].mask
      BY <3>1 DEF Jobs
    <3>3. PlanOf(t)' = PlanOf(t)
      BY <2>1, <3>1, <3>2 DEF PlanOf, Ends, Removes, Begins, Removing
    <3> QED
      BY <1>5, <2>1, <2>3, <3>1, <3>2, <3>3
  <2> QED
    BY <2>2, <2>3
<1>7. CASE Remove(t)
  <2>1. /\ mutex = None /\ mutex' = t /\ pc[t] = "rm" /\ UNCHANGED databases
        /\ pc'[t] = (IF u2n[login] = None THEN "rmUser" ELSE "outDel")
        /\ job' = [job EXCEPT ![t].old = u2n[login]]
    BY <1>7 DEF Remove
  <2>2. job'[t].login = login /\ job'[t].op = job[t].op /\ job'[t].mask = job[t].mask
    BY <2>1 DEF Jobs
  <2>3. Removing(t) /\ job[t].op # "nick"
    BY <2>1 DEF Knows, Removing
  <2>4. CASE u2n[login] = None
    <3>1. login \in PlanOf(t).end
      BY <2>1 DEF PlanOf, Ends
    <3>2. PlanOf(t)' = Adm!Plan({}, PlanOf(t).remove, PlanOf(t).begin)
      BY <2>1, <2>2, <2>3, <2>4 DEF PlanOf, Ends, Removes, Begins, Removing, Adm!Plan
    <3> QED
      BY <1>4, <2>1, <2>4, <3>1, <3>2
  <2>5. CASE u2n[login] # None
    <3>1. PlanOf(t)' = PlanOf(t)
      BY <2>1, <2>2, <2>3, <2>5 DEF PlanOf, Ends, Removes, Begins, Removing
    <3> QED
      BY <1>5, <2>1, <2>2, <2>5, <3>1
  <2> QED
    BY <2>4, <2>5
<1>8. CASE LogOutDel(t)
  <2>1. mutex = t /\ mutex' = t /\ u2n' = u2n /\ job' = job /\ UNCHANGED users
    BY <1>8, Owner DEF LogOutDel, Critical, Locked
  <2>2. u2n[login] # None /\ n2u' = [n2u EXCEPT ![u2n[login]] = None]
    BY <1>8 DEF LogOutDel, Knows, Progress
  <2>3. pc[t] = "outDel" /\ pc'[t] = "outSet"
    BY <1>8 DEF LogOutDel
  <2>4. /\ PlanOf(t)' = Adm!Plan({}, PlanOf(t).remove, PlanOf(t).begin)
        /\ login \in PlanOf(t).end
    BY <2>1, <2>3 DEF PlanOf, Ends, Removes, Begins, Removing, Adm!Plan
  <2>5. Plans' = [Plans EXCEPT ![t] = Adm!Plan({}, PlanOf(t).remove, PlanOf(t).begin)]
    BY <1>3, <2>4
  <2>6. Lasts[login] = u2n[login] /\ Lasts' = [Lasts EXCEPT ![login] = None]
    BY <1>1, <2>1, <2>3 DEF Lasts, LastOn
  <2>7. Adm!Loses(login)
    BY <2>2, <2>6 DEF Adm!Loses, Lasts
  <2>8. Adm!End(t, PlanOf(t))
    BY <2>1, <2>4, <2>5, <2>7 DEF Adm!End, Plans
  <2> QED
    BY <1>3, <2>8 DEF Adm!Next, Plans
<1>9. CASE LogOutSet(t)
  <2>1. mutex = t /\ u2n' = [u2n EXCEPT ![login] = None] /\ UNCHANGED <<users, n2u>>
    BY <1>9, Owner DEF LogOutSet, Critical, Locked
  <2>2. pc[t] = "outSet"
    BY <1>9 DEF LogOutSet
  <2>3. CASE Removing(t)
    <3>1. mutex' = mutex /\ pc'[t] = "rmUser" /\ job' = job
      BY <1>9, <2>3 DEF LogOutSet, Removing
    <3>2. PlanOf(t)' = PlanOf(t)
      BY <2>2, <2>3, <3>1 DEF PlanOf, Ends, Removes, Begins, Removing
    <3>3. Lasts' = Lasts
      BY <1>1, <2>1, <2>2, <3>1 DEF Lasts, LastOn
    <3> QED
      BY <1>2, <2>1, <3>2, <3>3, Stays
  <2>4. CASE ~Removing(t)
    <3>1. mutex' = None /\ AfterLogOut(t, "outSet")
      BY <1>9, <2>4 DEF LogOutSet, Removing
    <3>2. Lasts' = Lasts
      BY <1>1, <2>1, <2>2, <3>1 DEF Lasts, LastOn
    <3>3. CASE job[t].op = "nick"
      <4>1. pc'[t] = "on" /\ job' = job
        BY <3>1, <3>3 DEF AfterLogOut
      <4>2. PlanOf(t)' = PlanOf(t)
        BY <2>2, <2>4, <3>3, <4>1 DEF PlanOf, Ends, Removes, Begins
      <4> QED
        BY <1>2, <2>1, <3>2, <4>2, Stays
    <3>4. CASE job[t].op # "nick"
      <4>1. pc'[t] \in {"sweep", "idle"}
        BY <3>1, <3>4 DEF AfterLogOut, Resume
      <4>2. PlanOf(t) = Adm!Nothing
        BY <2>2, <2>4, <3>4 DEF PlanOf, Ends, Removes, Begins, Adm!Nothing, Adm!Plan
      <4>3. PlanOf(t)' = PlanOf(t)
        BY <4>1, <4>2, NoPlanThen
      <4> QED
        BY <1>2, <2>1, <3>2, <4>3, Stays
    <3> QED
      BY <3>3, <3>4
  <2> QED
    BY <2>3, <2>4
<1> QED
  BY <1>6, <1>7, <1>8, <1>9

\* rmAccount removes the account when it has no session; the time stamp is no matter
\* of Admission.
LEMMA RemoveIs ==
    ASSUME AdmInv, NEW t \in Threads, RemoveUser(t) \/ RemoveTime(t)
    PROVE  Adm!Next \/ UNCHANGED Adm!vars
<1> USE SessionsAssumption DEF AdmInv, SessionInv, Typed, TypeOK, Goto
<1> DEFINE login == job[t].login
<1>1. /\ \A s \in Threads \ {t} : pc'[s] = pc[s] /\ job'[s] = job[s]
      /\ login \in Logins
      /\ mutex = t
  BY Owner DEF Locked, RemoveUser, RemoveTime, Resume, Critical
<1>2. Plans' = [Plans EXCEPT ![t] = PlanOf(t)'] /\ Plans[t] = PlanOf(t)
  BY <1>1, PlansAre DEF Plans
<1>3. CASE RemoveUser(t)
  <2>1. /\ pc[t] = "rmUser" /\ pc'[t] = "rmTime" /\ UNCHANGED <<n2u, u2n, mutex, job>>
        /\ users' = users \ {login}
    BY <1>3 DEF RemoveUser
  <2>2. u2n[login] = None /\ Removing(t)
    BY <2>1 DEF Knows
  <2>3. Lasts[login] = None /\ Lasts' = Lasts
    BY <1>1, <2>1, <2>2 DEF Lasts, LastOn
  <2>4. /\ PlanOf(t).end = {} /\ login \in PlanOf(t).remove
        /\ PlanOf(t)' = Adm!Plan({}, {}, PlanOf(t).begin)
    BY <2>1, <2>2 DEF PlanOf, Ends, Removes, Begins, Adm!Plan
  <2>5. Plans' = [Plans EXCEPT ![t] = Adm!Plan({}, {}, PlanOf(t).begin)]
    BY <1>2, <2>4
  <2>6. Adm!Remove(t, PlanOf(t))
    BY <2>1, <2>3, <2>4, <2>5 DEF Adm!Remove, Plans, Lasts
  <2> QED
    BY <1>2, <2>6 DEF Adm!Next, Plans
<1>4. CASE RemoveTime(t)
  <2>1. /\ pc[t] = "rmTime" /\ pc'[t] \in {"sweep", "idle"} /\ mutex' = None
        /\ UNCHANGED <<users, n2u, u2n>>
    BY <1>4 DEF RemoveTime, Resume
  <2>2. PlanOf(t)' = PlanOf(t)
    BY <2>1, NoPlan, NoPlanThen
  <2>3. Lasts' = Lasts
    BY <1>1, <2>1 DEF Lasts, LastOn
  <2> QED
    BY <1>1, <2>1, <2>2, <2>3, Stays
<1> QED
  BY <1>3, <1>4

\* Every step of Sessions is one of Admission, or none.
LEMMA AdmissionStep ==
    AdmInv /\ [Next]_vars => Adm!Next \/ UNCHANGED Adm!vars
<1> SUFFICES ASSUME AdmInv, [Next]_vars PROVE Adm!Next \/ UNCHANGED Adm!vars
  OBVIOUS
<1>1. ASSUME NEW l \in Logins, Expire(l) PROVE UNCHANGED Adm!vars
  BY <1>1 DEF Expire, Adm!vars, PlanOf, Ends, Removes, Begins, Removing, LastOn
<1>2. CASE UNCHANGED vars
  BY <1>2 DEF vars, Adm!vars, PlanOf, Ends, Removes, Begins, Removing, LastOn
<1> QED
  BY <1>1, <1>2, CommandIs, SweepIs, StampIs, LogOnIs, LogOutIs, RemoveIs DEF Next, Account

\* The bot starts without sessions and commands, with any accounts.
LEMMA AdmissionInit == Init => Adm!Init
<1> SUFFICES ASSUME Init PROVE Adm!Init
  OBVIOUS
<1>1. \A t \in Threads : PlanOf(t) = Adm!Nothing
  BY NoPlan DEF Init
<1>2. \A l \in Logins : LastOn(l) = None
  BY DEF Init, LastOn
<1> QED
  BY <1>1, <1>2 DEF Init, Adm!Init

\* The mutex, the critical sections, the sweeps and the checks that commands make
\* before they lock implement Admission: a netmask has no rights but those that a
\* command has admitted it to, and keeps them until a command ends them.
THEOREM ImplementsAdmission == Spec => Admitted
<1>1. Init => AdmInv
  BY SessionInit, KnowsInit DEF AdmInv
<1>2. AdmInv /\ [Next]_vars => AdmInv'
  BY KnowsStep, SessionStep DEF AdmInv
<1>3. AdmInv /\ [Next]_vars => [Adm!Next]_(Adm!vars)
  BY AdmissionStep
<1> QED
  BY <1>1, <1>2, <1>3, AdmissionInit, PTL DEF Spec, Admitted, Adm!Spec

\* What Admission sees of the two session databases agrees at every moment, inside the
\* critical sections, too.
THEOREM AgreeAlways == Spec => []Adm!Agree
<1>1. SessionInv => Adm!Agree
  <2> SUFFICES ASSUME SessionInv, NEW m \in Masks, n2u[m] # None
               PROVE  LastOn(n2u[m]) = m
    BY DEF Adm!Agree, SessionInv, Typed, TypeOK
  <2> USE SessionsAssumption DEF SessionInv, Typed, TypeOK, Critical
  <2>1. ASSUME NEW t \in Threads, SettingMask(t, m) PROVE LastOn(n2u[m]) = m
    BY <2>1 DEF SettingMask, Exclusive, LastOn, Threads
  <2>2. CASE u2n[n2u[m]] = m
    BY <2>2 DEF LastOn, Progress
  <2> QED
    BY <2>1, <2>2 DEF Inverse
<1> QED
  BY <1>1, SessionInvariant, PTL
=============================================================================
