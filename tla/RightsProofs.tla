----------------------------- MODULE RightsProofs -----------------------------
(***************************************************************************)
(* Proofs about Rights for every set of execution threads, accounts,       *)
(* netmasks and channels, and any number of commands.                      *)
(***************************************************************************)
EXTENDS Rights, FiniteSetTheorems, TLAPS

\* Every disjunct of Next, as a list of cases: used by the step lemmas below.
StepCases ==
    \/ \E w \in Workers, m \in Masks : Command(w, m)
    \/ \E w \in Workers : Level(w)
    \/ \E w \in Workers : Session(w)
    \/ \E w \in Workers : Hello(w)
    \/ \E w \in Workers : AccountMode(w)
    \/ \E w \in Workers : ChangeChannel(w)
    \/ \E w \in Workers : RmAccountExist(w)
    \/ \E w \in Workers : KickOrBan(w)
    \/ \E w \in Workers : Crash(w)
    \/ \E l \in Logins : Sweep(l)
    \/ \E t \in Threads : RmAccount(t)
    \/ UNCHANGED vars

\* A step of the bot is one of the cases.
LEMMA NextCases == [Next]_vars => StepCases
BY DEF Next, StepCases

-----------------------------------------------------------------------------
(* Types *)

\* Where the netmask of the command, the account it names, the login of the
\* caller, and the fact that the caller is a master are used.
MaskLabels == {"channelLevel", "masterLevel", "access", "list", "check", "on", "out",
               "modeCheck", "ask", "victimRight", "victimMaster", "callerMaster"}
HelloLabels == {"list", "add", "first", "firstAdd", "firstReplace", "firstStore"}
ModeLabels == {"modeCheck", "oldMode", "oldMaster", "delMaster", "set", "replace", "store"}
RightsLabels == {"rights", "rightsList", "rightsNext"}
VictimLabels == {"victimRight", "victimMaster", "callerMaster"}

\* The command of a thread that is at label b.
OpFits(b, j) ==
    /\ b \in HelloLabels => j.op = "hello"
    /\ b = "check" => j.op = "ident"
    /\ b = "on" => j.op \in {"hello", "ident"}
    /\ b \in ModeLabels => j.op = "accountmode"
    /\ b \in {"exist", "remove", "user"} => j.op = "rmaccount"
    /\ b \in RightsLabels => j.op \in {"rmaccount", "accountmode"}
    /\ b = "channel" => j.op \in {"addchannel", "rmchannel"}
    /\ b \in VictimLabels \cup {"ask", "caller", "kick"} => j.op \in {"kick", "ban"}

\* Its arguments.
ArgumentsFit(b, j) ==
    /\ b # "idle" /\ j.op \in {"accountmode", "addchannel", "rmchannel", "kick", "ban"}
         => j.chan \in Channels
    /\ b # "idle" /\ j.op \in {"accountmode", "ident", "rmaccount"} => j.target \in Logins
    /\ b \in {"add", "on", "first", "firstAdd", "firstReplace", "firstStore"}
         => j.target \in Logins
    /\ b \in VictimLabels => j.target \in Logins
    /\ b \in MaskLabels \cup {"add"} => j.mask \in Masks
    /\ b = "channelLevel" => j.chan \in Channels
    /\ b \in {"channelLevel", "masterLevel", "caller"} => j.login \in Logins
    /\ j.op = "accountmode" /\ b \in (ModeLabels \ {"modeCheck"}) \cup RightsLabels
         => j.login \in Logins

\* What has been found out about the caller.
LevelFits(b, j) ==
    /\ j.level = MasterLevel => j.byMaster
    /\ b \in {"channelLevel", "masterLevel"} => j.level # MasterLevel
    /\ b \in {"firstAdd", "firstReplace", "firstStore"} => j.first
    /\ b = "delMaster" => j.byMaster
    /\ b \in {"set", "replace", "store"} /\ j.letter = "m" => j.unset \/ j.byMaster
    /\ b \in RightsLabels /\ j.op = "accountmode" => /\ j.letter = "m"
                                                     /\ j.unset \/ j.byMaster

Fits(b, j) == OpFits(b, j) /\ ArgumentsFit(b, j) /\ LevelFits(b, j)

Typed == TypeOK /\ \A t \in Threads : Fits(pc[t], job[t])

\* A thread that is at rest fits.
LEMMA IdleFits == Idle \in Jobs /\ Fits("idle", Idle)
BY RightsAssumption DEF Idle, Jobs, Ops, MasterValues, ChannelValues, Fits, OpFits, ArgumentsFit,
    LevelFits, MaskLabels, HelloLabels, ModeLabels, RightsLabels, VictimLabels, MasterLevel

\* The conditions hold when the bot is at rest.
LEMMA TypedInit == Init => Typed
<1> SUFFICES ASSUME Init PROVE Typed
  OBVIOUS
<1> USE RightsAssumption DEF Init
<1>1. pc \in [Threads -> Labels]
  BY DEF Labels
<1>2. job \in [Threads -> Jobs] /\ \A t \in Threads : Fits(pc[t], job[t])
  BY IdleFits
<1>3. right \in [Logins -> [Channels -> ChannelValues \cup {None}]]
  BY DEF ChannelValues
<1>4. n2u \in [Masks -> Logins \cup {None}]
  OBVIOUS
<1>5. asked \in Seq(Questions)
  OBVIOUS
<1>6. users \subseteq Logins /\ channels \subseteq Channels
  OBVIOUS
<1>7. master \in [Logins -> MasterValues \cup {None}]
  OBVIOUS
<1>8. budget \in 0..MaxCommands
  OBVIOUS
<1>9. founders \subseteq Logins /\ excused \subseteq Logins
  OBVIOUS
<1>10. rivals \in BOOLEAN /\ mutex \in Threads \cup {None} /\ u2n \in [Logins -> Masks \cup {None}]
  OBVIOUS
<1> QED
  BY <1>1, <1>2, <1>3, <1>4, <1>5, <1>6, <1>7, <1>8, <1>9, <1>10 DEF Typed, TypeOK

\* What a step of thread t has to show about the threads.
LEMMA OneThread ==
    ASSUME Typed, NEW t \in Threads, NEW b \in Labels, NEW j \in Jobs, Fits(b, j),
           pc' = [pc EXCEPT ![t] = b], job' = [job EXCEPT ![t] = j]
    PROVE  /\ pc' \in [Threads -> Labels]
           /\ job' \in [Threads -> Jobs]
           /\ \A u \in Threads : Fits(pc'[u], job'[u])
BY DEF Typed, TypeOK

\* A step that leaves the locals alone.
LEMMA OneLabel ==
    ASSUME Typed, NEW t \in Threads, NEW b \in Labels, Fits(b, job[t]),
           pc' = [pc EXCEPT ![t] = b], job' = job
    PROVE  /\ pc' \in [Threads -> Labels]
           /\ job' \in [Threads -> Jobs]
           /\ \A u \in Threads : Fits(pc'[u], job'[u])
BY DEF Typed, TypeOK

\* A handler that returns.
LEMMA ReturnFits ==
    ASSUME Typed, NEW t \in Threads, Return(t)
    PROVE  /\ pc' \in [Threads -> Labels]
           /\ job' \in [Threads -> Jobs]
           /\ \A u \in Threads : Fits(pc'[u], job'[u])
<1>1. "idle" \in Labels
  BY DEF Labels
<1> QED
  BY <1>1, IdleFits, OneThread DEF Return, Goto

\* What a step has to show about the databases and the rest.
RestTyped ==
    /\ users \subseteq Logins /\ channels \subseteq Channels
    /\ master \in [Logins -> MasterValues \cup {None}]
    /\ right \in [Logins -> [Channels -> ChannelValues \cup {None}]]
    /\ n2u \in [Masks -> Logins \cup {None}]
    /\ u2n \in [Logins -> Masks \cup {None}]
    /\ mutex \in Threads \cup {None}
    /\ asked \in Seq(Questions)
    /\ budget \in 0..MaxCommands
    /\ founders \subseteq Logins /\ rivals \in BOOLEAN /\ excused \subseteq Logins

\* What it has to show about the threads and their locals.
ThreadsTyped == /\ pc \in [Threads -> Labels]
                /\ job \in [Threads -> Jobs]
                /\ \A t \in Threads : Fits(pc[t], job[t])

\* The two together are the conditions, before and after a step.
LEMMA TypedParts == /\ Typed <=> RestTyped /\ ThreadsTyped
                    /\ Typed' <=> RestTyped' /\ ThreadsTyped'
BY DEF Typed, TypeOK, RestTyped, ThreadsTyped

\* A line from the queue.
LEMMA DispatchTyped ==
    ASSUME Typed, NEW w \in Workers, NEW m \in Masks, Command(w, m)
    PROVE  Typed'
<1> USE RightsAssumption DEF Threads
<1>1. PICK op \in Ops, l \in Logins \cup {None}, c \in Channels \cup {None},
           s \in {"+", "-"}, x \in {"v", "o", "m", "?"} :
        /\ Dispatch(w, m, op, l, c, s, x)
        /\ op \in {"accountmode", "addchannel", "rmchannel", "kick", "ban"} => c \in Channels
        /\ op \in {"accountmode", "ident", "rmaccount"} => l \in Logins
  BY DEF Command, Ops
<1> DEFINE b == IF n2u[m] = None THEN "access"
                ELSE IF c = None THEN "masterLevel" ELSE "channelLevel"
           j == [Idle EXCEPT !.op = op, !.mask = m, !.target = l, !.chan = c, !.sign = s,
                             !.letter = x, !.login = n2u[m],
                             !.level = IF n2u[m] = None THEN NoneLevel ELSE LoggedLevel]
<1>2. n2u[m] \in Logins \cup {None}
  BY DEF Typed, TypeOK
<1>3. b \in Labels
  BY DEF Labels
<1>4. j \in Jobs
  <2>1. (IF n2u[m] = None THEN NoneLevel ELSE LoggedLevel) \in 0..4
    BY DEF NoneLevel, LoggedLevel
  <2>2. m \in Masks \cup {None}
    OBVIOUS
  <2>3. ASSUME NEW i \in Jobs, NEW v \in 0..4, NEW k \in Logins \cup {None}
        PROVE  [i EXCEPT !.op = op, !.mask = m, !.target = l, !.chan = c, !.sign = s,
                         !.letter = x, !.login = k, !.level = v] \in Jobs
    BY <2>2 DEF Jobs
  <2> QED
    BY <1>2, <2>1, <2>3, IdleFits
<1>5. /\ j.op = op /\ j.mask = m /\ j.target = l /\ j.chan = c /\ j.login = n2u[m]
      /\ j.level \in {0, 1}
  BY DEF Idle, NoneLevel, LoggedLevel
<1>6. pc' = [pc EXCEPT ![w] = b] /\ job' = [job EXCEPT ![w] = j]
  BY <1>1 DEF Dispatch, Goto
<1> HIDE DEF j
<1>7. Fits(b, j)
  BY <1>1, <1>2, <1>5 DEF Fits, OpFits, ArgumentsFit, LevelFits, MaskLabels, HelloLabels,
     ModeLabels, RightsLabels, VictimLabels, MasterLevel
<1>8. ThreadsTyped'
  BY <1>3, <1>4, <1>6, <1>7, OneThread DEF ThreadsTyped
<1>9. RestTyped'
  BY <1>1, TypedParts DEF Dispatch, RestTyped, access, sessions, history
<1> QED
  BY <1>8, <1>9, TypedParts

\* getUserLevel and AccessRight.
LEMMA LevelTyped ==
    ASSUME Typed, NEW w \in Workers, Level(w)
    PROVE  Typed'
<1> USE RightsAssumption DEF Threads
<1>1. job[w] \in Jobs /\ Fits(pc[w], job[w]) /\ pc[w] \in Labels
  BY DEF Typed, TypeOK
<1>2. RestTyped'
  BY TypedParts DEF Level, ReadChannelLevel, ReadMasterLevel, Access, RestTyped, access, sessions,
     history
<1>3. CASE ReadChannelLevel(w)
  <2> DEFINE value == right[job[w].login][job[w].chan]
             j == [job[w] EXCEPT !.level = ChannelLevel(value)]
  <2>1. pc[w] = "channelLevel" /\ {"masterLevel", "access"} \subseteq Labels
    BY <1>3 DEF ReadChannelLevel, Labels
  <2>2. CASE value = None
    <3>1. Fits("masterLevel", job[w])
      BY <1>1, <2>1 DEF Fits, OpFits, ArgumentsFit, LevelFits, MaskLabels, HelloLabels,
         ModeLabels, RightsLabels, VictimLabels
    <3> QED
      BY <1>3, <2>1, <2>2, <3>1, <1>2, OneLabel, TypedParts DEF ReadChannelLevel, Goto, ThreadsTyped
  <2>3. CASE value # None
    <3>1. ChannelLevel(value) \in 0..3
      BY DEF ChannelLevel, OwnerLevel, FriendLevel, LoggedLevel
    <3>2. j \in Jobs /\ Fits("access", j)
      BY <1>1, <2>1, <3>1 DEF Fits, OpFits, ArgumentsFit, LevelFits, MaskLabels, HelloLabels,
         ModeLabels, RightsLabels, VictimLabels, MasterLevel, Jobs
    <3>3. pc' = [pc EXCEPT ![w] = "access"] /\ job' = [job EXCEPT ![w] = j]
      BY <1>3, <2>3 DEF ReadChannelLevel, Goto
    <3> HIDE DEF j
    <3> QED
      BY <2>1, <3>2, <3>3, <1>2, OneThread, TypedParts DEF ThreadsTyped
  <2> QED
    BY <2>2, <2>3
<1>4. CASE ReadMasterLevel(w)
  <2> DEFINE found == master[job[w].login] # None
             j == [job[w] EXCEPT !.level = IF found THEN MasterLevel ELSE @, !.byMaster = found]
  <2>1. pc[w] = "masterLevel" /\ "access" \in Labels
    BY <1>4 DEF ReadMasterLevel, Labels
  <2>2. job[w].level # MasterLevel
    BY <1>1, <2>1 DEF Fits, LevelFits
  <2>3. j \in Jobs /\ Fits("access", j)
    <3>1. found \in BOOLEAN /\ (IF found THEN MasterLevel ELSE job[w].level) \in 0..4
      BY <1>1 DEF MasterLevel, Jobs
    <3>2. /\ j.op = job[w].op /\ j.mask = job[w].mask /\ j.target = job[w].target
          /\ j.chan = job[w].chan /\ j.login = job[w].login /\ j.byMaster = found
          /\ j.level = IF found THEN MasterLevel ELSE job[w].level
      BY <1>1 DEF Jobs
    <3>3. j \in Jobs
      <4> HIDE DEF found
      <4> QED
        BY <1>1, <3>1 DEF Jobs
    <3> HIDE DEF j, found
    <3>4. OpFits("access", j) /\ ArgumentsFit("access", j)
      BY <1>1, <2>1, <3>2 DEF Fits, OpFits, ArgumentsFit, MaskLabels, HelloLabels,
         ModeLabels, RightsLabels, VictimLabels
    <3>5. LevelFits("access", j)
      BY <2>2, <3>1, <3>2 DEF LevelFits, RightsLabels
    <3> QED
      BY <3>3, <3>4, <3>5 DEF Fits
  <2>4. pc' = [pc EXCEPT ![w] = "access"] /\ job' = [job EXCEPT ![w] = j]
    BY <1>4 DEF ReadMasterLevel, Goto
  <2> HIDE DEF j
  <2> QED
    BY <2>1, <2>3, <2>4, <1>2, OneThread, TypedParts DEF ThreadsTyped
<1>5. CASE Access(w)
  <2>1. pc[w] = "access"
    BY <1>5 DEF Access
  <2>2. CASE Return(w)
    BY <2>2, <1>2, ReturnFits, TypedParts DEF ThreadsTyped
  <2>3. CASE Goto(w, Entry(job[w].op)) /\ UNCHANGED job
    <3>1. job[w].op \in Ops
      BY <1>1 DEF Jobs
    <3>2. Entry(job[w].op) \in Labels /\ Fits(Entry(job[w].op), job[w])
      BY <1>1, <2>1, <3>1 DEF Entry, Ops, Labels, Fits, OpFits, ArgumentsFit, LevelFits,
         MaskLabels, HelloLabels, ModeLabels, RightsLabels, VictimLabels
    <3> QED
      BY <2>3, <3>2, <1>2, OneLabel, TypedParts DEF Goto, ThreadsTyped
  <2> QED
    BY <1>5, <2>2, <2>3 DEF Access
<1> QED
  BY <1>3, <1>4, <1>5 DEF Level

\* What a step of thread t has to show, in one: it returns, it goes to another
\* label, or it goes there and changes its locals.
LEMMA StepTyped ==
    ASSUME Typed, NEW t \in Threads, RestTyped',
           \/ Return(t)
           \/ \E b \in Labels : Fits(b, job[t]) /\ Goto(t, b) /\ UNCHANGED job
           \/ \E b \in Labels, j \in Jobs :
                 Fits(b, j) /\ Goto(t, b) /\ job' = [job EXCEPT ![t] = j]
    PROVE  Typed'
BY ReturnFits, OneLabel, OneThread, TypedParts DEF Goto, ThreadsTyped

\* log_on leaves databases of netmasks and logins.
LEMMA LogOnTypes ==
    ASSUME n2u \in [Masks -> Logins \cup {None}], u2n \in [Logins -> Masks \cup {None}],
           NEW l \in Logins, NEW m \in Masks, LogOn(l, m)
    PROVE  n2u' \in [Masks -> Logins \cup {None}] /\ u2n' \in [Logins -> Masks \cup {None}]
BY DEF LogOn

\* So does __log_out.
LEMMA LogOutTypes ==
    ASSUME n2u \in [Masks -> Logins \cup {None}], u2n \in [Logins -> Masks \cup {None}],
           NEW l \in Logins, LogOut(l)
    PROVE  n2u' \in [Masks -> Logins \cup {None}] /\ u2n' \in [Logins -> Masks \cup {None}]
BY DEF LogOut, sessions

\* !ident and !logoff, and the log_on of !hello.
LEMMA SessionTyped ==
    ASSUME Typed, NEW w \in Workers, Session(w)
    PROVE  Typed'
<1> USE RightsAssumption DEF Threads
<1>1. job[w] \in Jobs /\ Fits(pc[w], job[w])
  BY DEF Typed, TypeOK
<1>2. RestTyped
  BY TypedParts
<1>3. CASE IdentCheck(w)
  <2>1. pc[w] = "check" /\ "on" \in Labels
    BY <1>3 DEF IdentCheck, Labels
  <2>2. Fits("on", job[w])
    BY <1>1, <2>1 DEF Fits, OpFits, ArgumentsFit, LevelFits, MaskLabels, HelloLabels,
       ModeLabels, RightsLabels, VictimLabels
  <2>3. RestTyped'
    BY <1>2, <1>3 DEF IdentCheck, RestTyped, access, sessions, history
  <2> QED
    BY <1>3, <2>1, <2>2, <2>3, StepTyped DEF IdentCheck
<1>4. CASE Logon(w)
  <2>1. pc[w] = "on" /\ "first" \in Labels
    BY <1>4 DEF Logon, Labels
  <2>2. job[w].target \in Logins /\ job[w].mask \in Masks
    BY <1>1, <2>1 DEF Fits, ArgumentsFit, MaskLabels
  <2>3. RestTyped'
    BY <1>2, <1>4, <2>2, LogOnTypes DEF Logon, RestTyped, access, history
  <2>4. job[w].op = "hello" => Fits("first", job[w])
    BY <1>1, <2>1 DEF Fits, OpFits, ArgumentsFit, LevelFits, MaskLabels, HelloLabels,
       ModeLabels, RightsLabels, VictimLabels
  <2> QED
    BY <1>4, <2>1, <2>3, <2>4, StepTyped DEF Logon
<1>5. CASE Logoff(w)
  <2>1. job[w].mask \in Masks
    BY <1>1, <1>5 DEF Logoff, Fits, ArgumentsFit, MaskLabels
  <2>2. RestTyped'
    BY <1>2, <1>5, <2>1, LogOutTypes DEF Logoff, RestTyped, access, sessions, history
  <2> QED
    BY <1>5, <2>2, StepTyped DEF Logoff
<1> QED
  BY <1>3, <1>4, <1>5 DEF Session

\* !hello.
LEMMA HelloTyped ==
    ASSUME Typed, NEW w \in Workers, Hello(w)
    PROVE  Typed'
<1> USE RightsAssumption DEF Threads
<1>1. job[w] \in Jobs /\ Fits(pc[w], job[w])
  BY DEF Typed, TypeOK
<1>2. RestTyped
  BY TypedParts
<1>3. {"add", "on", "first", "firstAdd", "firstReplace", "firstStore"} \subseteq Labels
  BY DEF Labels
<1>4. CASE HelloList(w)
  <2> DEFINE j == [job[w] EXCEPT !.target = NickOf[job[w].mask], !.first = (users = {})]
  <2>1. pc[w] = "list"
    BY <1>4 DEF HelloList
  <2>2. NickOf[job[w].mask] \in Logins
    BY <1>1, <2>1 DEF Fits, ArgumentsFit, MaskLabels
  <2>3. rivals' \in BOOLEAN
    BY <1>2, <1>4 DEF HelloList, RestTyped
  <2>4. RestTyped'
    BY <1>2, <1>4, <2>3 DEF HelloList, RestTyped, access, sessions
  <2>5. CASE Return(w)
    BY <2>4, <2>5, StepTyped
  <2>6. CASE Goto(w, "add") /\ job' = [job EXCEPT ![w].target = NickOf[job[w].mask],
                                                 ![w].first = (users = {})]
    <3>1. job' = [job EXCEPT ![w] = j]
      BY <2>6
    <3>2. j \in Jobs
      <4>1. ASSUME NEW f \in BOOLEAN
            PROVE  [job[w] EXCEPT !.target = NickOf[job[w].mask], !.first = f] \in Jobs
        BY <1>1, <2>2 DEF Jobs
      <4> QED
        BY <4>1
    <3>3. /\ j.op = job[w].op /\ j.mask = job[w].mask /\ j.target = NickOf[job[w].mask]
          /\ j.level = job[w].level /\ j.byMaster = job[w].byMaster
      BY <1>1 DEF Jobs
    <3> HIDE DEF j
    <3>4. Fits("add", j)
      BY <1>1, <2>1, <2>2, <3>3 DEF Fits, OpFits, ArgumentsFit, LevelFits, MaskLabels,
         HelloLabels, ModeLabels, RightsLabels, VictimLabels
    <3> QED
      BY <1>3, <2>4, <2>6, <3>1, <3>2, <3>4, StepTyped
  <2> QED
    BY <1>4, <2>5, <2>6 DEF HelloList
<1>5. CASE HelloAdd(w)
  <2>1. pc[w] = "add"
    BY <1>5 DEF HelloAdd
  <2>2. Fits("on", job[w]) /\ Fits("first", job[w])
    BY <1>1, <2>1 DEF Fits, OpFits, ArgumentsFit, LevelFits, MaskLabels, HelloLabels,
       ModeLabels, RightsLabels, VictimLabels
  <2>3. RestTyped'
    BY <1>1, <1>2, <1>5, <2>1 DEF HelloAdd, RestTyped, access, sessions, history, Fits, ArgumentsFit
  <2> QED
    BY <1>3, <1>5, <2>2, <2>3, StepTyped DEF HelloAdd
<1>6. CASE HelloFirst(w)
  <2>1. RestTyped'
    BY <1>2, <1>6 DEF HelloFirst, RestTyped, access, sessions, history
  <2>2. CASE job[w].first
    <3>1. Fits("firstAdd", job[w]) /\ Fits("firstReplace", job[w])
      BY <1>1, <1>6, <2>2 DEF HelloFirst, Fits, OpFits, ArgumentsFit, LevelFits, MaskLabels,
         HelloLabels, ModeLabels, RightsLabels, VictimLabels
    <3> QED
      BY <1>3, <1>6, <2>1, <2>2, <3>1, StepTyped DEF HelloFirst
  <2>3. CASE ~job[w].first
    BY <1>6, <2>1, <2>3, StepTyped DEF HelloFirst
  <2> QED
    BY <2>2, <2>3
<1>7. CASE pc[w] \in {"firstAdd", "firstStore"} /\ FirstMaster(w)
  <2>1. job[w].target \in Logins
    BY <1>1, <1>7 DEF Fits, ArgumentsFit
  <2>2. RestTyped'
    BY <1>2, <1>7, <2>1 DEF FirstMaster, Excuse, RestTyped, sessions, MasterValues
  <2> QED
    BY <1>7, <2>2, StepTyped DEF FirstMaster
<1>8. CASE HelloFirstAdd(w)
  <2>1. CASE Return(w) /\ RestTyped'
    BY <2>1, StepTyped
  <2> QED
    BY <1>2, <1>7, <1>8, <2>1 DEF HelloFirstAdd, RestTyped, access, sessions, history
<1>9. CASE HelloFirstReplace(w)
  <2>1. RestTyped'
    BY <1>2, <1>9 DEF HelloFirstReplace, RestTyped, access, sessions, history
  <2>2. Fits("firstStore", job[w])
    BY <1>1, <1>9 DEF HelloFirstReplace, Fits, OpFits, ArgumentsFit, LevelFits, MaskLabels,
       HelloLabels, ModeLabels, RightsLabels, VictimLabels
  <2> QED
    BY <1>3, <1>9, <2>1, <2>2, StepTyped DEF HelloFirstReplace
<1>10. CASE HelloFirstStore(w)
  BY <1>7, <1>10 DEF HelloFirstStore
<1> QED
  BY <1>4, <1>5, <1>6, <1>8, <1>9, <1>10 DEF Hello

\* !addchannel, !rmchannel, the start of !rmaccount, and a sweep.
LEMMA StartsTyped ==
    ASSUME Typed,
           \/ \E w \in Workers : ChangeChannel(w) \/ RmAccountExist(w)
           \/ \E l \in Logins : Sweep(l)
    PROVE  Typed'
<1> USE RightsAssumption DEF Threads
<1>1. \A t \in Threads : job[t] \in Jobs /\ Fits(pc[t], job[t])
  BY DEF Typed, TypeOK
<1>2. RestTyped
  BY TypedParts
<1>3. ASSUME NEW w \in Workers, ChangeChannel(w)
      PROVE  Typed'
  <2>1. job[w].chan \in Channels
    BY <1>1, <1>3 DEF ChangeChannel, Fits, OpFits, ArgumentsFit
  <2>2. RestTyped'
    BY <1>2, <1>3, <2>1 DEF ChangeChannel, RestTyped, access, sessions
  <2> QED
    BY <1>3, <2>2, StepTyped DEF ChangeChannel
<1>4. ASSUME NEW w \in Workers, RmAccountExist(w)
      PROVE  Typed'
  <2>1. pc[w] = "exist" /\ "remove" \in Labels
    BY <1>4 DEF RmAccountExist, Labels
  <2>2. Fits("remove", job[w])
    BY <1>1, <2>1 DEF Fits, OpFits, ArgumentsFit, LevelFits, MaskLabels, HelloLabels,
       ModeLabels, RightsLabels, VictimLabels
  <2>3. RestTyped'
    BY <1>2, <1>4 DEF RmAccountExist, RestTyped, access, sessions, history
  <2> QED
    BY <1>4, <2>1, <2>2, <2>3, StepTyped DEF RmAccountExist
<1>5. ASSUME NEW l \in Logins, Sweep(l)
      PROVE  Typed'
  <2> DEFINE j == [Idle EXCEPT !.op = "rmaccount", !.target = l]
  <2>1. RestTyped'
    <3>1. budget > 0 /\ budget' = budget - 1
      BY <1>5 DEF Sweep
    <3>2. budget' \in 0..MaxCommands
      BY <1>2, <3>1 DEF RestTyped
    <3>3. UNCHANGED <<users, channels, access, sessions, mutex, asked, history>>
      BY <1>5 DEF Sweep
    <3> QED
      BY <1>2, <3>2, <3>3 DEF RestTyped, access, sessions, history
  <2>2. "remove" \in Labels
    BY DEF Labels
  <2>3. j \in Jobs
    <3>1. ASSUME NEW i \in Jobs
          PROVE  [i EXCEPT !.op = "rmaccount", !.target = l] \in Jobs
      BY DEF Jobs, Ops
    <3> QED
      BY <3>1, IdleFits
  <2>4. j.op = "rmaccount" /\ j.target = l /\ j.level = 0
    BY DEF Idle
  <2>5. job' = [job EXCEPT ![Timer] = j] /\ Goto(Timer, "remove")
    BY <1>5 DEF Sweep
  <2> HIDE DEF j
  <2>6. Fits("remove", j)
    BY <2>4 DEF Fits, OpFits, ArgumentsFit, LevelFits, MaskLabels, HelloLabels,
       ModeLabels, RightsLabels, VictimLabels, MasterLevel
  <2> QED
    BY <2>1, <2>2, <2>3, <2>5, <2>6, StepTyped
<1> QED
  BY <1>3, <1>4, <1>5

\* rmAccount and rmAccessRights.
LEMMA RmAccountTyped ==
    ASSUME Typed, NEW t \in Threads, RmAccount(t)
    PROVE  Typed'
<1> USE RightsAssumption
<1>1. job[t] \in Jobs /\ Fits(pc[t], job[t])
  BY DEF Typed, TypeOK
<1>2. RestTyped
  BY TypedParts
<1>3. RightsLabels \cup {"user", "set"} \subseteq Labels
  BY DEF Labels, RightsLabels
<1>4. CASE Remove(t)
  <2>1. pc[t] = "remove"
    BY <1>4 DEF Remove
  <2>2. job[t].op = "rmaccount" /\ job[t].target \in Logins
    BY <1>1, <2>1 DEF Fits, OpFits, ArgumentsFit
  <2>3. RestTyped'
    BY <1>2, <1>4, <2>2, LogOutTypes DEF Remove, RestTyped, access, history
  <2>4. Fits("rights", job[t])
    BY <1>1, <2>1, <2>2 DEF Fits, OpFits, ArgumentsFit, LevelFits, MaskLabels, HelloLabels,
       ModeLabels, RightsLabels, VictimLabels
  <2> QED
    BY <1>3, <1>4, <2>3, <2>4, StepTyped DEF Remove, RightsLabels
<1>5. CASE DelMasterRight(t)
  <2>1. pc[t] = "rights"
    BY <1>5 DEF DelMasterRight
  <2>2. RestTyped'
    BY <1>2, <1>5 DEF DelMasterRight, RestTyped, sessions, history
  <2>3. Fits("rightsList", job[t])
    BY <1>1, <2>1 DEF Fits, OpFits, ArgumentsFit, LevelFits, MaskLabels, HelloLabels,
       ModeLabels, RightsLabels, VictimLabels
  <2> QED
    BY <1>3, <1>5, <2>2, <2>3, StepTyped DEF DelMasterRight, RightsLabels
<1>6. ASSUME pc[t] \in {"rightsList", "rightsNext"}, NEW r \in SUBSET Channels
      PROVE  /\ [job[t] EXCEPT !.rest = r] \in Jobs
             /\ Fits("rightsNext", [job[t] EXCEPT !.rest = r])
  <2> DEFINE j == [job[t] EXCEPT !.rest = r]
  <2>1. j \in Jobs
    BY <1>1 DEF Jobs
  <2>2. /\ j.op = job[t].op /\ j.chan = job[t].chan /\ j.target = job[t].target
        /\ j.login = job[t].login /\ j.level = job[t].level /\ j.byMaster = job[t].byMaster
        /\ j.letter = job[t].letter /\ j.unset = job[t].unset
    BY <1>1 DEF Jobs
  <2> HIDE DEF j
  <2>3. Fits("rightsNext", j)
    BY <1>1, <1>6, <2>2 DEF Fits, OpFits, ArgumentsFit, LevelFits, MaskLabels, HelloLabels,
       ModeLabels, RightsLabels, VictimLabels
  <2> QED
    BY <2>1, <2>3 DEF j
<1>7. CASE ListChannels(t)
  <2>1. RestTyped' /\ channels \in SUBSET Channels
    BY <1>2, <1>7 DEF ListChannels, RestTyped, access, sessions, history
  <2>2. Goto(t, "rightsNext") /\ job' = [job EXCEPT ![t] = [job[t] EXCEPT !.rest = channels]]
    BY <1>7 DEF ListChannels
  <2> QED
    BY <1>3, <1>6, <1>7, <2>1, <2>2, StepTyped DEF ListChannels, RightsLabels
<1>8. ASSUME NEW c \in Channels, DelChannelRight(t, c)
      PROVE  Typed'
  <2>1. job[t].rest \ {c} \in SUBSET Channels
    BY <1>1 DEF Jobs
  <2>2. RestTyped'
    BY <1>2, <1>8 DEF DelChannelRight, RestTyped, sessions, history
  <2>3. pc[t] = "rightsNext" /\ Goto(t, "rightsNext")
    BY <1>8 DEF DelChannelRight, Goto, Typed, TypeOK
  <2>4. job' = [job EXCEPT ![t] = [job[t] EXCEPT !.rest = job[t].rest \ {c}]]
    BY <1>8 DEF DelChannelRight
  <2> QED
    BY <1>3, <1>6, <2>1, <2>2, <2>3, <2>4, StepTyped DEF RightsLabels
<1>9. CASE RightsRemoved(t)
  <2>1. pc[t] = "rightsNext" /\ UNCHANGED job
    BY <1>9 DEF RightsRemoved
  <2>2. RestTyped'
    BY <1>2, <1>9 DEF RightsRemoved, RestTyped, access, sessions, history
  <2>3. IsRemoval(job[t]) => Fits("user", job[t])
    BY <1>1, <2>1 DEF IsRemoval, Fits, OpFits, ArgumentsFit, LevelFits, MaskLabels, HelloLabels,
       ModeLabels, RightsLabels, VictimLabels
  <2>4. ~IsRemoval(job[t]) => Fits("set", job[t])
    BY <1>1, <2>1 DEF IsRemoval, Fits, OpFits, ArgumentsFit, LevelFits, MaskLabels, HelloLabels,
       ModeLabels, RightsLabels, VictimLabels
  <2> QED
    BY <1>3, <1>9, <2>1, <2>2, <2>3, <2>4, StepTyped DEF RightsRemoved
<1>10. CASE RemoveUser(t)
  <2>1. RestTyped'
    BY <1>2, <1>10 DEF RemoveUser, RestTyped, access, sessions
  <2> QED
    BY <1>10, <2>1, StepTyped DEF RemoveUser
<1> QED
  BY <1>4, <1>5, <1>7, <1>8, <1>9, <1>10 DEF RmAccount

\* A letter that is written is the one that was asked for, or it is unset; only a
\* master writes 'm' on purpose.
LEMMA LetterFits ==
    ASSUME NEW j \in Jobs, LevelFits("oldMode", j), NEW x \in Letter(j)
    PROVE  /\ x.letter \in {"v", "o", "m", "?"} /\ x.unset \in BOOLEAN
           /\ x.letter = "m" => x.unset \/ j.byMaster
<1>1. CASE j.letter = "m" /\ j.level # MasterLevel
  <2>1. PICK y \in {"v", "o", "m", "?"} : x = [letter |-> y, unset |-> TRUE]
    BY <1>1 DEF Letter
  <2> QED
    BY <2>1
<1>2. CASE ~(j.letter = "m" /\ j.level # MasterLevel)
  <2>1. x = [letter |-> j.letter, unset |-> FALSE]
    BY <1>2 DEF Letter
  <2> QED
    BY <1>2, <2>1 DEF Jobs, LevelFits
<1> QED
  BY <1>1, <1>2

\* What accountmode decides when it knows the old mode.
LEMMA ModifyFits ==
    ASSUME Typed, RestTyped', NEW w \in Workers, pc[w] \in {"oldMode", "oldMaster"},
           NEW old \in MasterValues \cup ChannelValues \cup {None},
           old = "+m" => job[w].byMaster, Modify(w, old)
    PROVE  Typed'
<1> USE RightsAssumption DEF Threads
<1>1. job[w] \in Jobs /\ Fits(pc[w], job[w])
  BY DEF Typed, TypeOK
<1>2. PICK x \in Letter(job[w]) :
        /\ Goto(w, Decide(x.letter, old))
        /\ job' = [job EXCEPT ![w].old = old, ![w].letter = x.letter, ![w].unset = x.unset]
  BY DEF Modify
<1>3. /\ x.letter \in {"v", "o", "m", "?"} /\ x.unset \in BOOLEAN
      /\ x.letter = "m" => x.unset \/ job[w].byMaster
  <2>1. LevelFits("oldMode", job[w])
    BY <1>1 DEF Fits, LevelFits, RightsLabels
  <2> QED
    BY <1>1, <2>1, LetterFits
<1> DEFINE j == [job[w] EXCEPT !.old = old, !.letter = x.letter, !.unset = x.unset]
           b == Decide(x.letter, old)
<1>4. j \in Jobs
  BY <1>1, <1>3 DEF Jobs
<1>5. /\ j.op = job[w].op /\ j.chan = job[w].chan /\ j.target = job[w].target
      /\ j.login = job[w].login /\ j.level = job[w].level /\ j.byMaster = job[w].byMaster
      /\ j.letter = x.letter /\ j.unset = x.unset
  BY <1>1 DEF Jobs
<1>6. job' = [job EXCEPT ![w] = j] /\ Goto(w, b)
  BY <1>2
<1> HIDE DEF j
<1>7. /\ b \in Labels /\ b \in {"delMaster", "set", "rights"}
      /\ b = "rights" => x.letter = "m"
      /\ b = "delMaster" => old = "+m"
  BY DEF Decide, Labels
<1> HIDE DEF b
<1>8. Fits(b, j)
  BY <1>1, <1>3, <1>5, <1>7 DEF Fits, OpFits, ArgumentsFit, LevelFits, MaskLabels, HelloLabels,
     ModeLabels, RightsLabels, VictimLabels
<1> QED
  BY <1>4, <1>6, <1>7, <1>8, StepTyped

\* A mode is written.
LEMMA WriteTypes ==
    ASSUME Typed, NEW w \in Workers, pc[w] \in {"set", "store"},
           Write(job[w], None) \/ Write(job[w], Value(job[w]))
    PROVE  /\ master' \in [Logins -> MasterValues \cup {None}]
           /\ right' \in [Logins -> [Channels -> ChannelValues \cup {None}]]
<1> USE RightsAssumption DEF Threads
<1>1. job[w] \in Jobs /\ job[w].target \in Logins /\ job[w].chan \in Channels
  BY DEF Typed, TypeOK, Fits, OpFits, ArgumentsFit, ModeLabels
<1>2. IF job[w].letter = "m" THEN Value(job[w]) \in MasterValues
                             ELSE Value(job[w]) \in ChannelValues
  BY <1>1 DEF Value, MasterValues, ChannelValues, Jobs
<1>3. /\ master \in [Logins -> MasterValues \cup {None}]
      /\ right \in [Logins -> [Channels -> ChannelValues \cup {None}]]
  BY DEF Typed, TypeOK
<1>4. CASE job[w].letter = "m"
  BY <1>1, <1>2, <1>3, <1>4 DEF Write
<1>5. CASE job[w].letter # "m"
  <2>1. master' = master
    BY <1>5 DEF Write
  <2>2. ASSUME NEW v \in ChannelValues \cup {None},
               right' = [right EXCEPT ![job[w].target][job[w].chan] = v]
        PROVE  right' \in [Logins -> [Channels -> ChannelValues \cup {None}]]
    BY <1>1, <1>3, <2>2
  <2> QED
    BY <1>2, <1>3, <1>5, <2>1, <2>2 DEF Write
<1> QED
  BY <1>4, <1>5

\* !accountmode.
LEMMA AccountModeTyped ==
    ASSUME Typed, NEW w \in Workers, AccountMode(w)
    PROVE  Typed'
<1> USE RightsAssumption DEF Threads
<1>1. job[w] \in Jobs /\ Fits(pc[w], job[w])
  BY DEF Typed, TypeOK
<1>2. RestTyped
  BY TypedParts
<1>3. ModeLabels \subseteq Labels
  BY DEF ModeLabels, Labels
<1>4. CASE ModeCheck(w)
  <2> DEFINE j == [job[w] EXCEPT !.login = n2u[job[w].mask]]
  <2>1. RestTyped' /\ pc[w] = "modeCheck"
    BY <1>2, <1>4 DEF ModeCheck, RestTyped, access, sessions, history
  <2>2. CASE Return(w)
    BY <2>1, <2>2, StepTyped
  <2>3. CASE /\ n2u[job[w].mask] # None
             /\ Goto(w, "oldMode")
             /\ job' = [job EXCEPT ![w].login = n2u[job[w].mask]]
    <3>1. n2u[job[w].mask] \in Logins
      BY <1>1, <1>2, <2>1, <2>3 DEF RestTyped, Fits, ArgumentsFit, MaskLabels
    <3>2. /\ j \in Jobs /\ job' = [job EXCEPT ![w] = j]
          /\ j.op = job[w].op /\ j.chan = job[w].chan /\ j.target = job[w].target
          /\ j.login \in Logins /\ j.level = job[w].level /\ j.byMaster = job[w].byMaster
          /\ j.letter = job[w].letter /\ j.unset = job[w].unset
      BY <1>1, <2>3, <3>1 DEF Jobs
    <3> HIDE DEF j
    <3>3. Fits("oldMode", j)
      BY <1>1, <2>1, <3>2 DEF Fits, OpFits, ArgumentsFit, LevelFits, MaskLabels, HelloLabels,
         ModeLabels, RightsLabels, VictimLabels
    <3> QED
      BY <1>3, <2>1, <2>3, <3>2, <3>3, StepTyped DEF ModeLabels
  <2> QED
    BY <1>4, <2>2, <2>3 DEF ModeCheck
<1>5. CASE OldMode(w)
  <2> DEFINE old == right[job[w].target][job[w].chan]
  <2>1. RestTyped' /\ pc[w] = "oldMode"
    BY <1>2, <1>5 DEF OldMode, RestTyped, access, sessions, history
  <2>2. job[w].target \in Logins /\ job[w].chan \in Channels
    BY <1>1, <2>1 DEF Fits, OpFits, ArgumentsFit, ModeLabels
  <2>4. CASE old # None /\ Modify(w, old)
    <3>1. old \in ChannelValues
      BY <1>2, <2>2, <2>4 DEF RestTyped
    <3>2. old # "+m"
      BY <3>1 DEF ChannelValues
    <3> QED
      BY <2>1, <2>4, <3>1, <3>2, ModifyFits
  <2>5. CASE Goto(w, "oldMaster") /\ UNCHANGED job
    <3>1. Fits("oldMaster", job[w])
      BY <1>1, <2>1 DEF Fits, OpFits, ArgumentsFit, LevelFits, MaskLabels, HelloLabels,
         ModeLabels, RightsLabels, VictimLabels
    <3> QED
      BY <1>3, <2>1, <2>5, <3>1, StepTyped DEF ModeLabels
  <2> QED
    BY <1>5, <2>4, <2>5 DEF OldMode
<1>6. CASE OldMaster(w)
  <2> DEFINE old == master[job[w].target]
  <2>1. RestTyped' /\ pc[w] = "oldMaster"
    BY <1>2, <1>6 DEF OldMaster, RestTyped, access, sessions, history
  <2>2. job[w].target \in Logins
    BY <1>1, <2>1 DEF Fits, OpFits, ArgumentsFit, ModeLabels
  <2>3. old \in MasterValues \cup {None}
    BY <1>2, <2>2 DEF RestTyped
  <2>4. CASE Return(w)
    BY <2>1, <2>4, StepTyped
  <2>5. CASE ~(old # None /\ job[w].level # MasterLevel) /\ Modify(w, old)
    <3>1. old = "+m" => job[w].byMaster
      BY <1>1, <2>5 DEF Fits, LevelFits, MasterValues
    <3> QED
      BY <2>1, <2>3, <2>5, <3>1, ModifyFits
  <2> QED
    BY <1>6, <2>4, <2>5 DEF OldMaster
<1>7. CASE DelOldMaster(w)
  <2>1. RestTyped' /\ pc[w] = "delMaster"
    BY <1>2, <1>7 DEF DelOldMaster, RestTyped, sessions, history
  <2>2. Fits("set", job[w])
    BY <1>1, <2>1 DEF Fits, OpFits, ArgumentsFit, LevelFits, MaskLabels, HelloLabels,
       ModeLabels, RightsLabels, VictimLabels
  <2> QED
    BY <1>3, <1>7, <2>1, <2>2, StepTyped DEF DelOldMaster, ModeLabels
<1>8. ASSUME pc[w] \in {"set", "store"}, Return(w),
             \/ Write(job[w], None) /\ UNCHANGED excused
             \/ Write(job[w], Value(job[w])) /\ Excuse(job[w].target, Depends(job[w])),
             UNCHANGED <<users, channels, sessions, mutex, asked, budget, founders, rivals>>
      PROVE  Typed'
  <2>1. job[w].target \in Logins
    BY <1>1, <1>8 DEF Fits, OpFits, ArgumentsFit, ModeLabels
  <2>2. excused' \subseteq Logins
    BY <1>2, <1>8, <2>1 DEF Excuse, RestTyped
  <2>3. RestTyped'
    BY <1>2, <1>8, <2>2, WriteTypes DEF RestTyped, sessions
  <2> QED
    BY <1>8, <2>3, StepTyped
<1>9. CASE SetMode(w)
  <2>1. CASE pc[w] = "set" /\ Goto(w, "replace") /\
             UNCHANGED <<users, channels, access, sessions, mutex, job, asked, budget, history>>
    <3>1. RestTyped'
      BY <1>2, <2>1 DEF RestTyped, access, sessions, history
    <3>2. Fits("replace", job[w])
      BY <1>1, <2>1 DEF Fits, OpFits, ArgumentsFit, LevelFits, MaskLabels, HelloLabels,
         ModeLabels, RightsLabels, VictimLabels
    <3> QED
      BY <1>3, <2>1, <3>1, <3>2, StepTyped DEF ModeLabels
  <2> QED
    BY <1>8, <1>9, <2>1 DEF SetMode, history
<1>10. CASE ReplaceMode(w)
  <2>1. RestTyped' /\ pc[w] = "replace"
    BY <1>2, <1>10 DEF ReplaceMode, RestTyped, access, sessions, history
  <2>2. Fits("store", job[w])
    BY <1>1, <2>1 DEF Fits, OpFits, ArgumentsFit, LevelFits, MaskLabels, HelloLabels,
       ModeLabels, RightsLabels, VictimLabels
  <2> QED
    BY <1>3, <1>10, <2>1, <2>2, StepTyped DEF ReplaceMode, ModeLabels
<1>11. CASE StoreMode(w)
  BY <1>8, <1>11 DEF StoreMode
<1> QED
  BY <1>4, <1>5, <1>6, <1>7, <1>9, <1>10, <1>11 DEF AccountMode

\* The steps of !kick and !ban that change nothing but a thread and the questions.
LEMMA QuietRest ==
    ASSUME RestTyped, asked' \in Seq(Questions),
           UNCHANGED <<users, channels, access, sessions, mutex, budget, history>>
    PROVE  RestTyped'
BY DEF RestTyped, access, sessions, history

\* !kick and !ban.
LEMMA KickOrBanTyped ==
    ASSUME Typed, NEW w \in Workers, KickOrBan(w)
    PROVE  Typed'
<1> USE RightsAssumption DEF Threads
<1>1. job[w] \in Jobs /\ Fits(pc[w], job[w])
  BY DEF Typed, TypeOK
<1>2. RestTyped /\ asked \in Seq(Questions)
  BY TypedParts DEF RestTyped
<1>3. VictimLabels \cup {"caller", "kick"} \subseteq Labels
  BY DEF VictimLabels, Labels
<1>4. CASE Ask(w)
  <2>1. pc[w] = "ask" /\ n2u[job[w].mask] # None
    BY <1>4 DEF Ask
  <2>2. /\ job[w].op \in {"kick", "ban"} /\ job[w].chan \in Channels
        /\ n2u[job[w].mask] \in Logins
    BY <1>1, <1>2, <2>1 DEF Fits, OpFits, ArgumentsFit, MaskLabels, RestTyped
  <2>3. PICK v \in Masks :
          asked' = Append(asked, [op |-> job[w].op, login |-> n2u[job[w].mask],
                                  chan |-> job[w].chan, victim |-> v])
    BY <1>4 DEF Ask
  <2>4. [op |-> job[w].op, login |-> n2u[job[w].mask],
         chan |-> job[w].chan, victim |-> v] \in Questions
    BY <2>2 DEF Questions
  <2>5. asked' \in Seq(Questions)
    BY <1>2, <2>3, <2>4
  <2> QED
    BY <1>2, <1>4, <2>5, QuietRest, StepTyped DEF Ask
<1>5. CASE AskNot(w) \/ Kick(w)
  BY <1>2, <1>5, QuietRest, StepTyped DEF AskNot, Kick
<1>6. CASE Answer(w)
  <2> DEFINE q == Head(asked)
             j == [Idle EXCEPT !.op = q.op, !.login = q.login, !.chan = q.chan,
                               !.victim = q.victim, !.target = n2u[q.victim]]
  <2>1. asked # <<>> /\ asked' = Tail(asked)
    BY <1>6 DEF Answer
  <2>2. q \in Questions /\ asked' \in Seq(Questions)
    BY <1>2, <2>1
  <2>3. /\ q.op \in {"kick", "ban"} /\ q.login \in Logins /\ q.chan \in Channels
        /\ q.victim \in Masks /\ n2u[q.victim] \in Logins \cup {None}
    BY <1>2, <2>2 DEF Questions, RestTyped
  <2>4. job' = [job EXCEPT ![w] = j] /\ Goto(w, "caller")
    BY <1>6 DEF Answer
  <2> HIDE DEF q
  <2>5. j \in Jobs
    <3>1. ASSUME NEW i \in Jobs
          PROVE  [i EXCEPT !.op = q.op, !.login = q.login, !.chan = q.chan,
                           !.victim = q.victim, !.target = n2u[q.victim]] \in Jobs
      BY <2>3 DEF Jobs, Ops
    <3> QED
      BY <3>1, IdleFits
  <2>6. j.op = q.op /\ j.login = q.login /\ j.chan = q.chan /\ j.level = 0
    BY DEF Idle
  <2> HIDE DEF j
  <2>7. Fits("caller", j)
    BY <2>3, <2>6 DEF Fits, OpFits, ArgumentsFit, LevelFits, MaskLabels, HelloLabels,
       ModeLabels, RightsLabels, VictimLabels, MasterLevel
  <2>8. RestTyped'
    BY <1>2, <1>6, <2>2, QuietRest DEF Answer
  <2> QED
    BY <1>3, <2>4, <2>5, <2>7, <2>8, StepTyped
<1>7. CASE NoAnswer(w)
  <2>1. asked' \in Seq(Questions)
    BY <1>2, <1>7 DEF NoAnswer
  <2>2. RestTyped' /\ ThreadsTyped'
    BY <1>2, <1>7, <2>1, QuietRest, TypedParts DEF NoAnswer, ThreadsTyped
  <2> QED
    BY <2>2, TypedParts
<1>8. CASE CallerMask(w)
  <2>1. RestTyped' /\ pc[w] = "caller"
    BY <1>2, <1>8, QuietRest DEF CallerMask
  <2>2. CASE Return(w)
    BY <2>1, <2>2, StepTyped
  <2>3. CASE ~Return(w)
    <3> DEFINE m == u2n[job[w].login]
               j == [job[w] EXCEPT !.mask = m]
    <3>1. /\ m # None /\ job' = [job EXCEPT ![w] = j]
          /\ \/ job[w].target # None /\ Goto(w, "victimRight")
             \/ job[w].target = None /\ Goto(w, "kick")
      BY <1>8, <2>3 DEF CallerMask
    <3>2. m \in Masks
      BY <1>1, <1>2, <2>1, <3>1 DEF Fits, ArgumentsFit, RestTyped
    <3>3. /\ j \in Jobs /\ j.mask \in Masks /\ j.op = job[w].op /\ j.chan = job[w].chan
          /\ j.target = job[w].target /\ j.login = job[w].login /\ j.level = job[w].level
          /\ j.byMaster = job[w].byMaster /\ j.target \in Logins \cup {None}
      BY <1>1, <3>2 DEF Jobs
    <3> HIDE DEF j
    <3>4. Fits("kick", j) /\ (job[w].target # None => Fits("victimRight", j))
      BY <1>1, <2>1, <3>3 DEF Fits, OpFits, ArgumentsFit, LevelFits, MaskLabels, HelloLabels,
         ModeLabels, RightsLabels, VictimLabels
    <3>5. CASE job[w].target # None /\ Goto(w, "victimRight")
      BY <1>3, <2>1, <3>1, <3>3, <3>4, <3>5, StepTyped DEF VictimLabels
    <3>6. CASE Goto(w, "kick")
      BY <1>3, <2>1, <3>1, <3>3, <3>4, <3>6, StepTyped
    <3> QED
      BY <3>1, <3>5, <3>6
  <2> QED
    BY <2>2, <2>3
<1>9. ASSUME pc[w] \in VictimLabels,
             NEW value \in MasterValues \cup ChannelValues \cup {None}
      PROVE  /\ [job[w] EXCEPT !.old = value] \in Jobs
             /\ Fits("victimMaster", [job[w] EXCEPT !.old = value])
             /\ Fits("callerMaster", [job[w] EXCEPT !.old = value])
  <2> DEFINE j == [job[w] EXCEPT !.old = value]
  <2>1. /\ j \in Jobs /\ j.mask = job[w].mask /\ j.op = job[w].op /\ j.chan = job[w].chan
        /\ j.target = job[w].target /\ j.login = job[w].login /\ j.level = job[w].level
        /\ j.byMaster = job[w].byMaster
    BY <1>1 DEF Jobs
  <2> HIDE DEF j
  <2>2. Fits("victimMaster", j) /\ Fits("callerMaster", j)
    BY <1>1, <1>9, <2>1 DEF Fits, OpFits, ArgumentsFit, LevelFits, MaskLabels, HelloLabels,
       ModeLabels, RightsLabels, VictimLabels
  <2> QED
    BY <2>1, <2>2 DEF j
<1>10. ASSUME pc[w] \in VictimLabels
       PROVE  Fits("callerMaster", job[w]) /\ Fits("kick", job[w])
  BY <1>1, <1>10 DEF Fits, OpFits, ArgumentsFit, LevelFits, MaskLabels, HelloLabels,
     ModeLabels, RightsLabels, VictimLabels
<1>11. ASSUME pc[w] \in VictimLabels
       PROVE  job[w].target \in Logins /\ job[w].chan \in Channels
  BY <1>1, <1>11 DEF Fits, OpFits, ArgumentsFit, VictimLabels
<1>12. CASE VictimRight(w)
  <2> DEFINE value == right[job[w].target][job[w].chan]
  <2>1. RestTyped' /\ pc[w] \in VictimLabels
    BY <1>2, <1>12, QuietRest DEF VictimRight, VictimLabels
  <2>2. value \in ChannelValues \cup {None}
    BY <1>2, <1>11, <2>1 DEF RestTyped
  <2>3. /\ job' = [job EXCEPT ![w] = [job[w] EXCEPT !.old = value]]
        /\ Goto(w, "victimMaster") \/ Goto(w, "callerMaster")
    BY <1>12 DEF VictimRight
  <2> HIDE DEF value
  <2> QED
    BY <1>3, <1>9, <2>1, <2>2, <2>3, StepTyped DEF VictimLabels
<1>13. CASE VictimMaster(w)
  <2> DEFINE value == master[job[w].target]
  <2>1. RestTyped' /\ pc[w] \in VictimLabels
    BY <1>2, <1>13, QuietRest DEF VictimMaster, VictimLabels
  <2>2. value \in MasterValues \cup {None}
    BY <1>2, <1>11, <2>1 DEF RestTyped
  <2>3. \/ Goto(w, "kick") /\ UNCHANGED job
        \/ /\ Goto(w, "callerMaster")
           /\ job' = [job EXCEPT ![w] = [job[w] EXCEPT !.old = value]]
        \/ Return(w)
    BY <1>13 DEF VictimMaster
  <2> HIDE DEF value
  <2>4. CASE Goto(w, "kick") /\ UNCHANGED job
    BY <1>3, <1>10, <2>1, <2>4, StepTyped
  <2>5. CASE /\ Goto(w, "callerMaster")
             /\ job' = [job EXCEPT ![w] = [job[w] EXCEPT !.old = value]]
    BY <1>3, <1>9, <2>1, <2>2, <2>5, StepTyped DEF VictimLabels
  <2> QED
    BY <2>1, <2>3, <2>4, <2>5, StepTyped
<1>14. CASE CallerMaster(w)
  <2>1. RestTyped' /\ pc[w] \in VictimLabels
    BY <1>2, <1>14, QuietRest DEF CallerMaster, VictimLabels
  <2> QED
    BY <1>3, <1>10, <1>14, <2>1, StepTyped DEF CallerMaster
<1> QED
  BY <1>4, <1>5, <1>6, <1>7, <1>8, <1>12, <1>13, <1>14 DEF KickOrBan

\* The process ends, and the next one begins.
LEMMA CrashTyped ==
    ASSUME Typed, NEW w \in Workers, Crash(w)
    PROVE  Typed'
<1>1. RestTyped'
  BY TypedParts DEF Crash, RestTyped, access, history
<1>2. ThreadsTyped'
  BY IdleFits DEF Crash, ThreadsTyped, Labels
<1> QED
  BY <1>1, <1>2, TypedParts

\* Every step keeps the types and what is known at each label.
LEMMA TypedStep == Typed /\ [Next]_vars => Typed'
<1> SUFFICES ASSUME Typed, [Next]_vars PROVE Typed'
  OBVIOUS
<1>1. CASE UNCHANGED vars
  BY <1>1 DEF vars, Typed, TypeOK, access, sessions, history
<1>2. CASE StepCases /\ ~UNCHANGED vars
  BY <1>2, DispatchTyped, LevelTyped, SessionTyped, HelloTyped, AccountModeTyped, StartsTyped,
     KickOrBanTyped, CrashTyped, RmAccountTyped DEF StepCases
<1> QED
  BY <1>1, <1>2, NextCases

\* The databases, the sessions, the threads and their locals, and the questions
\* of !kick and !ban keep their types in every state of the bot, and each thread
\* has, where it is, the arguments and the level its handler goes by.
THEOREM TypesHold == Spec => []Typed
<1>1. Init => Typed
  BY TypedInit
<1>2. Typed /\ [Next]_vars => Typed'
  BY TypedStep
<1> QED
  BY <1>1, <1>2, PTL DEF Spec

\* In particular, the types.
THEOREM TypeCorrect == Spec => []TypeOK
<1>1. Typed => TypeOK
  BY DEF Typed
<1> QED
  BY <1>1, TypesHold, PTL

-----------------------------------------------------------------------------
(* Threads *)

\* A step of a worker that is not the end of the process.
WorkerStep(w) ==
    \/ (\E m \in Masks : Command(w, m)) \/ Level(w) \/ Session(w) \/ Hello(w) \/ AccountMode(w)
    \/ ChangeChannel(w) \/ RmAccountExist(w) \/ KickOrBan(w)

\* It moves that worker only.
LEMMA OneThreadMoves ==
    ASSUME Typed, NEW t \in Threads, (t \in Workers /\ WorkerStep(t)) \/ RmAccount(t),
           NEW u \in Threads, u # t
    PROVE  pc'[u] = pc[u] /\ job'[u] = job[u]
<1>1. pc \in [Threads -> Labels] /\ job \in [Threads -> Jobs]
  BY DEF Typed, TypeOK
<1>2. CASE \E m \in Masks : Command(t, m)
  BY <1>1, <1>2 DEF Command, Dispatch, Goto
<1>3. CASE Level(t)
  BY <1>1, <1>3 DEF Level, ReadChannelLevel, ReadMasterLevel, Access, Goto, Return
<1>4. CASE Session(t)
  BY <1>1, <1>4 DEF Session, IdentCheck, Logon, Logoff, Goto, Return
<1>5. CASE Hello(t)
  BY <1>1, <1>5 DEF Hello, HelloList, HelloAdd, HelloFirst, HelloFirstAdd, HelloFirstReplace,
     HelloFirstStore, FirstMaster, Goto, Return
<1>6. CASE AccountMode(t)
  BY <1>1, <1>6 DEF AccountMode, ModeCheck, OldMode, OldMaster, DelOldMaster, SetMode, ReplaceMode,
     StoreMode, Modify, Goto, Return
<1>7. CASE ChangeChannel(t) \/ RmAccountExist(t)
  BY <1>1, <1>7 DEF ChangeChannel, RmAccountExist, Goto, Return
<1>8. CASE KickOrBan(t)
  BY <1>1, <1>8 DEF KickOrBan, Ask, AskNot, Answer, NoAnswer, CallerMask, VictimRight,
     VictimMaster, CallerMaster, Kick, Goto, Return
<1>9. CASE RmAccount(t)
  BY <1>1, <1>9 DEF RmAccount, Remove, DelMasterRight, ListChannels, DelChannelRight,
     RightsRemoved, RemoveUser, Goto, Return
<1> QED
  BY <1>2, <1>3, <1>4, <1>5, <1>6, <1>7, <1>8, <1>9 DEF WorkerStep

\* The timing thread only removes accounts.
TimerSweeps == \/ pc[Timer] = "idle"
               \/ pc[Timer] \in {"remove"} \cup Removing /\ IsRemoval(job[Timer])

\* It does so in every state.
LEMMA TimerOnlySweeps == Spec => []TimerSweeps
<1>1. Init => TimerSweeps
  BY DEF Init, TimerSweeps, Threads
<1>2. ASSUME Typed, TimerSweeps, [Next]_vars
      PROVE  TimerSweeps'
  <2> USE RightsAssumption DEF Threads
  <2>1. pc \in [Threads -> Labels] /\ job \in [Threads -> Jobs]
    BY <1>2 DEF Typed, TypeOK
  <2>2. ASSUME pc'[Timer] = pc[Timer] /\ job'[Timer] = job[Timer]
        PROVE  TimerSweeps'
    BY <1>2, <2>2 DEF TimerSweeps, IsRemoval
  <2>3. ASSUME NEW w \in Workers, WorkerStep(w)
        PROVE  TimerSweeps'
    BY <1>2, <2>2, <2>3, OneThreadMoves
  <2>4. ASSUME NEW w \in Workers, Crash(w)
        PROVE  TimerSweeps'
    BY <2>4 DEF Crash, TimerSweeps
  <2>5. ASSUME NEW l \in Logins, Sweep(l)
        PROVE  TimerSweeps'
    <3>1. pc'[Timer] = "remove"
      BY <2>1, <2>5 DEF Sweep, Goto
    <3>2. job'[Timer] = [Idle EXCEPT !.op = "rmaccount", !.target = l]
      BY <2>1, <2>5 DEF Sweep
    <3>3. job'[Timer].op = "rmaccount"
      BY <3>2 DEF Idle
    <3> QED
      BY <3>1, <3>3 DEF TimerSweeps, IsRemoval
  <2>6. ASSUME NEW t \in Threads, RmAccount(t)
        PROVE  TimerSweeps'
    <3>1. CASE t # Timer
      BY <1>2, <2>2, <2>6, <3>1, OneThreadMoves
    <3>2. CASE t = Timer
      <4>1. CASE Remove(t) \/ DelMasterRight(t) \/ RightsRemoved(t)
        BY <1>2, <2>1, <3>2, <4>1 DEF TimerSweeps, Removing, IsRemoval, Remove, DelMasterRight,
           RightsRemoved, Goto
      <4>2. CASE ListChannels(t)
        <5>1. pc[t] = "rightsList" /\ pc'[t] = "rightsNext"
          BY <2>1, <4>2 DEF ListChannels, Goto
        <5>2. job'[t].op = job[t].op
          BY <2>1, <4>2 DEF ListChannels, Jobs
        <5> QED
          BY <1>2, <3>2, <5>1, <5>2 DEF TimerSweeps, Removing, IsRemoval
      <4>3. CASE \E c \in Channels : DelChannelRight(t, c)
        <5>1. pc[t] = "rightsNext" /\ pc'[t] = pc[t]
          BY <4>3 DEF DelChannelRight
        <5>2. job'[t].op = job[t].op
          BY <2>1, <4>3 DEF DelChannelRight, Jobs
        <5> QED
          BY <1>2, <3>2, <5>1, <5>2 DEF TimerSweeps, Removing, IsRemoval
      <4>4. CASE RemoveUser(t)
        BY <2>1, <3>2, <4>4 DEF RemoveUser, Return, Goto, TimerSweeps
      <4> QED
        BY <2>6, <4>1, <4>2, <4>3, <4>4 DEF RmAccount
    <3> QED
      BY <3>1, <3>2
  <2>7. CASE UNCHANGED vars
    BY <2>2, <2>7 DEF vars
  <2> QED
    BY <1>2, <2>3, <2>4, <2>5, <2>6, <2>7, NextCases DEF StepCases, WorkerStep
<1> QED
  BY <1>1, <1>2, TypesHold, PTL DEF Spec

-----------------------------------------------------------------------------
(* Who becomes a master, and who is one no more *)

\* The steps that write an entry of a master: the first hello, an account removal
\* or the accountmode that calls rmAccessRights, and accountmode itself.
MasterWritten(t, value) ==
    /\ job[t].target \in Logins
    /\ master' = [master EXCEPT ![job[t].target] = value]
    /\ \/ value = "m" /\ pc[t] \in {"firstAdd", "firstStore"}
       \/ value = None /\ pc[t] \in {"rights", "delMaster"}
       \/ value = None /\ pc[t] = "set" /\ job[t].letter = "m"
       \/ value = "+m" /\ pc[t] \in {"set", "store"} /\ job[t].letter = "m"

\* A step of a worker.
WorkerCases(w) ==
    \/ (\E m \in Masks : Command(w, m)) \/ Level(w) \/ Session(w) \/ ChangeChannel(w)
    \/ RmAccountExist(w) \/ KickOrBan(w) \/ Crash(w)

\* Everything else leaves the masters alone.
LEMMA MasterUnchanged ==
    ASSUME NEW w, WorkerCases(w)
    PROVE  master' = master
<1>1. CASE \E m \in Masks : Command(w, m)
  BY <1>1 DEF Command, Dispatch, access
<1>2. CASE Level(w)
  BY <1>2 DEF Level, ReadChannelLevel, ReadMasterLevel, Access, access
<1>3. CASE Session(w)
  BY <1>3 DEF Session, IdentCheck, Logon, Logoff, access
<1>4. CASE ChangeChannel(w)
  BY <1>4 DEF ChangeChannel, access
<1>5. CASE RmAccountExist(w)
  BY <1>5 DEF RmAccountExist, access
<1>6. CASE KickOrBan(w)
  BY <1>6 DEF KickOrBan, Ask, AskNot, Answer, NoAnswer, CallerMask, VictimRight, VictimMaster,
     CallerMaster, Kick, access
<1>7. CASE Crash(w)
  BY <1>7 DEF Crash, access
<1> QED
  BY <1>1, <1>2, <1>3, <1>4, <1>5, <1>6, <1>7 DEF WorkerCases

\* One of the writers has taken a step that changes a master.
LEMMA MasterWriters ==
    ASSUME Typed, [Next]_vars, master' # master
    PROVE  \E t \in Threads, value \in MasterValues \cup {None} : MasterWritten(t, value)
<1> USE RightsAssumption DEF Threads
<1>1. \A t \in Threads : job[t] \in Jobs /\ Fits(pc[t], job[t])
  BY DEF Typed, TypeOK
<1>2. ASSUME NEW w \in Workers, Hello(w)
      PROVE  MasterWritten(w, "m")
  <2>1. pc[w] \in {"firstAdd", "firstStore"} /\ FirstMaster(w)
    BY <1>2 DEF Hello, HelloList, HelloAdd, HelloFirst, HelloFirstAdd, HelloFirstReplace,
       HelloFirstStore, access
  <2>2. job[w].target \in Logins
    BY <1>1, <2>1 DEF Fits, ArgumentsFit
  <2> QED
    BY <2>1, <2>2 DEF FirstMaster, MasterWritten
<1>3. ASSUME NEW w \in Workers, AccountMode(w)
      PROVE  MasterWritten(w, None) \/ MasterWritten(w, "+m")
  <2>1. pc[w] \in ModeLabels
    BY <1>3 DEF AccountMode, ModeCheck, OldMode, OldMaster, DelOldMaster, SetMode, ReplaceMode,
       StoreMode, ModeLabels
  <2>2. job[w].target \in Logins
    BY <1>1, <2>1 DEF Fits, OpFits, ArgumentsFit, ModeLabels
  <2>3. CASE DelOldMaster(w)
    BY <2>2, <2>3 DEF DelOldMaster, MasterWritten
  <2>4. CASE SetMode(w)
    <3>1. pc[w] = "set" /\ (Write(job[w], None) \/ Write(job[w], Value(job[w])))
      BY <2>4 DEF SetMode, access
    <3>2. job[w].letter = "m"
      BY <3>1 DEF Write
    <3>3. Value(job[w]) = "+m"
      BY <3>2 DEF Value
    <3> QED
      BY <2>2, <3>1, <3>2, <3>3 DEF Write, MasterWritten
  <2>5. CASE StoreMode(w)
    <3>1. pc[w] = "store" /\ Write(job[w], Value(job[w]))
      BY <2>5 DEF StoreMode
    <3>2. job[w].letter = "m"
      BY <3>1 DEF Write
    <3>3. Value(job[w]) = "+m"
      BY <3>2 DEF Value
    <3> QED
      BY <2>2, <3>1, <3>2, <3>3 DEF Write, MasterWritten
  <2> QED
    BY <1>3, <2>3, <2>4, <2>5 DEF AccountMode, ModeCheck, OldMode, OldMaster, ReplaceMode, access
<1>4. ASSUME NEW t \in Threads, RmAccount(t)
      PROVE  MasterWritten(t, None)
  <2>1. DelMasterRight(t)
    BY <1>4 DEF RmAccount, Remove, ListChannels, DelChannelRight, RightsRemoved, RemoveUser, access
  <2>2. job[t].target \in Logins
    BY <1>1, <2>1 DEF DelMasterRight, Fits, OpFits, ArgumentsFit, RightsLabels
  <2> QED
    BY <2>1, <2>2 DEF DelMasterRight, MasterWritten
<1>5. ~\E l \in Logins : Sweep(l)
  BY DEF Sweep, access
<1>6. ~UNCHANGED vars
  BY DEF vars, access
<1> QED
  BY <1>2, <1>3, <1>4, <1>5, <1>6, NextCases, MasterUnchanged
     DEF StepCases, WorkerCases, MasterValues

\* Nobody becomes a master but by a hello that found no account, by an
\* accountmode whose caller was found to be a master when it was dispatched, or
\* by one that goes on with a mode it has not set.
THEOREM MastersByMasters == Spec => MasterByMaster
<1>1. ASSUME Typed, TimerSweeps, [Next]_vars, NEW l \in Logins,
             master[l] = None, master'[l] # None
      PROVE  \E t \in Workers : /\ job[t].target = l
                                /\ \/ job[t].op = "hello" /\ job[t].first
                                   \/ job[t].op = "accountmode" /\ job[t].byMaster
                                   \/ job[t].op = "accountmode" /\ job[t].unset
  <2> USE RightsAssumption
  <2>1. PICK t \in Threads, value \in MasterValues \cup {None} : MasterWritten(t, value)
    BY <1>1, MasterWriters
  <2>2. master \in [Logins -> MasterValues \cup {None}]
    BY <1>1 DEF Typed, TypeOK
  <2>3. job[t].target = l /\ value # None
    BY <1>1, <2>1, <2>2 DEF MasterWritten
  <2>4. Fits(pc[t], job[t])
    BY <1>1 DEF Typed
  <2>5. CASE pc[t] \in {"firstAdd", "firstStore"}
    <3>1. t \in Workers
      BY <1>1, <2>5 DEF TimerSweeps, Removing, Threads
    <3>2. job[t].op = "hello" /\ job[t].first
      BY <2>4, <2>5 DEF Fits, OpFits, LevelFits, HelloLabels
    <3> QED
      BY <2>3, <3>1, <3>2
  <2>6. CASE pc[t] \in {"set", "store"} /\ job[t].letter = "m"
    <3>1. t \in Workers
      BY <1>1, <2>6 DEF TimerSweeps, Removing, Threads
    <3>2. job[t].op = "accountmode" /\ (job[t].unset \/ job[t].byMaster)
      BY <2>4, <2>6 DEF Fits, OpFits, LevelFits, ModeLabels
    <3> QED
      BY <2>3, <3>1, <3>2
  <2> QED
    BY <2>1, <2>3, <2>5, <2>6 DEF MasterWritten
<1>2. Typed /\ TimerSweeps /\ [Next]_vars =>
        [\A l \in Logins : master[l] = None /\ master'[l] # None =>
           \E t \in Workers : /\ job[t].target = l
                              /\ \/ job[t].op = "hello" /\ job[t].first
                                 \/ job[t].op = "accountmode" /\ job[t].byMaster
                                 \/ job[t].op = "accountmode" /\ job[t].unset]_vars
  BY <1>1
<1> QED
  BY <1>2, TypesHold, TimerOnlySweeps, PTL DEF MasterByMaster, Spec

\* Who takes away the rights of the last master removes his account, was found to
\* be a master when the command was dispatched and is none any more, has named
\* himself, or goes on with a mode he has not set.
THEOREM TheLastMaster == Spec => LastMaster
<1>1. ASSUME Typed, [Next]_vars,
             \E l \in Logins : master[l] # None, \A l \in Logins : master'[l] = None
      PROVE  \E t \in Threads :
               \/ IsRemoval(job[t]) /\ pc[t] = "rights"
               \/ /\ job[t].op = "accountmode"
                  /\ pc[t] \in {"delMaster", "rights", "set"}
                  /\ \/ job[t].unset
                     \/ /\ job[t].byMaster
                        /\ \/ master[job[t].login] = None
                           \/ job[t].target = job[t].login
  <2> USE RightsAssumption
  <2>1. PICK t \in Threads, value \in MasterValues \cup {None} : MasterWritten(t, value)
    BY <1>1, MasterWriters
  <2>2. master \in [Logins -> MasterValues \cup {None}]
    BY <1>1 DEF Typed, TypeOK
  <2>3. value = None /\ \A l \in Logins : l # job[t].target => master[l] = None
    BY <1>1, <2>1, <2>2 DEF MasterWritten
  <2>4. Fits(pc[t], job[t])
    BY <1>1 DEF Typed
  <2>5. pc[t] \in {"rights", "delMaster", "set"}
    BY <2>1, <2>3 DEF MasterWritten, MasterValues
  <2>6. CASE pc[t] = "rights" /\ job[t].op = "rmaccount"
    BY <2>6 DEF IsRemoval
  <2>7. CASE ~(pc[t] = "rights" /\ job[t].op = "rmaccount")
    <3>1. job[t].op = "accountmode"
      BY <2>4, <2>5, <2>7 DEF Fits, OpFits, ModeLabels, RightsLabels
    <3>2. job[t].login \in Logins
      BY <2>4, <2>5, <3>1 DEF Fits, ArgumentsFit, ModeLabels, RightsLabels
    <3>3. pc[t] = "set" => job[t].letter = "m"
      BY <2>1, <2>3 DEF MasterWritten, MasterValues
    <3>4. job[t].unset \/ job[t].byMaster
      BY <2>4, <2>5, <3>1, <3>3 DEF Fits, LevelFits, RightsLabels
    <3> QED
      BY <2>3, <2>5, <3>1, <3>2, <3>4
  <2> QED
    BY <2>6, <2>7
<1>2. Typed /\ [Next]_vars =>
        [(\E l \in Logins : master[l] # None) /\ (\A l \in Logins : master'[l] = None) =>
           \E t \in Threads :
             \/ IsRemoval(job[t]) /\ pc[t] = "rights"
             \/ /\ job[t].op = "accountmode"
                /\ pc[t] \in {"delMaster", "rights", "set"}
                /\ \/ job[t].unset
                   \/ /\ job[t].byMaster
                      /\ \/ master[job[t].login] = None
                         \/ job[t].target = job[t].login]_vars
  BY <1>1
<1> QED
  BY <1>2, TypesHold, PTL DEF LastMaster, Spec

-----------------------------------------------------------------------------
(* One founder *)

\* What keeps OneFounder: as long as no two hellos have overlapped there is one
\* hello at a time, and if it has found no account, only its own is a founder's.
Founding ==
    /\ founders \subseteq users
    /\ ~rivals => /\ \A t, u \in Workers : InHello(t) /\ InHello(u) => t = u
                  /\ \A t \in Workers : InHello(t) /\ job[t].first => founders \subseteq {job[t].target}
                  /\ \A k, l \in founders : k = l

\* A hello that is under way after a step, other than the first one of a hello,
\* was under way before it.
LEMMA HelloGoesOn ==
    ASSUME Typed, [Next]_vars, NEW t \in Workers, ~HelloList(t), InHello(t)'
    PROVE  InHello(t) /\ job'[t].target = job[t].target /\ job'[t].first = job[t].first
<1> USE RightsAssumption DEF Threads
<1>1. pc \in [Threads -> Labels] /\ job \in [Threads -> Jobs] /\ Fits(pc[t], job[t])
  BY DEF Typed, TypeOK
<1>2. CASE pc'[t] = pc[t] /\ job'[t] = job[t]
  BY <1>2 DEF InHello
<1>3. job'[t].op = "hello" /\ pc'[t] \in {"add", "on", "first", "firstAdd", "firstReplace", "firstStore"}
  BY DEF InHello
<1>4. CASE \E m \in Masks : Command(t, m)
  <2>1. pc'[t] \in {"access", "masterLevel", "channelLevel"}
    <3>1. PICK m, op, l, c, s, x : Dispatch(t, m, op, l, c, s, x)
      BY <1>4 DEF Command
    <3>2. PICK b \in {"access", "masterLevel", "channelLevel"} : Goto(t, b)
      BY <3>1 DEF Dispatch
    <3> QED
      BY <1>1, <3>2 DEF Goto
  <2> QED
    BY <1>3, <2>1
<1>5. CASE Level(t)
  <2>1. pc'[t] \in {"access", "masterLevel", "idle", "list", "check", "out", "modeCheck", "exist",
                    "ask", "channel"}
    BY <1>1, <1>5 DEF Level, ReadChannelLevel, ReadMasterLevel, Access, Entry, Goto, Return
  <2> QED
    BY <1>3, <2>1
<1>6. CASE Session(t)
  <2>1. ~IdentCheck(t) /\ ~Logoff(t)
    BY <1>1, <1>3 DEF IdentCheck, Logoff, Return, Goto, Fits, OpFits
  <2>2. Logon(t) /\ job[t].op = "hello"
    BY <1>1, <1>3, <1>6, <2>1 DEF Session, Logon, Return, Goto
  <2> QED
    BY <1>1, <2>2 DEF Logon, Goto, InHello
<1>7. CASE Hello(t)
  <2>1. ~Return(t)
    BY <1>1, <1>3 DEF Return, Goto
  <2>2. HelloAdd(t) \/ HelloFirst(t) \/ HelloFirstReplace(t)
    BY <1>7, <2>1 DEF Hello, HelloFirstAdd, HelloFirstStore, FirstMaster
  <2>3. UNCHANGED job /\ pc[t] \in {"add", "first", "firstReplace"}
    BY <2>1, <2>2 DEF HelloAdd, HelloFirst, HelloFirstReplace
  <2> QED
    BY <1>1, <2>3 DEF InHello, Fits, OpFits, HelloLabels
<1>8. CASE AccountMode(t)
  <2>1. pc'[t] \in {"idle", "oldMode", "oldMaster", "delMaster", "set", "rights", "replace", "store"}
    BY <1>1, <1>8 DEF AccountMode, ModeCheck, OldMode, OldMaster, DelOldMaster, SetMode,
       ReplaceMode, StoreMode, Modify, Decide, Goto, Return
  <2> QED
    BY <1>3, <2>1
<1>9. CASE ChangeChannel(t) \/ RmAccountExist(t) \/ Crash(t)
  <2>1. pc'[t] \in {"idle", "remove"}
    BY <1>1, <1>9 DEF ChangeChannel, RmAccountExist, Crash, Goto, Return
  <2> QED
    BY <1>3, <2>1
<1>10. CASE KickOrBan(t)
  <2>1. pc'[t] \in {"idle", "caller", "victimRight", "victimMaster", "callerMaster", "kick"}
    BY <1>1, <1>10 DEF KickOrBan, Ask, AskNot, Answer, NoAnswer, CallerMask, VictimRight,
       VictimMaster, CallerMaster, Kick, Goto, Return
  <2> QED
    BY <1>3, <2>1
<1>11. CASE RmAccount(t)
  <2>1. pc'[t] \in {"idle", "rights", "rightsList", "rightsNext", "user", "set"}
    BY <1>1, <1>11 DEF RmAccount, Remove, DelMasterRight, ListChannels, DelChannelRight,
       RightsRemoved, RemoveUser, Goto, Return
  <2> QED
    BY <1>3, <2>1
<1>12. ASSUME NEW w \in Workers, Crash(w)
       PROVE  FALSE
  <2>1. pc'[t] = "idle"
    BY <1>12 DEF Crash
  <2> QED
    BY <1>3, <2>1
<1>13. ASSUME NEW l \in Logins, Sweep(l)
       PROVE  pc'[t] = pc[t] /\ job'[t] = job[t]
  BY <1>1, <1>13 DEF Sweep, Goto
<1>14. ASSUME NEW u \in Threads, u # t, (u \in Workers /\ WorkerStep(u)) \/ RmAccount(u)
       PROVE  pc'[t] = pc[t] /\ job'[t] = job[t]
  BY <1>14, OneThreadMoves
<1>15. CASE UNCHANGED vars
  BY <1>2, <1>15 DEF vars
<1> QED
  BY <1>2, <1>4, <1>5, <1>6, <1>7, <1>8, <1>9, <1>10, <1>11, <1>12, <1>13, <1>14, <1>15, NextCases
     DEF StepCases, WorkerStep

\* What a step does to the founders: nothing, or a hello ends that has found no
\* account, or the account of a founder goes.
LEMMA FoundersChange ==
    ASSUME Typed, [Next]_vars
    PROVE  /\ \/ founders' = founders /\ users \subseteq users'
              \/ \E t \in Workers : /\ InHello(t) /\ job[t].first
                                    /\ founders' = (founders \cup {job[t].target}) \cap users
                                    /\ users' = users
              \/ \E l \in Logins : founders' = founders \ {l} /\ users' = users \ {l}
           /\ \/ rivals' = rivals
              \/ \E t \in Workers : HelloList(t)
<1> USE RightsAssumption DEF Threads
<1>1. ASSUME NEW w \in Workers,
             \/ (\E m \in Masks : Command(w, m)) \/ Level(w) \/ Session(w) \/ AccountMode(w)
             \/ ChangeChannel(w) \/ RmAccountExist(w) \/ KickOrBan(w) \/ Crash(w)
      PROVE  UNCHANGED <<founders, users, rivals>>
  <2>1. CASE \E m \in Masks : Command(w, m)
    <3>1. PICK m, op, l, c, s, x : Dispatch(w, m, op, l, c, s, x)
      BY <2>1 DEF Command
    <3> QED
      BY <3>1 DEF Dispatch, history
  <2>2. CASE Level(w) \/ Session(w)
    BY <2>2 DEF Level, ReadChannelLevel, ReadMasterLevel, Access, Session, IdentCheck, Logon,
       Logoff, history
  <2>3. CASE AccountMode(w)
    BY <2>3 DEF AccountMode, ModeCheck, OldMode, OldMaster, DelOldMaster, SetMode, ReplaceMode,
       StoreMode, history
  <2>4. CASE ChangeChannel(w) \/ RmAccountExist(w) \/ Crash(w)
    BY <2>4 DEF ChangeChannel, RmAccountExist, Crash, history
  <2>5. CASE KickOrBan(w)
    BY <2>5 DEF KickOrBan, Ask, AskNot, Answer, NoAnswer, CallerMask, VictimRight, VictimMaster,
       CallerMaster, Kick, history
  <2> QED
    BY <1>1, <2>1, <2>2, <2>3, <2>4, <2>5
<1>2. ASSUME NEW w \in Workers, Hello(w)
      PROVE  /\ \/ founders' = founders /\ users \subseteq users'
                \/ /\ InHello(w) /\ job[w].first
                   /\ founders' = (founders \cup {job[w].target}) \cap users
                   /\ users' = users
             /\ rivals' = rivals \/ HelloList(w)
  <2>1. CASE HelloList(w) \/ HelloAdd(w) \/ HelloFirst(w) \/ HelloFirstReplace(w)
    BY <2>1 DEF HelloList, HelloAdd, HelloFirst, HelloFirstReplace, history
  <2>2. CASE pc[w] \in {"firstAdd", "firstStore"} /\ FirstMaster(w)
    <3>1. Fits(pc[w], job[w])
      BY DEF Typed
    <3>2. InHello(w) /\ job[w].first
      BY <2>2, <3>1 DEF Fits, OpFits, LevelFits, HelloLabels, InHello
    <3> QED
      BY <2>2, <3>2 DEF FirstMaster
  <2>3. CASE HelloFirstAdd(w) /\ ~FirstMaster(w)
    BY <2>3 DEF HelloFirstAdd, history
  <2> QED
    BY <1>2, <2>1, <2>2, <2>3 DEF Hello, HelloFirstAdd, HelloFirstStore
<1>3. ASSUME NEW t \in Threads, RmAccount(t)
      PROVE  /\ \/ founders' = founders /\ users' = users
                \/ \E l \in Logins : founders' = founders \ {l} /\ users' = users \ {l}
             /\ rivals' = rivals
  <2>1. CASE RemoveUser(t)
    <3>1. job[t].target \in Logins
      BY <2>1 DEF RemoveUser, Typed, Fits, OpFits, ArgumentsFit
    <3> QED
      BY <2>1, <3>1 DEF RemoveUser
  <2>2. CASE ~RemoveUser(t)
    BY <1>3, <2>2 DEF RmAccount, Remove, DelMasterRight, ListChannels, DelChannelRight,
       RightsRemoved, history
  <2> QED
    BY <2>1, <2>2
<1>4. ASSUME NEW l \in Logins, Sweep(l)
      PROVE  UNCHANGED <<founders, users, rivals>>
  BY <1>4 DEF Sweep, history
<1>5. CASE UNCHANGED vars
  BY <1>5 DEF vars, history
<1> QED
  BY <1>1, <1>2, <1>3, <1>4, <1>5, NextCases DEF StepCases

\* A step keeps it.
LEMMA FoundingStep == Typed /\ Founding /\ [Next]_vars => Founding'
<1> SUFFICES ASSUME Typed, Founding, [Next]_vars PROVE Founding'
  OBVIOUS
<1> USE RightsAssumption DEF Threads
<1>1. founders' \subseteq users'
  BY FoundersChange DEF Founding
<1>2. CASE \E t \in Workers : HelloList(t)
  <2>1. PICK w \in Workers : HelloList(w)
    BY <1>2
  <2>2. UNCHANGED <<founders, users>>
    BY <2>1 DEF HelloList
  <2>4. \A t \in Workers : t # w =>
          (InHello(t)' <=> InHello(t)) /\ job'[t] = job[t]
    BY <2>1, OneThreadMoves DEF WorkerStep, Hello, InHello
  <2>5. CASE rivals'
    BY <1>1, <2>5 DEF Founding
  <2>6. CASE ~rivals' /\ Return(w)
    <3>1. ~rivals /\ ~InHello(w)'
      BY <2>1, <2>6 DEF HelloList, Return, Goto, Typed, TypeOK, InHello
    <3> QED
      BY <1>1, <2>2, <2>4, <3>1 DEF Founding
  <2>7. CASE ~rivals' /\ ~Return(w)
    <3>1. ~rivals /\ \A t \in Workers : ~InHello(t)
      BY <2>1, <2>7 DEF HelloList
    <3>2. job'[w].first => users = {}
      <4>1. job[w] \in Jobs /\ job \in [Threads -> Jobs]
        BY DEF Typed, TypeOK
      <4>2. job' = [job EXCEPT ![w].target = NickOf[job[w].mask], ![w].first = (users = {})]
        BY <2>1, <2>7 DEF HelloList
      <4> QED
        BY <4>1, <4>2 DEF Jobs
    <3>3. job'[w].first => founders' = {}
      BY <2>2, <3>2 DEF Founding
    <3>4. \A t \in Workers : InHello(t)' => t = w
      BY <2>4, <3>1
    <3> QED
      BY <1>1, <2>2, <3>1, <3>3, <3>4 DEF Founding
  <2> QED
    BY <2>5, <2>6, <2>7
<1>3. CASE ~\E t \in Workers : HelloList(t)
  <2>1. rivals' = rivals
    BY <1>3, FoundersChange
  <2>2. \A t \in Workers : InHello(t)' => /\ InHello(t) /\ job'[t].target = job[t].target
                                          /\ job'[t].first = job[t].first
    BY <1>3, HelloGoesOn
  <2>3. CASE rivals
    BY <1>1, <2>1, <2>3 DEF Founding
  <2>4. CASE ~rivals
    <3>1. CASE founders' \subseteq founders
      BY <1>1, <2>1, <2>2, <2>4, <3>1 DEF Founding
    <3>2. CASE \E t \in Workers : /\ InHello(t) /\ job[t].first
                                  /\ founders' = (founders \cup {job[t].target}) \cap users
      <4>1. PICK t \in Workers : /\ InHello(t) /\ job[t].first
                                 /\ founders' = (founders \cup {job[t].target}) \cap users
        BY <3>2
      <4>2. founders' \subseteq {job[t].target}
        BY <2>4, <4>1 DEF Founding
      <4>3. \A u \in Workers : InHello(u)' => u = t /\ job'[u].target = job[t].target
        BY <2>2, <2>4, <4>1 DEF Founding
      <4> QED
        BY <1>1, <4>2, <4>3 DEF Founding
    <3> QED
      BY <3>1, <3>2, FoundersChange
  <2> QED
    BY <2>3, <2>4
<1> QED
  BY <1>2, <1>3

\* There is one account at a time that its hello has made a master, unless two
\* hellos have overlapped: the second account does not become one because the
\* first has been found on the list.
THEOREM TheFirstIsMaster == Spec => []OneFounder
<1>1. Init => Founding
  BY DEF Init, Founding, InHello, Threads
<1>2. Founding => OneFounder
  <2> SUFFICES ASSUME Founding, ~rivals PROVE Cardinality(founders) <= 1
    BY DEF OneFounder
  <2>1. CASE founders = {}
    BY <2>1, FS_EmptySet
  <2>2. CASE founders # {}
    <3>1. PICK l \in founders : founders = {l}
      BY <2>2 DEF Founding
    <3> QED
      BY <3>1, FS_Singleton
  <2> QED
    BY <2>1, <2>2
<1> QED
  BY <1>1, <1>2, FoundingStep, TypesHold, PTL DEF Spec

-----------------------------------------------------------------------------
(* No rights without an account *)

\* What an account removal has done so far.
Removed(t) ==
    LET l == job[t].target
    IN IsRemoval(job[t]) =>
         /\ pc[t] \in {"rightsList", "rightsNext", "user"} => master[l] = None
         /\ pc[t] = "rightsNext" => \A c \in Channels \ job[t].rest : right[l][c] = None
         /\ pc[t] = "user" => \A c \in Channels : right[l][c] = None

\* What keeps RightsHaveAccounts: rights are for listed channels, and a removal
\* leaves behind it what it has deleted.
NoneLeft ==
    /\ RightsHaveAccounts
    /\ \A l \in Logins \ excused, c \in Channels : right[l][c] # None => c \in channels
    /\ \A t \in Threads : job[t].target \notin excused => Removed(t)

\* A step that writes no right but only deletes keeps it, if the thread that takes
\* it has removed what it should have.
LEMMA DeletingKeeps ==
    ASSUME Typed, Typed', NoneLeft, users \subseteq users', channels \subseteq channels',
           excused \subseteq excused',
           \A l \in Logins \ excused' : master'[l] \in {master[l], None},
           \A l \in Logins \ excused', c \in Channels : right'[l][c] \in {right[l][c], None},
           \A t \in Threads : \/ pc'[t] = pc[t] /\ job'[t] = job[t]
                              \/ pc'[t] \notin {"rightsList", "rightsNext", "user"}
                              \/ job'[t].target \notin excused' => Removed(t)'
    PROVE  NoneLeft'
<1> USE DEF NoneLeft
<1>1. RightsHaveAccounts'
  BY DEF RightsHaveAccounts
<1>2. \A l \in Logins \ excused', c \in Channels : right'[l][c] # None => c \in channels'
  OBVIOUS
<1>3. ASSUME NEW t \in Threads, job'[t].target \notin excused'
      PROVE  Removed(t)'
  <2>1. CASE pc'[t] \notin {"rightsList", "rightsNext", "user"}
    BY <2>1 DEF Removed
  <2>2. CASE /\ pc'[t] \in {"rightsList", "rightsNext", "user"}
             /\ pc'[t] = pc[t] /\ job'[t] = job[t]
    <3>1. IsRemoval(job[t]) => job[t].target \in Logins
      BY <2>2 DEF IsRemoval, Typed, Fits, ArgumentsFit
    <3>2. Removed(t)
      BY <1>3, <2>2
    <3> QED
      BY <1>3, <2>2, <3>1, <3>2 DEF Removed, IsRemoval
  <2>3. CASE Removed(t)'
    BY <2>3
  <2> QED
    BY <1>3, <2>1, <2>2, <2>3
<1> QED
  BY <1>1, <1>2, <1>3

\* A right that is written is either excused or of an account and a listed
\* channel, while nobody removes the account.
LEMMA WritingKeeps ==
    ASSUME Typed, Typed', NoneLeft, NEW w \in Workers, Return(w),
           NEW l \in Logins, NEW c \in Channels \cup {None}, Excuse(l, c),
           users' = users, channels' = channels,
           \A k \in Logins \ {l} : master'[k] = master[k],
           \A k \in Logins, d \in Channels : k # l \/ d # c => right'[k][d] = right[k][d]
    PROVE  NoneLeft'
<1> USE RightsAssumption DEF Threads
<1>1. excused \subseteq excused'
  BY DEF Excuse
<1>2. \A t \in Threads : \/ pc'[t] = pc[t] /\ job'[t] = job[t]
                         \/ pc'[t] = "idle"
  BY DEF Return, Goto, Typed, TypeOK
<1>3. CASE l \in excused'
  <2>1. \A k \in Logins \ excused' : master'[k] = master[k]
    BY <1>3
  <2>2. \A k \in Logins \ excused', d \in Channels : right'[k][d] = right[k][d]
    BY <1>3
  <2> QED
    BY <1>1, <1>2, <2>1, <2>2, DeletingKeeps
<1>4. CASE l \notin excused'
  <2>1. ~Late(l, c) /\ excused' = excused
    BY <1>4 DEF Excuse
  <2>2. /\ l \in users /\ (c # None => c \in channels)
        /\ \A t \in Threads : ~(IsRemoval(job[t]) /\ job[t].target = l /\ pc[t] \in Removing)
    BY <2>1 DEF Late
  <2>3. RightsHaveAccounts'
    BY <2>1, <2>2 DEF NoneLeft, RightsHaveAccounts
  <2>4. \A k \in Logins \ excused', d \in Channels : right'[k][d] # None => d \in channels'
    BY <2>1, <2>2 DEF NoneLeft
  <2>5. ASSUME NEW t \in Threads, job'[t].target \notin excused'
        PROVE  Removed(t)'
    <3>1. CASE pc'[t] = "idle"
      BY <3>1 DEF Removed
    <3>2. CASE /\ pc'[t] = pc[t] /\ job'[t] = job[t] /\ IsRemoval(job[t])
               /\ pc[t] \in {"rightsList", "rightsNext", "user"}
      <4>1. job[t].target \in Logins \ {l}
        BY <2>2, <3>2 DEF Removing, IsRemoval, Typed, Fits, ArgumentsFit
      <4>2. Removed(t)
        BY <2>1, <2>5, <3>2 DEF NoneLeft
      <4> QED
        BY <3>2, <4>1, <4>2 DEF Removed, IsRemoval
    <3>3. CASE /\ pc'[t] = pc[t] /\ job'[t] = job[t]
               /\ ~(IsRemoval(job[t]) /\ pc[t] \in {"rightsList", "rightsNext", "user"})
      BY <3>3 DEF Removed
    <3> QED
      BY <1>2, <3>1, <3>2, <3>3
  <2> QED
    BY <2>3, <2>4, <2>5 DEF NoneLeft
<1> QED
  BY <1>3, <1>4

\* No worker step but those of rmAccount takes a thread to where rights have been
\* removed.
LEMMA NotRemoving ==
    ASSUME Typed, NEW w \in Workers, WorkerStep(w)
    PROVE  \A t \in Threads : \/ pc'[t] = pc[t] /\ job'[t] = job[t]
                              \/ pc'[t] \notin {"rightsList", "rightsNext", "user"}
<1> USE RightsAssumption DEF Threads
<1>1. pc \in [Threads -> Labels] /\ job \in [Threads -> Jobs]
  BY DEF Typed, TypeOK
<1>2. ASSUME NEW b, b \notin {"rightsList", "rightsNext", "user"}, Goto(w, b)
      PROVE  pc'[w] \notin {"rightsList", "rightsNext", "user"}
  BY <1>1, <1>2 DEF Goto
<1>3. CASE Return(w)
  BY <1>2, <1>3, OneThreadMoves DEF Return
<1>4. CASE \E b : b \notin {"rightsList", "rightsNext", "user"} /\ Goto(w, b)
  BY <1>2, <1>4, OneThreadMoves
<1>5. CASE UNCHANGED <<pc, job>>
  BY <1>5
<1>6. CASE \E m \in Masks : Command(w, m)
  <2>1. PICK m, op, l, c, s, x : Dispatch(w, m, op, l, c, s, x)
    BY <1>6 DEF Command
  <2>2. PICK b \in {"access", "masterLevel", "channelLevel"} : Goto(w, b)
    BY <2>1 DEF Dispatch
  <2> QED
    BY <1>4, <2>2
<1>7. CASE Level(w)
  <2>1. Entry(job[w].op) \notin {"rightsList", "rightsNext", "user"}
    BY DEF Entry
  <2> QED
    BY <1>3, <1>4, <1>7, <2>1 DEF Level, ReadChannelLevel, ReadMasterLevel, Access
<1>8. CASE Session(w)
  BY <1>3, <1>4, <1>8 DEF Session, IdentCheck, Logon, Logoff
<1>9. CASE Hello(w)
  BY <1>3, <1>4, <1>9 DEF Hello, HelloList, HelloAdd, HelloFirst, HelloFirstAdd,
     HelloFirstReplace, HelloFirstStore, FirstMaster
<1>10. CASE AccountMode(w)
  <2>1. ASSUME NEW old, Modify(w, old)
        PROVE  \E b \in {"delMaster", "set", "rights"} : Goto(w, b)
    BY <2>1 DEF Modify, Decide
  <2> QED
    BY <1>3, <1>4, <1>10, <2>1 DEF AccountMode, ModeCheck, OldMode, OldMaster, DelOldMaster,
       SetMode, ReplaceMode, StoreMode
<1>11. CASE ChangeChannel(w) \/ RmAccountExist(w)
  BY <1>3, <1>4, <1>11 DEF ChangeChannel, RmAccountExist
<1>12. CASE KickOrBan(w)
  BY <1>3, <1>4, <1>5, <1>12 DEF KickOrBan, Ask, AskNot, Answer, NoAnswer, CallerMask,
     VictimRight, VictimMaster, CallerMaster, Kick
<1> QED
  BY <1>6, <1>7, <1>8, <1>9, <1>10, <1>11, <1>12 DEF WorkerStep

\* What the workers do to the rights, apart from rmAccessRights.
LEMMA WorkersKeepNoneLeft ==
    ASSUME Typed, Typed', NoneLeft, NEW w \in Workers, WorkerStep(w)
    PROVE  NoneLeft'
<1> USE RightsAssumption DEF Threads
<1>1. job[w] \in Jobs /\ Fits(pc[w], job[w]) /\ pc \in [Threads -> Labels]
  BY DEF Typed, TypeOK
<1>2. CASE UNCHANGED <<master, right, excused>> /\ users \subseteq users' /\ channels \subseteq channels'
  BY <1>2, NotRemoving, DeletingKeeps
<1>3. CASE \E m \in Masks : Command(w, m)
  <2>1. PICK m, op, l, c, s, x : Dispatch(w, m, op, l, c, s, x)
    BY <1>3 DEF Command
  <2> QED
    BY <1>2, <2>1 DEF Dispatch, access, history
<1>4. CASE Level(w) \/ Session(w)
  BY <1>2, <1>4 DEF Level, ReadChannelLevel, ReadMasterLevel, Access, Session, IdentCheck, Logon,
     Logoff, access, history
<1>5. CASE FirstMaster(w) /\ pc[w] \in {"firstAdd", "firstStore"}
  <2>1. job[w].target \in Logins
    BY <1>1, <1>5 DEF Fits, ArgumentsFit
  <2>2. /\ Return(w) /\ Excuse(job[w].target, None)
        /\ UNCHANGED <<users, channels, right>>
        /\ \A k \in Logins \ {job[w].target} : master'[k] = master[k]
    BY <1>5 DEF FirstMaster, Typed, TypeOK
  <2> QED
    BY <2>1, <2>2, WritingKeeps
<1>6. CASE Hello(w)
  BY <1>2, <1>5, <1>6 DEF Hello, HelloList, HelloAdd, HelloFirst, HelloFirstAdd,
     HelloFirstReplace, HelloFirstStore, access, history
<1>7. ASSUME pc[w] \in {"set", "store"}, NEW v, Write(job[w], v)
      PROVE  /\ job[w].target \in Logins /\ Depends(job[w]) \in Channels \cup {None}
             /\ \A k \in Logins \ {job[w].target} : master'[k] = master[k]
             /\ \A k \in Logins, d \in Channels :
                   k # job[w].target \/ d # Depends(job[w]) => right'[k][d] = right[k][d]
             /\ \A k \in Logins : master'[k] \in {master[k], v}
             /\ \A k \in Logins, d \in Channels : right'[k][d] \in {right[k][d], v}
  <2>1. job[w].target \in Logins /\ job[w].chan \in Channels
    BY <1>1, <1>7 DEF Fits, OpFits, ArgumentsFit, ModeLabels
  <2>2. master \in [Logins -> MasterValues \cup {None}]
        /\ right \in [Logins -> [Channels -> ChannelValues \cup {None}]]
    BY DEF Typed, TypeOK
  <2>3. CASE job[w].letter = "m"
    BY <1>7, <2>1, <2>2, <2>3 DEF Write, Depends
  <2>4. CASE job[w].letter # "m"
    BY <1>7, <2>1, <2>2, <2>4 DEF Write, Depends
  <2> QED
    BY <2>3, <2>4
<1>8. CASE /\ pc[w] \in {"set", "store"} /\ Write(job[w], Value(job[w]))
           /\ Return(w) /\ Excuse(job[w].target, Depends(job[w]))
           /\ UNCHANGED <<users, channels>>
  BY <1>7, <1>8, WritingKeeps
<1>9. CASE /\ pc[w] = "set" /\ Write(job[w], None)
           /\ UNCHANGED <<users, channels, excused>>
  BY <1>7, <1>9, NotRemoving, DeletingKeeps
<1>10. CASE DelOldMaster(w)
  <2>1. /\ \A l \in Logins : master'[l] \in {master[l], None}
        /\ UNCHANGED <<users, channels, right, excused>>
    BY <1>10 DEF DelOldMaster, history, Typed, TypeOK
  <2> QED
    BY <2>1, NotRemoving, DeletingKeeps
<1>11. CASE AccountMode(w)
  BY <1>2, <1>8, <1>9, <1>10, <1>11 DEF AccountMode, ModeCheck, OldMode, OldMaster, SetMode,
     ReplaceMode, StoreMode, access, history
<1>12. CASE ChangeChannel(w)
  <2>1. CASE job[w].op = "addchannel"
    BY <1>2, <1>12, <2>1 DEF ChangeChannel, access
  <2>2. CASE job[w].op # "addchannel"
    <3> DEFINE c == job[w].chan
    <3>1. /\ channels' = channels \ {c} /\ Return(w)
          /\ excused' = excused \cup {l \in Logins : right[l][c] # None}
          /\ UNCHANGED <<users, master, right>>
      BY <1>12, <2>2 DEF ChangeChannel, access
    <3>2. RightsHaveAccounts'
      BY <3>1 DEF NoneLeft, RightsHaveAccounts
    <3>3. \A l \in Logins \ excused', d \in Channels : right'[l][d] # None => d \in channels'
      BY <3>1 DEF NoneLeft
    <3>4. ASSUME NEW t \in Threads, job'[t].target \notin excused'
          PROVE  Removed(t)'
      <4>1. CASE pc'[t] \notin {"rightsList", "rightsNext", "user"}
        BY <4>1 DEF Removed
      <4>2. CASE pc'[t] = pc[t] /\ job'[t] = job[t]
        <5>1. Removed(t)
          BY <3>1, <3>4, <4>2 DEF NoneLeft
        <5> QED
          BY <3>1, <4>2, <5>1 DEF Removed, IsRemoval
      <4> QED
        BY <4>1, <4>2, NotRemoving
    <3> QED
      BY <3>2, <3>3, <3>4 DEF NoneLeft
  <2> QED
    BY <2>1, <2>2
<1>13. CASE RmAccountExist(w) \/ KickOrBan(w)
  BY <1>2, <1>13 DEF RmAccountExist, KickOrBan, Ask, AskNot, Answer, NoAnswer, CallerMask,
     VictimRight, VictimMaster, CallerMaster, Kick, access, history
<1> QED
  BY <1>3, <1>4, <1>6, <1>11, <1>12, <1>13 DEF WorkerStep

\* What rmAccount and rmAccessRights do to them.
LEMMA RmAccountKeepsNoneLeft ==
    ASSUME Typed, Typed', NoneLeft, NEW t \in Threads, RmAccount(t)
    PROVE  NoneLeft'
<1> DEFINE l == job[t].target
<1>1. job[t] \in Jobs /\ Fits(pc[t], job[t]) /\ pc \in [Threads -> Labels]
      /\ job \in [Threads -> Jobs] /\ master \in [Logins -> MasterValues \cup {None}]
      /\ right \in [Logins -> [Channels -> ChannelValues \cup {None}]]
  BY DEF Typed, TypeOK
<1>2. \A u \in Threads \ {t} : pc'[u] = pc[u] /\ job'[u] = job[u]
  BY OneThreadMoves
<1>3. l \notin excused => Removed(t)
  BY DEF NoneLeft
<1>4. CASE Remove(t)
  <2>1. pc'[t] = "rights" /\ UNCHANGED <<users, channels, master, right, excused>>
    BY <1>1, <1>4 DEF Remove, Goto, access, history
  <2> QED
    BY <1>2, <2>1, DeletingKeeps
<1>5. CASE DelMasterRight(t)
  <2>1. /\ pc[t] = "rights" /\ pc'[t] = "rightsList"
        /\ UNCHANGED <<users, channels, right, excused, job>>
        /\ master' = [master EXCEPT ![l] = None]
    BY <1>1, <1>5 DEF DelMasterRight, Goto, history
  <2>2. l \in Logins
    BY <1>1, <2>1 DEF Fits, OpFits, ArgumentsFit, RightsLabels
  <2>3. Removed(t)'
    BY <1>1, <2>1, <2>2 DEF Removed
  <2> QED
    BY <1>1, <1>2, <2>1, <2>3, DeletingKeeps
<1>6. CASE ListChannels(t)
  <2>1. /\ pc[t] = "rightsList" /\ pc'[t] = "rightsNext"
        /\ UNCHANGED <<users, channels, master, right, excused>>
    BY <1>1, <1>6 DEF ListChannels, Goto, access, history
  <2>2. job'[t].rest = channels /\ job'[t].op = job[t].op /\ job'[t].target = l
    BY <1>1, <1>6 DEF ListChannels, Jobs
  <2>3. IsRemoval(job[t]) => l \in Logins
    BY <1>1, <2>1 DEF Fits, ArgumentsFit, IsRemoval
  <2>4. job'[t].target \notin excused' => Removed(t)'
    BY <1>3, <2>1, <2>2, <2>3 DEF Removed, IsRemoval, NoneLeft
  <2> QED
    BY <1>2, <2>1, <2>4, DeletingKeeps
<1>7. ASSUME NEW c \in Channels, DelChannelRight(t, c)
      PROVE  NoneLeft'
  <2>1. /\ pc[t] = "rightsNext" /\ pc' = pc
        /\ UNCHANGED <<users, channels, master, excused>>
        /\ right' = [right EXCEPT ![l][c] = None]
    BY <1>7 DEF DelChannelRight, history
  <2>2. job'[t].rest = job[t].rest \ {c} /\ job'[t].op = job[t].op /\ job'[t].target = l
    BY <1>1, <1>7 DEF DelChannelRight, Jobs
  <2>3. l \in Logins
    BY <1>1, <2>1 DEF Fits, OpFits, ArgumentsFit, RightsLabels
  <2>4. /\ right'[l][c] = None
        /\ \A k \in Logins, d \in Channels : right'[k][d] \in {right[k][d], None}
    BY <1>1, <2>1, <2>3
  <2>5. job'[t].target \notin excused' => Removed(t)'
    BY <1>3, <2>1, <2>2, <2>3, <2>4 DEF Removed, IsRemoval
  <2> QED
    BY <1>2, <2>1, <2>4, <2>5, DeletingKeeps
<1>8. CASE RightsRemoved(t)
  <2>1. /\ pc[t] = "rightsNext" /\ job[t].rest = {}
        /\ pc'[t] = IF IsRemoval(job[t]) THEN "user" ELSE "set"
        /\ UNCHANGED <<users, channels, master, right, excused, job>>
    BY <1>1, <1>8 DEF RightsRemoved, Goto, access, history
  <2>2. job'[t].target \notin excused' => Removed(t)'
    BY <1>3, <2>1 DEF Removed, IsRemoval
  <2> QED
    BY <1>2, <2>1, <2>2, DeletingKeeps
<1>9. CASE RemoveUser(t)
  <2>1. /\ pc[t] = "user" /\ pc'[t] = "idle" /\ users' = users \ {l}
        /\ UNCHANGED <<channels, master, right, excused>>
    BY <1>1, <1>9 DEF RemoveUser, Return, Goto, access
  <2>2. IsRemoval(job[t])
    BY <1>1, <2>1 DEF Fits, OpFits, IsRemoval
  <2>3. l \notin excused => master[l] = None /\ \A c \in Channels : right[l][c] = None
    BY <1>3, <2>1, <2>2 DEF Removed
  <2>4. RightsHaveAccounts'
    BY <2>1, <2>3 DEF NoneLeft, RightsHaveAccounts
  <2>5. \A u \in Threads : job'[u].target \notin excused' => Removed(u)'
    BY <1>2, <2>1 DEF NoneLeft, Removed, IsRemoval
  <2> QED
    BY <2>1, <2>4, <2>5 DEF NoneLeft
<1> QED
  BY <1>4, <1>5, <1>6, <1>7, <1>8, <1>9 DEF RmAccount

\* An account that does not exist has no rights, so that nobody inherits them who
\* creates it: for every account of which no right was on a channel that was
\* removed, and for which none was written once its removal had begun.
THEOREM NoRightsWithoutAccount == Spec => []RightsHaveAccounts
<1>1. Init => NoneLeft
  <2> SUFFICES ASSUME Init PROVE NoneLeft
    OBVIOUS
  <2>1. RightsHaveAccounts
    BY DEF Init, RightsHaveAccounts
  <2>2. \A l \in Logins, c \in Channels : right[l][c] # None => c \in channels
    BY DEF Init
  <2>3. \A t \in Threads : Removed(t)
    BY DEF Init, Removed
  <2> QED
    BY <2>1, <2>2, <2>3 DEF NoneLeft
<1>2. ASSUME Typed, Typed', NoneLeft, [Next]_vars
      PROVE  NoneLeft'
  <2> USE RightsAssumption DEF Threads
  <2>1. ASSUME NEW w \in Workers, Crash(w)
        PROVE  NoneLeft'
    <3>1. /\ \A t \in Threads : pc'[t] = "idle"
          /\ UNCHANGED <<users, channels, master, right, excused>>
      BY <2>1 DEF Crash, access, history
    <3> QED
      BY <1>2, <3>1, DeletingKeeps
  <2>2. ASSUME NEW l \in Logins, Sweep(l)
        PROVE  NoneLeft'
    <3>1. pc'[Timer] = "remove" /\ \A w \in Workers : pc'[w] = pc[w] /\ job'[w] = job[w]
      BY <1>2, <2>2 DEF Sweep, Goto, Typed, TypeOK
    <3>2. UNCHANGED <<users, channels, master, right, excused>>
      BY <2>2 DEF Sweep, access, history
    <3> QED
      BY <1>2, <3>1, <3>2, DeletingKeeps
  <2>3. CASE UNCHANGED vars
    BY <1>2, <2>3, DeletingKeeps DEF vars, access, history
  <2> QED
    BY <1>2, <2>1, <2>2, <2>3, NextCases, WorkersKeepNoneLeft, RmAccountKeepsNoneLeft
       DEF StepCases, WorkerStep
<1>3. NoneLeft => RightsHaveAccounts
  BY DEF NoneLeft
<1> QED
  BY <1>1, <1>2, <1>3, TypesHold, PTL DEF Spec
=============================================================================
