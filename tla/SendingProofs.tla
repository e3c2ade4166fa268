---------------------------- MODULE SendingProofs ----------------------------
(***************************************************************************)
(* Proofs about Sending for any number of execution threads, lines and     *)
(* signals, at whatever place of whatever thread the signals come.         *)
(***************************************************************************)
EXTENDS Sending, SequenceTheorems, TLAPS

\* A stack: at its bottom where the thread is in its own code, above that only
\* labels of SendLine and of stopParser.
Upper == SendLabels \cup HandlerLabels
MainLabels == {"reset", "create", "loop", "recv", "join", "destroy"}
Bottoms(t) == IF t = Main THEN MainLabels ELSE {"work"}
Shape(t, s) == s # <<>> => /\ s[Len(s)] \in Bottoms(t)
                           /\ \A i \in 1..(Len(s) - 1) : s[i] \in Upper

\* The two labels between lock and unlock.
Inside == {"send", "unlock"}

\* What a step does to a stack.
LEMMA ReplaceHead ==
    ASSUME NEW s \in Seq(Labels), s # <<>>, NEW ls \in Seq(Labels)
    PROVE  /\ ls \o Tail(s) \in Seq(Labels)
           /\ Len(ls \o Tail(s)) = Len(ls) + Len(s) - 1
           /\ \A i \in 1..Len(ls) : (ls \o Tail(s))[i] = ls[i]
           /\ \A i \in (Len(ls) + 1)..(Len(ls) + Len(s) - 1) :
                 (ls \o Tail(s))[i] = s[i - Len(ls) + 1]
<1>1. Tail(s) \in Seq(Labels) /\ Len(Tail(s)) = Len(s) - 1
  OBVIOUS
<1>2. \A i \in 1..(Len(s) - 1) : Tail(s)[i] = s[i + 1]
  OBVIOUS
<1>3. ls \o Tail(s) \in Seq(Labels) /\ Len(ls \o Tail(s)) = Len(ls) + Len(s) - 1
  BY <1>1
<1>4. \A i \in 1..Len(ls) : (ls \o Tail(s))[i] = ls[i]
  BY <1>1
<1>5. ASSUME NEW i \in (Len(ls) + 1)..(Len(ls) + Len(s) - 1)
      PROVE  (ls \o Tail(s))[i] = s[i - Len(ls) + 1]
  <2>1. (ls \o Tail(s))[i] = Tail(s)[i - Len(ls)]
    BY <1>1
  <2>2. i - Len(ls) \in 1..(Len(s) - 1)
    OBVIOUS
  <2> QED
    BY <1>2, <2>1, <2>2
<1> QED
  BY <1>3, <1>4, <1>5

\* A thread whose innermost label is its own has nothing above it.
LEMMA OwnCode ==
    ASSUME NEW t \in Threads, NEW s \in Seq(Labels), Shape(t, s), s # <<>>, Head(s) \notin Upper
    PROVE  Len(s) = 1 /\ s = <<Head(s)>> /\ \A ls \in Seq(Labels) : ls \o Tail(s) = ls
<1>1. Len(s) \in Nat \ {0} /\ Head(s) = s[1]
  BY EmptySeq
<1>2. Len(s) = 1
  <2>1. s[1] \notin Upper
    BY <1>1
  <2>2. \A i \in 1..(Len(s) - 1) : s[i] \in Upper
    BY DEF Shape
  <2>3. 1 \notin 1..(Len(s) - 1)
    BY <2>1, <2>2
  <2>4. Len(s) \in Nat /\ Len(s) # 0
    BY <1>1
  <2>5. \A n \in Nat : n # 0 /\ 1 \notin 1..(n - 1) => n = 1
    OBVIOUS
  <2> QED
    BY <2>3, <2>4, <2>5
<1>3. Tail(s) = <<>>
  <2>1. Tail(s) \in Seq(Labels) /\ Len(Tail(s)) = 0
    BY <1>2, HeadTailProperties
  <2> QED
    BY <2>1, EmptySeq
<1>4. s = <<Head(s)>>
  <2>1. <<Head(s)>> \in Seq(Labels) /\ Len(<<Head(s)>>) = 1 /\ <<Head(s)>>[1] = Head(s)
    BY HeadTailProperties
  <2> QED
    BY <1>1, <1>2, <2>1, SeqEqual
<1>5. \A ls \in Seq(Labels) : ls \o Tail(s) = ls
  BY <1>3, ConcatEmptySeq
<1> QED
  BY <1>2, <1>4, <1>5

\* SendLine and stopParser leave what they have interrupted as it is.
LEMMA UpperStep ==
    ASSUME NEW t \in Threads, NEW s \in Seq(Labels), Shape(t, s), s # <<>>, Head(s) \in Upper,
           NEW ls \in Seq(Labels), \A i \in 1..Len(ls) : ls[i] \in Upper
    PROVE  LET r == ls \o Tail(s)
           IN Shape(t, r) /\ r # <<>> /\ r[Len(r)] = s[Len(s)]
<1> DEFINE r == ls \o Tail(s)
<1>1. Len(s) > 1
  <2>1. \A b \in Bottoms(t) : b \notin Upper
    BY DEF Bottoms, MainLabels, Upper, SendLabels, HandlerLabels
  <2> QED
    BY <2>1 DEF Shape
<1>2. /\ r \in Seq(Labels) /\ Len(r) = Len(ls) + Len(s) - 1
      /\ \A i \in 1..Len(ls) : r[i] = ls[i]
      /\ \A i \in (Len(ls) + 1)..(Len(ls) + Len(s) - 1) : r[i] = s[i - Len(ls) + 1]
  BY ReplaceHead
<1> HIDE DEF r
<1>3. r # <<>> /\ r[Len(r)] = s[Len(s)]
  BY <1>1, <1>2
<1>4. ASSUME NEW i \in 1..(Len(r) - 1)
      PROVE  r[i] \in Upper
  <2>1. CASE i <= Len(ls)
    BY <1>2, <2>1
  <2>2. CASE i > Len(ls)
    <3>1. i - Len(ls) + 1 \in 1..(Len(s) - 1) /\ r[i] = s[i - Len(ls) + 1]
      BY <1>1, <1>2, <2>2
    <3> QED
      BY <3>1 DEF Shape
  <2> QED
    BY <2>1, <2>2
<1> QED
  BY <1>3, <1>4 DEF Shape, r

-----------------------------------------------------------------------------
(* The invariant *)

\* The variables but the stacks have their types.
Plain == /\ owner \in Threads \cup {None, "destroyed"}
         /\ stop \in BOOLEAN
         /\ link \in {"up", "quit", "down"}
         /\ lines \in 0..MaxLines
         /\ signals \in 0..MaxSignals

\* The stacks are stacks.
Shapes == /\ stack \in [Threads -> Seq(Labels)]
          /\ \A t \in Threads : Shape(t, stack[t])

\* Behind the join only the detached thread runs beside the main thread, and when
\* the mutex is destroyed that one has ended too.
MainGone(s) == s = <<>> \/ s[Len(s)] = "destroy"
Phases == /\ MainGone(stack[Main]) => \A t \in Joined : stack[t] = <<>>
          /\ owner = "destroyed" => stack[Main] = <<>>

\* Who is between lock and unlock owns the mutex, and is there once, also when a
\* handler has interrupted him.
Exclusive ==
    \A t \in Threads : \A i \in 1..Len(stack[t]) :
        stack[t][i] \in Inside =>
            \/ owner = "destroyed"
            \/ owner = t /\ \A j \in 1..Len(stack[t]) : stack[t][j] \in Inside => j = i

SendingInv == Plain /\ Shapes /\ Phases /\ Exclusive

\* It holds when the main thread has installed the handlers.
LEMMA InvInit == Init => SendingInv
<1> SUFFICES ASSUME Init PROVE SendingInv
  OBVIOUS
<1> USE SendingAssumption DEF Init
<1>1. Main \in Threads /\ Main \notin Joined
  BY DEF Threads, Joined
<1>2. stack[Main] = <<"reset">> /\ Len(stack[Main]) = 1 /\ stack[Main][1] = "reset"
  BY <1>1
<1>3. \A t \in Threads \ {Main} : stack[t] = <<>> /\ Len(stack[t]) = 0
  OBVIOUS
<1>4. Shapes
  <2>1. stack \in [Threads -> Seq(Labels)]
    <3>1. <<"reset">> \in Seq(Labels) /\ <<>> \in Seq(Labels)
      BY DEF Labels
    <3> QED
      BY <3>1
  <2>2. Shape(Main, stack[Main])
    BY <1>2 DEF Shape, Bottoms, MainLabels
  <2>3. \A t \in Threads \ {Main} : Shape(t, stack[t])
    BY <1>3 DEF Shape
  <2> QED
    BY <1>1, <2>1, <2>2, <2>3 DEF Shapes
<1>5. Phases
  <2>1. ~MainGone(stack[Main])
    BY <1>2 DEF MainGone
  <2> QED
    BY <2>1 DEF Phases
<1>6. Exclusive
  <2>1. \A t \in Threads : \A i \in 1..Len(stack[t]) : stack[t][i] = "reset"
    BY <1>2, <1>3
  <2> QED
    BY <2>1 DEF Exclusive, Inside
<1>7. Plain
  <2>1. owner = None /\ stop \in BOOLEAN /\ link = "up" /\ lines = MaxLines /\ signals = MaxSignals
    OBVIOUS
  <2>2. MaxLines \in 0..MaxLines /\ MaxSignals \in 0..MaxSignals
    OBVIOUS
  <2> QED
    BY <2>1, <2>2 DEF Plain
<1> QED
  BY <1>4, <1>5, <1>6, <1>7 DEF SendingInv

\* The stacks after a step of thread t in its SendLine or stopParser.
LEMMA UpperKeeps ==
    ASSUME Shapes, Phases, NEW t \in Threads, stack[t] # <<>>, Head(stack[t]) \in Upper,
           NEW ls \in Seq(Labels), \A i \in 1..Len(ls) : ls[i] \in Upper, Replace(t, ls),
           owner' = "destroyed" => owner = "destroyed"
    PROVE  Shapes' /\ Phases'
<1> USE SendingAssumption DEF Shapes
<1> DEFINE r == ls \o Tail(stack[t])
<1>1. /\ stack' = [stack EXCEPT ![t] = r] /\ r \in Seq(Labels)
      /\ Shape(t, r) /\ r # <<>> /\ r[Len(r)] = stack[t][Len(stack[t])]
  BY UpperStep, ReplaceHead DEF Replace
<1> HIDE DEF r
<1>2. Shapes'
  BY <1>1
<1>3. MainGone(stack'[Main]) => MainGone(stack[Main])
  BY <1>1 DEF MainGone, Threads
<1>4. stack'[Main] = <<>> <=> stack[Main] = <<>>
  BY <1>1 DEF Threads
<1>5. MainGone(stack'[Main]) => \A u \in Joined : stack'[u] = <<>>
  BY <1>1, <1>3 DEF Phases, Threads
<1>6. owner' = "destroyed" => stack'[Main] = <<>>
  BY <1>1 DEF Phases, Threads
<1> QED
  BY <1>2, <1>5, <1>6 DEF Phases

\* The stacks after a step of thread t in its own code.
LEMMA OwnKeeps ==
    ASSUME Shapes, Phases, NEW t \in Threads, stack[t] # <<>>, Head(stack[t]) \notin Upper,
           NEW ls \in Seq(Labels), Shape(t, ls), Replace(t, ls),
           t = Main /\ MainGone(ls) => \A u \in Joined : stack[u] = <<>>,
           owner' = "destroyed" => \/ owner = "destroyed"
                                   \/ t = Main /\ ls = <<>>
    PROVE  Shapes' /\ Phases' /\ stack' = [stack EXCEPT ![t] = ls]
<1> USE SendingAssumption DEF Shapes
<1>1. stack' = [stack EXCEPT ![t] = ls]
  BY OwnCode DEF Replace
<1>2. Shapes'
  BY <1>1
<1>3. Main \in Threads /\ Joined \subseteq Threads /\ Main \notin Joined
  BY DEF Threads, Joined
<1>4. CASE t = Main
  BY <1>1, <1>3, <1>4 DEF Phases
<1>5. CASE t # Main
  <2>1. stack'[Main] = stack[Main]
    BY <1>1, <1>3, <1>5
  <2>2. t \in Joined => ~MainGone(stack[Main])
    BY DEF Phases
  <2>3. \A u \in Joined \ {t} : stack'[u] = stack[u]
    BY <1>1, <1>3
  <2>4. MainGone(stack[Main])' => \A u \in Joined : stack'[u] = <<>>
    <3>1. MainGone(stack[Main])' => MainGone(stack[Main])
      BY <2>1 DEF MainGone
    <3> QED
      BY <2>2, <2>3, <3>1 DEF Phases
  <2>5. owner' = "destroyed" => stack'[Main] = <<>>
    BY <1>5, <2>1 DEF Phases
  <2> QED
    BY <1>1, <1>2, <2>4, <2>5 DEF Phases
<1> QED
  BY <1>1, <1>2, <1>4, <1>5

\* The labels inside, when a thread changes what is above them.
LEMMA ShiftKeeps ==
    ASSUME Shapes, Exclusive, NEW t \in Threads, stack[t] # <<>>,
           NEW ls \in Seq(Labels), Replace(t, ls), owner' = owner,
           \A i \in 1..Len(ls) : ls[i] \notin Inside
    PROVE  Exclusive'
<1> USE DEF Shapes
<1> DEFINE s == stack[t]
           r == ls \o Tail(s)
<1>1. /\ stack' = [stack EXCEPT ![t] = r] /\ r \in Seq(Labels)
      /\ Len(r) = Len(ls) + Len(s) - 1
      /\ \A i \in 1..Len(ls) : r[i] = ls[i]
      /\ \A i \in (Len(ls) + 1)..(Len(ls) + Len(s) - 1) : r[i] = s[i - Len(ls) + 1]
  BY ReplaceHead DEF Replace
<1>2. Len(ls) \in Nat /\ Len(s) \in Nat
  OBVIOUS
<1> HIDE DEF r
<1>3. ASSUME NEW i \in 1..Len(r), r[i] \in Inside
      PROVE  i - Len(ls) + 1 \in 1..Len(s) /\ s[i - Len(ls) + 1] \in Inside
  <2>1. i \notin 1..Len(ls)
    BY <1>1, <1>3
  <2>2. i \in (Len(ls) + 1)..(Len(ls) + Len(s) - 1)
    BY <1>1, <1>2, <2>1
  <2> QED
    BY <1>1, <1>2, <1>3, <2>2
<1>4. ASSUME NEW i \in 1..Len(r), r[i] \in Inside, NEW j \in 1..Len(r), r[j] \in Inside,
             owner # "destroyed"
      PROVE  owner = t /\ j = i
  <2>1. owner = t /\ i - Len(ls) + 1 = j - Len(ls) + 1
    BY <1>3, <1>4 DEF Exclusive
  <2> QED
    BY <1>2, <2>1
<1>5. \A u \in Threads \ {t} : stack'[u] = stack[u]
  BY <1>1
<1>6. stack'[t] = r
  BY <1>1
<1> QED
  BY <1>4, <1>5, <1>6 DEF Exclusive

\* The labels inside, when the innermost one gives way to one other.
LEMMA SendKeeps ==
    ASSUME Shapes, Exclusive, NEW t \in Threads, stack[t] # <<>>, Head(stack[t]) \in Inside,
           NEW ls \in Seq(Labels), Len(ls) > 0, Replace(t, ls), owner' = owner,
           \A i \in 1..(Len(ls) - 1) : ls[i] \notin Inside
    PROVE  Exclusive'
<1> USE DEF Shapes
<1> DEFINE s == stack[t]
           r == ls \o Tail(s)
<1>1. /\ stack' = [stack EXCEPT ![t] = r] /\ r \in Seq(Labels)
      /\ Len(r) = Len(ls) + Len(s) - 1
      /\ \A i \in 1..Len(ls) : r[i] = ls[i]
      /\ \A i \in (Len(ls) + 1)..(Len(ls) + Len(s) - 1) : r[i] = s[i - Len(ls) + 1]
  BY ReplaceHead DEF Replace
<1>2. Len(ls) \in Nat /\ Len(s) \in Nat \ {0} /\ s[1] \in Inside
  BY EmptySeq
<1> HIDE DEF r
<1>3. ASSUME NEW i \in 1..Len(r), r[i] \in Inside
      PROVE  i - Len(ls) + 1 \in 1..Len(s) /\ s[i - Len(ls) + 1] \in Inside
  <2>1. i \notin 1..(Len(ls) - 1)
    <3>1. i \in 1..(Len(ls) - 1) => i \in 1..Len(ls)
      BY <1>2
    <3> QED
      BY <1>1, <1>3, <3>1
  <2>2. CASE i = Len(ls)
    BY <1>2, <2>2
  <2>3. CASE i # Len(ls)
    <3>1. i \in (Len(ls) + 1)..(Len(ls) + Len(s) - 1)
      BY <1>1, <1>2, <2>1, <2>3
    <3> QED
      BY <1>1, <1>2, <1>3, <3>1
  <2> QED
    BY <2>2, <2>3
<1>4. ASSUME NEW i \in 1..Len(r), r[i] \in Inside, NEW j \in 1..Len(r), r[j] \in Inside,
             owner # "destroyed"
      PROVE  owner = t /\ j = i
  <2>1. owner = t /\ i - Len(ls) + 1 = j - Len(ls) + 1
    BY <1>3, <1>4 DEF Exclusive
  <2> QED
    BY <1>2, <2>1
<1>5. \A u \in Threads \ {t} : stack'[u] = stack[u]
  BY <1>1
<1>6. stack'[t] = r
  BY <1>1
<1> QED
  BY <1>4, <1>5, <1>6 DEF Exclusive

\* A thread goes inside.
LEMMA LockKeeps ==
    ASSUME Shapes, Exclusive, NEW t \in Threads, Lock(t)
    PROVE  Exclusive'
<1> USE SendingAssumption DEF Shapes
<1> DEFINE s == stack[t]
           r == <<"send">> \o Tail(s)
<1>1. CASE owner = "destroyed"
  BY <1>1 DEF Lock, Exclusive
<1>2. CASE owner = None
  <2>1. s # <<>> /\ stack' = [stack EXCEPT ![t] = r] /\ owner' = t
    BY <1>2 DEF Lock, At, Replace
  <2>2. <<"send">> \in Seq(Labels) /\ Len(<<"send">>) = 1
    BY DEF Labels, SendLabels
  <2>3. /\ r \in Seq(Labels) /\ Len(r) = Len(s)
        /\ \A i \in 2..Len(s) : r[i] = s[i]
    BY <2>1, <2>2, ReplaceHead
  <2>4. \A u \in Threads : \A i \in 1..Len(stack[u]) : stack[u][i] \notin Inside
    BY <1>2 DEF Exclusive
  <2> HIDE DEF r
  <2>5. Len(s) \in Nat
    OBVIOUS
  <2>6. \A i \in 1..Len(r) : r[i] \in Inside => i = 1
    BY <2>3, <2>4, <2>5
  <2>7. stack'[t] = r /\ \A u \in Threads \ {t} : stack'[u] = stack[u]
    BY <2>1
  <2> QED
    BY <2>1, <2>4, <2>6, <2>7 DEF Exclusive
<1> QED
  BY <1>1, <1>2 DEF Lock

\* A thread comes out.
LEMMA UnlockKeeps ==
    ASSUME Shapes, Exclusive, NEW t \in Threads, Unlock(t)
    PROVE  Exclusive'
<1> USE SendingAssumption DEF Shapes
<1> DEFINE s == stack[t]
           r == <<>> \o Tail(s)
<1>1. s # <<>> /\ stack' = [stack EXCEPT ![t] = r] /\ Head(s) = "unlock"
  BY DEF Unlock, At, Replace
<1>2. Len(s) \in Nat \ {0} /\ s[1] \in Inside
  BY <1>1, EmptySeq DEF Inside
<1>3. CASE owner # t
  <2>1. owner = "destroyed" /\ owner' = "destroyed"
    BY <1>2, <1>3 DEF Exclusive, Unlock
  <2> QED
    BY <2>1 DEF Exclusive
<1>4. CASE owner = t
  <2>1. <<>> \in Seq(Labels) /\ Len(<<>>) = 0
    OBVIOUS
  <2>2. Len(r) = Len(s) - 1 /\ \A i \in 1..(Len(s) - 1) : r[i] = s[i + 1]
    BY <1>1, <1>2, <2>1, ReplaceHead
  <2> HIDE DEF r
  <2>3. \A i \in 1..Len(s) : s[i] \in Inside => i = 1
    BY <1>2, <1>4 DEF Exclusive
  <2>4. \A i \in 1..Len(r) : r[i] \notin Inside
    BY <1>2, <2>2, <2>3
  <2>5. \A u \in Threads \ {t} : \A i \in 1..Len(stack[u]) : stack[u][i] \notin Inside
    BY <1>4 DEF Exclusive
  <2>6. stack'[t] = r /\ \A u \in Threads \ {t} : stack'[u] = stack[u]
    BY <1>1
  <2> QED
    BY <2>4, <2>5, <2>6 DEF Exclusive
<1> QED
  BY <1>3, <1>4

\* A signal interrupts a thread.
LEMMA SignalKeeps ==
    ASSUME Shapes, Phases, Exclusive, NEW t \in Threads, Signal(t)
    PROVE  Shapes' /\ Phases' /\ Exclusive'
<1> USE SendingAssumption DEF Shapes
<1> DEFINE s == stack[t]
           r == <<"test">> \o s
<1>1. s # <<>> /\ stack' = [stack EXCEPT ![t] = r] /\ owner' = owner
  BY DEF Signal
<1>2. Len(s) \in Nat \ {0}
  BY <1>1, EmptySeq
<1>3. <<"test">> \in Seq(Labels) /\ Len(<<"test">>) = 1 /\ <<"test">>[1] = "test"
  BY DEF Labels, HandlerLabels
<1>4. /\ r \in Seq(Labels) /\ Len(r) = Len(s) + 1 /\ r[1] = "test"
      /\ \A i \in 2..(Len(s) + 1) : r[i] = s[i - 1]
  BY <1>2, <1>3, ConcatProperties
<1> HIDE DEF r
<1>5. r # <<>> /\ r[Len(r)] = s[Len(s)]
  BY <1>2, <1>4
<1>6. Shape(t, r)
  <2>1. \A i \in 1..(Len(s) - 1) : s[i] \in Upper
    BY <1>1 DEF Shape
  <2>2. \A i \in 1..(Len(r) - 1) : r[i] \in Upper
    BY <1>2, <1>4, <2>1 DEF Upper, HandlerLabels
  <2> QED
    BY <1>1, <1>5, <2>2 DEF Shape
<1>7. stack'[t] = r /\ \A u \in Threads \ {t} : stack'[u] = stack[u]
  BY <1>1
<1>8. Shapes'
  BY <1>1, <1>4, <1>6
<1>9. Phases'
  <2>1. MainGone(stack[Main])' => MainGone(stack[Main])
    BY <1>1, <1>5, <1>7 DEF MainGone, Threads
  <2>2. MainGone(stack[Main])' => \A u \in Joined : stack'[u] = <<>>
    BY <1>1, <1>7, <2>1 DEF Phases, Threads
  <2>3. owner' = "destroyed" => stack'[Main] = <<>>
    BY <1>1, <1>7 DEF Phases, Threads
  <2> QED
    BY <2>2, <2>3 DEF Phases
<1>10. Exclusive'
  <2>1. ASSUME NEW i \in 1..Len(r), r[i] \in Inside
        PROVE  i - 1 \in 1..Len(s) /\ s[i - 1] \in Inside
    BY <1>2, <1>4, <2>1 DEF Inside
  <2>2. ASSUME NEW i \in 1..Len(r), r[i] \in Inside, NEW j \in 1..Len(r), r[j] \in Inside,
               owner # "destroyed"
        PROVE  owner = t /\ j = i
    <3>1. owner = t /\ i - 1 = j - 1
      BY <2>1, <2>2 DEF Exclusive
    <3> QED
      BY <3>1
  <2> QED
    BY <1>1, <1>7, <2>2 DEF Exclusive
<1> QED
  BY <1>8, <1>9, <1>10

-----------------------------------------------------------------------------
(* The steps *)

\* A label at the top of a stack, as UpperKeeps and OwnKeeps ask for it.
LEMMA AtTop ==
    ASSUME Shapes, NEW t \in Threads, NEW b, At(t, b)
    PROVE  /\ stack[t] # <<>> /\ Head(stack[t]) = b
           /\ b \in Upper \cup Bottoms(t)
<1>1. stack[t] # <<>> /\ Head(stack[t]) = b
  BY DEF At
<1>2. stack[t] \in Seq(Labels)
  BY DEF Shapes
<1>3. CASE b \in Upper
  BY <1>1, <1>3
<1>4. CASE b \notin Upper
  <2>1. Len(stack[t]) = 1 /\ stack[t] = <<b>>
    BY <1>1, <1>2, <1>4, OwnCode DEF Shapes
  <2>2. stack[t][Len(stack[t])] \in Bottoms(t)
    BY <1>1 DEF Shapes, Shape
  <2>3. stack[t][Len(stack[t])] = b
    BY <2>1
  <2> QED
    BY <1>1, <2>2, <2>3
<1> QED
  BY <1>3, <1>4

\* What SendLine and stopParser put on a stack.
Pushed == {<<>>, <<"send">>, <<"unlock">>, <<"test", "unlock">>, <<"set">>, <<"lock", "set">>}

\* Labels of theirs; at most the last one is inside, and only a send puts one there.
LEMMA PushedLabels ==
    \A ls \in Pushed : /\ ls \in Seq(Labels)
                       /\ \A i \in 1..Len(ls) : ls[i] \in Upper
                       /\ \A i \in 1..(Len(ls) - 1) : ls[i] \notin Inside
                       /\ ls \in {<<"unlock">>, <<"test", "unlock">>} => Len(ls) > 0
                       /\ ls \in {<<>>, <<"set">>, <<"lock", "set">>} =>
                            \A i \in 1..Len(ls) : ls[i] \notin Inside
<1> SUFFICES ASSUME NEW ls \in Pushed
             PROVE  /\ ls \in Seq(Labels)
                    /\ \A i \in 1..Len(ls) : ls[i] \in Upper
                    /\ \A i \in 1..(Len(ls) - 1) : ls[i] \notin Inside
                    /\ ls \in {<<"unlock">>, <<"test", "unlock">>} => Len(ls) > 0
                    /\ ls \in {<<>>, <<"set">>, <<"lock", "set">>} =>
                         \A i \in 1..Len(ls) : ls[i] \notin Inside
  OBVIOUS
<1> USE DEF Labels, Upper, SendLabels, HandlerLabels, Inside
<1>1. CASE ls = <<>>
  BY <1>1
<1>2. CASE ls = <<"send">>
  BY <1>2
<1>3. CASE ls = <<"unlock">>
  BY <1>3
<1>4. CASE ls = <<"test", "unlock">>
  BY <1>4
<1>5. CASE ls = <<"set">>
  BY <1>5
<1>6. CASE ls = <<"lock", "set">>
  BY <1>6
<1> QED
  BY <1>1, <1>2, <1>3, <1>4, <1>5, <1>6 DEF Pushed

\* SendLine and stopParser.
LEMMA UpperInv ==
    ASSUME SendingInv, NEW t \in Threads, SendLine(t) \/ stopParser(t)
    PROVE  SendingInv'
<1> USE SendingAssumption DEF SendingInv
<1>1. {"lock", "send", "unlock", "test", "set"} = Upper /\ {"send", "unlock"} = Inside
  BY DEF Upper, SendLabels, HandlerLabels, Inside
<1>2. ASSUME NEW ls \in Pushed, Replace(t, ls), stack[t] # <<>>, Head(stack[t]) \in Upper,
             owner' = "destroyed" => owner = "destroyed"
      PROVE  Shapes' /\ Phases'
  BY <1>2, PushedLabels, UpperKeeps
<1>3. ASSUME NEW ls \in Pushed, Replace(t, ls), stack[t] # <<>>, owner' = owner,
             ls \in {<<>>, <<"set">>, <<"lock", "set">>}
      PROVE  Exclusive'
  BY <1>3, PushedLabels, ShiftKeeps
<1>4. ASSUME NEW ls \in Pushed, Replace(t, ls), stack[t] # <<>>, Head(stack[t]) \in Inside,
             owner' = owner, ls \in {<<"unlock">>, <<"test", "unlock">>}
      PROVE  Exclusive'
  BY <1>4, PushedLabels, SendKeeps
<1>5. CASE Lock(t)
  <2>1. /\ stack[t] # <<>> /\ Head(stack[t]) \in Upper /\ Replace(t, <<"send">>)
        /\ owner' = "destroyed" => owner = "destroyed"
    BY <1>1, <1>5 DEF Lock, At
  <2>2. Plain'
    BY <1>5 DEF Lock, Plain
  <2> QED
    BY <1>2, <1>5, <2>1, <2>2, LockKeeps DEF Pushed
<1>6. CASE Send(t)
  <2>1. /\ stack[t] # <<>> /\ Head(stack[t]) = "send" /\ Replace(t, <<"unlock">>)
        /\ owner' = owner
    BY <1>6 DEF Send, At
  <2>2. Plain'
    BY <1>6 DEF Send, Plain
  <2> QED
    BY <1>1, <1>2, <1>4, <2>1, <2>2 DEF Pushed
<1>7. CASE BrokenSend(t)
  <2>1. /\ stack[t] # <<>> /\ Head(stack[t]) = "send" /\ Replace(t, <<"test", "unlock">>)
        /\ owner' = owner
    BY <1>7 DEF BrokenSend, At
  <2>2. Plain'
    BY <1>7 DEF BrokenSend, Plain
  <2> QED
    BY <1>1, <1>2, <1>4, <2>1, <2>2 DEF Pushed
<1>8. CASE Unlock(t)
  <2>1. /\ stack[t] # <<>> /\ Head(stack[t]) \in Upper /\ Replace(t, <<>>)
        /\ owner' = "destroyed" => owner = "destroyed"
    BY <1>1, <1>8 DEF Unlock, At
  <2>2. Plain'
    BY <1>8 DEF Unlock, Plain
  <2> QED
    BY <1>2, <1>8, <2>1, <2>2, UnlockKeeps DEF Pushed
<1>9. CASE TestStop(t)
  <2>1. PICK ls \in {<<"set">>, <<"lock", "set">>} : Replace(t, ls)
    BY <1>9 DEF TestStop
  <2>2. stack[t] # <<>> /\ Head(stack[t]) = "test" /\ owner' = owner
    BY <1>9 DEF TestStop, At
  <2>3. Plain'
    BY <1>9 DEF TestStop, Plain
  <2> QED
    BY <1>1, <1>2, <1>3, <2>1, <2>2, <2>3 DEF Pushed
<1>10. CASE SetStop(t)
  <2>1. stack[t] # <<>> /\ Head(stack[t]) = "set" /\ owner' = owner /\ Replace(t, <<>>)
    BY <1>10 DEF SetStop, At
  <2>2. Plain'
    BY <1>10 DEF SetStop, Plain
  <2> QED
    BY <1>1, <1>2, <1>3, <2>1, <2>2 DEF Pushed
<1> QED
  BY <1>5, <1>6, <1>7, <1>8, <1>9, <1>10 DEF SendLine, stopParser

\* What the threads put on their stacks in their own code.
WorkLists == {<<>>, <<"lock", "work">>, <<"test", "work">>}
MainLists == {<<>>, <<"create">>, <<"loop">>, <<"recv">>, <<"lock", "loop">>, <<"join">>,
              <<"destroy">>}

\* They are stacks of theirs, and nobody is inside.
LEMMA OwnLists ==
    ASSUME NEW t \in Threads, NEW ls \in IF t = Main THEN MainLists ELSE WorkLists
    PROVE  /\ ls \in Seq(Labels) /\ Shape(t, ls)
           /\ \A i \in 1..Len(ls) : ls[i] \notin Inside
           /\ t = Main /\ MainGone(ls) => ls \in {<<>>, <<"destroy">>}
<1> USE DEF Labels, Upper, SendLabels, HandlerLabels, Inside, Shape, Bottoms, MainLabels, MainGone
<1>1. CASE ls = <<>>
  BY <1>1
<1>2. CASE t # Main
  <2>1. CASE ls = <<"lock", "work">>
    BY <1>2, <2>1
  <2>2. CASE ls = <<"test", "work">>
    BY <1>2, <2>2
  <2> QED
    BY <1>1, <1>2, <2>1, <2>2 DEF WorkLists
<1>3. CASE t = Main
  <2>1. CASE ls = <<"create">>
    BY <1>3, <2>1
  <2>2. CASE ls = <<"loop">>
    BY <1>3, <2>2
  <2>3. CASE ls = <<"recv">>
    BY <1>3, <2>3
  <2>4. CASE ls = <<"lock", "loop">>
    BY <1>3, <2>4
  <2>5. CASE ls = <<"join">>
    BY <1>3, <2>5
  <2>6. CASE ls = <<"destroy">>
    BY <1>3, <2>6
  <2> QED
    BY <1>1, <1>3, <2>1, <2>2, <2>3, <2>4, <2>5, <2>6 DEF MainLists
<1> QED
  BY <1>2, <1>3

\* A step of a thread in its own code, apart from the creation of the threads and
\* the destruction of the mutex.
LEMMA OwnInv ==
    ASSUME SendingInv, NEW t \in Threads, NEW b \in Labels \ Upper, At(t, b),
           NEW ls \in IF t = Main THEN MainLists ELSE WorkLists, Replace(t, ls),
           owner' = owner, Plain',
           t = Main /\ ls \in {<<>>, <<"destroy">>} => \A u \in Joined : stack[u] = <<>>
    PROVE  SendingInv'
<1>1. Shapes /\ Phases /\ Exclusive
  BY DEF SendingInv
<1>2. stack[t] # <<>> /\ Head(stack[t]) \notin Upper
  BY DEF At
<1>3. /\ ls \in Seq(Labels) /\ Shape(t, ls)
      /\ \A i \in 1..Len(ls) : ls[i] \notin Inside
      /\ t = Main /\ MainGone(ls) => ls \in {<<>>, <<"destroy">>}
  BY OwnLists
<1>4. Shapes' /\ Phases'
  BY <1>1, <1>2, <1>3, OwnKeeps
<1>5. Exclusive'
  BY <1>1, <1>2, <1>3, ShiftKeeps
<1> QED
  BY <1>4, <1>5 DEF SendingInv

\* The main thread creates the others.
LEMMA CreateInv ==
    ASSUME SendingInv, Create
    PROVE  SendingInv'
<1> USE SendingAssumption
<1>1. Main \in Threads /\ owner' = owner /\ stack[Main] # <<>>
  BY DEF Create, At, Threads
<1>2. \A t \in Threads : \/ t = Main /\ stack'[t] = <<"loop">>
                         \/ t # Main /\ stack'[t] = <<"work">>
  BY DEF Create
<1>3. <<"loop">> \in Seq(Labels) /\ <<"work">> \in Seq(Labels)
  BY DEF Labels
<1>4. stack' \in [Threads -> Seq(Labels)]
  BY <1>3 DEF Create
<1>5. \A t \in Threads : Shape(t, stack'[t])
  BY <1>2 DEF Shape, Bottoms, MainLabels
<1>6. Shapes'
  BY <1>4, <1>5 DEF Shapes
<1>7. Phases'
  <2>1. stack'[Main] = <<"loop">>
    BY <1>1, <1>2
  <2>2. ~MainGone(stack'[Main])
    <3>1. <<"loop">> # <<>> /\ <<"loop">>[Len(<<"loop">>)] = "loop"
      OBVIOUS
    <3> QED
      BY <2>1, <3>1 DEF MainGone
  <2>3. owner' # "destroyed"
    BY <1>1 DEF SendingInv, Phases
  <2> QED
    BY <2>2, <2>3 DEF Phases
<1>8. Exclusive'
  <2>1. \A t \in Threads : \A i \in 1..Len(stack'[t]) : stack'[t][i] \notin Inside
    BY <1>2 DEF Inside
  <2> QED
    BY <2>1 DEF Exclusive
<1>9. Plain'
  BY DEF Create, SendingInv, Plain
<1> QED
  BY <1>6, <1>7, <1>8, <1>9 DEF SendingInv

\* The main thread destroys the mutex, behind the join.
LEMMA DisconnectInv ==
    ASSUME SendingInv, Disconnect
    PROVE  SendingInv'
<1> USE SendingAssumption
<1>1. Shapes /\ Phases /\ Exclusive /\ Main \in Threads
  BY DEF SendingInv, Threads
<1>2. stack[Main] # <<>> /\ Head(stack[Main]) = "destroy" /\ Replace(Main, <<>>)
  BY DEF Disconnect, At
<1>3. "destroy" \notin Upper
  BY DEF Upper, SendLabels, HandlerLabels
<1>4. Len(stack[Main]) = 1 /\ stack[Main] = <<"destroy">>
  BY <1>1, <1>2, <1>3, OwnCode DEF Shapes
<1>5. \A u \in Joined : stack[u] = <<>>
  BY <1>1, <1>4 DEF Phases, MainGone
<1>6. <<>> \in MainLists /\ <<>> \in Seq(Labels) /\ Shape(Main, <<>>)
  BY DEF MainLists, Shape
<1>7. Shapes' /\ Phases' /\ stack' = [stack EXCEPT ![Main] = <<>>]
  BY <1>1, <1>2, <1>3, <1>5, <1>6, OwnKeeps
<1>8. Exclusive'
  <2>1. CASE owner = None
    BY <2>1 DEF Disconnect, Exclusive
  <2>2. CASE owner # None
    <3>1. owner' = owner
      BY <2>2 DEF Disconnect
    <3>2. \A i \in 1..Len(<<>>) : <<>>[i] \notin Inside
      OBVIOUS
    <3> QED
      BY <1>1, <1>2, <1>6, <3>1, <3>2, ShiftKeeps
  <2> QED
    BY <2>1, <2>2
<1>9. Plain'
  BY DEF Disconnect, SendingInv, Plain
<1> QED
  BY <1>7, <1>8, <1>9 DEF SendingInv

\* The main thread, apart from these two.
LEMMA MainInv ==
    ASSUME SendingInv, ResetStop \/ Loop \/ Receive \/ ReceiveEnd \/ Timeout \/ JoinThreads
    PROVE  SendingInv'
<1> USE SendingAssumption
<1>1. Main \in Threads
  BY DEF Threads
<1>2. {"reset", "loop", "recv", "join"} \subseteq Labels \ Upper
  BY DEF Labels, Upper, SendLabels, HandlerLabels
<1>3. owner' = owner /\ Plain'
  <2>1. owner' = owner /\ link' = link /\ signals' = signals
    BY DEF ResetStop, Loop, Receive, ReceiveEnd, Timeout, JoinThreads
  <2>2. stop' \in BOOLEAN
    BY DEF ResetStop, Loop, Receive, ReceiveEnd, Timeout, JoinThreads, SendingInv, Plain
  <2>3. lines' \in 0..MaxLines
    <3>1. lines \in 0..MaxLines
      BY DEF SendingInv, Plain
    <3>2. CASE Receive
      <4>1. lines' = lines \/ (lines > 0 /\ lines' = lines - 1)
        BY <3>2 DEF Receive
      <4> QED
        BY <3>1, <4>1
    <3>3. CASE ResetStop \/ Loop \/ ReceiveEnd \/ Timeout \/ JoinThreads
      <4>1. lines' = lines
        BY <3>3 DEF ResetStop, Loop, ReceiveEnd, Timeout, JoinThreads
      <4> QED
        BY <3>1, <4>1
    <3> QED
      BY <3>2, <3>3
  <2> QED
    BY <2>1, <2>2, <2>3 DEF SendingInv, Plain
<1>4. CASE ResetStop
  BY <1>1, <1>2, <1>3, <1>4, OwnInv DEF ResetStop, MainLists
<1>5. CASE Loop
  <2>1. PICK ls \in {<<"join">>, <<"recv">>} : Replace(Main, ls)
    BY <1>5 DEF Loop
  <2>2. ls \in MainLists /\ ls \notin {<<>>, <<"destroy">>}
    BY <2>1 DEF MainLists
  <2> QED
    BY <1>1, <1>2, <1>3, <1>5, <2>1, <2>2, OwnInv DEF Loop
<1>6. CASE Receive \/ ReceiveEnd \/ Timeout
  <2>1. PICK ls \in {<<"loop">>, <<"lock", "loop">>} : Replace(Main, ls) /\ At(Main, "recv")
    BY <1>6 DEF Receive, ReceiveEnd, Timeout
  <2>2. ls \in MainLists /\ ls \notin {<<>>, <<"destroy">>}
    BY <2>1 DEF MainLists
  <2> QED
    BY <1>1, <1>2, <1>3, <2>1, <2>2, OwnInv
<1>7. CASE JoinThreads
  BY <1>1, <1>2, <1>3, <1>7, OwnInv DEF JoinThreads, MainLists
<1> QED
  BY <1>4, <1>5, <1>6, <1>7

\* The other threads.
LEMMA WorkInv ==
    ASSUME SendingInv, NEW t \in Threads, SendSomething(t) \/ End(t) \/ Die(t)
    PROVE  SendingInv'
<1> USE SendingAssumption
<1>1. "work" \in Labels \ Upper
  BY DEF Labels, Upper, SendLabels, HandlerLabels
<1>2. At(t, "work")
  BY DEF SendSomething, End, Die
<1>3. t # Main
  <2>1. "work" \in Bottoms(t)
    BY <1>1, <1>2, AtTop DEF SendingInv
  <2> QED
    BY <2>1 DEF Bottoms, MainLabels
<1>4. owner' = owner /\ Plain'
  BY DEF SendSomething, End, Die, SendingInv, Plain
<1>5. PICK ls \in WorkLists : Replace(t, ls)
  BY DEF SendSomething, End, Die, WorkLists
<1> QED
  BY <1>1, <1>2, <1>3, <1>4, <1>5, OwnInv

\* Every step keeps the invariant.
LEMMA InvStep == SendingInv /\ [Next]_vars => SendingInv'
<1> SUFFICES ASSUME SendingInv, [Next]_vars PROVE SendingInv'
  OBVIOUS
<1>1. ASSUME NEW t \in Threads, Signal(t)
      PROVE  SendingInv'
  <2>1. Plain'
    <3>1. signals > 0 /\ signals' = signals - 1 /\ UNCHANGED <<owner, stop, link, lines>>
      BY <1>1 DEF Signal
    <3> QED
      BY <3>1, SendingAssumption DEF SendingInv, Plain
  <2> QED
    BY <1>1, <2>1, SignalKeeps DEF SendingInv
<1>2. CASE Close \/ Lose
  BY <1>2 DEF Close, Lose, SendingInv, Plain, Shapes, Phases, Exclusive
<1>3. CASE UNCHANGED vars
  BY <1>3 DEF vars, SendingInv, Plain, Shapes, Phases, Exclusive
<1>4. Workers \subseteq Threads
  BY DEF Threads, Joined
<1> QED
  BY <1>1, <1>2, <1>3, <1>4, UpperInv, WorkInv, MainInv, CreateInv, DisconnectInv
     DEF Next, AppMain

\* One thread at a time is between the lock and the unlock of mutexSend, whatever a
\* signal interrupts, until the mutex is destroyed; and the rest keeps its type.
THEOREM TypeCorrect == Spec => []TypeOK
<1>1. SendingInv => TypeOK
  <2> SUFFICES ASSUME SendingInv PROVE TypeOK
    OBVIOUS
  <2>1. OwnerIsInside
    BY DEF SendingInv, Exclusive, OwnerIsInside, Inside
  <2> QED
    BY <2>1 DEF SendingInv, Plain, Shapes, TypeOK
<1> QED
  BY <1>1, InvInit, InvStep, PTL DEF Spec

\* When disconnectServer destroys mutexSend, no thread but the detached one that
\* joins the channels is in SendLine or will be.
THEOREM DestroyedUnusedAlways == Spec => []DestroyedUnused
<1>1. SendingInv => DestroyedUnused
  <2> SUFFICES ASSUME SendingInv, owner = "destroyed", NEW t \in Threads \ {Joiner}
               PROVE  ~InSendLine(t)
    BY DEF DestroyedUnused
  <2>1. stack[Main] = <<>> /\ \A u \in Joined : stack[u] = <<>>
    BY DEF SendingInv, Phases, MainGone
  <2>2. stack[t] = <<>>
    BY <2>1 DEF Threads
  <2> QED
    BY <2>2 DEF InSendLine
<1> QED
  BY <1>1, InvInit, InvStep, PTL DEF Spec

-----------------------------------------------------------------------------
(* Who has the mutex gives it back. *)

\* The owner is between the lock and the unlock.
Kept == \A t \in Threads : owner = t => \E i \in 1..Len(stack[t]) : stack[t][i] \in Inside

\* Until the main thread has created the others, they have no stack.
Early == stack[Main] # <<>> /\ stack[Main][Len(stack[Main])] \in {"reset", "create"}
            => \A t \in Threads \ {Main} : stack[t] = <<>>

\* A step that puts labels in the place of one keeps the labels inside, unless it
\* takes the innermost one and leaves none.
LEMMA KeptReplace ==
    ASSUME Shapes, Kept, NEW t \in Threads, stack[t] # <<>>, NEW ls \in Seq(Labels),
           Replace(t, ls), owner' = owner,
           Head(stack[t]) \notin Inside \/ \E j \in 1..Len(ls) : ls[j] \in Inside
    PROVE  Kept'
<1> USE DEF Shapes
<1> DEFINE s == stack[t]
           r == ls \o Tail(s)
<1>1. /\ stack' = [stack EXCEPT ![t] = r] /\ r \in Seq(Labels)
      /\ Len(r) = Len(ls) + Len(s) - 1
      /\ \A i \in 1..Len(ls) : r[i] = ls[i]
      /\ \A i \in (Len(ls) + 1)..(Len(ls) + Len(s) - 1) : r[i] = s[i - Len(ls) + 1]
  BY ReplaceHead DEF Replace
<1>2. Len(ls) \in Nat /\ Len(s) \in Nat \ {0} /\ s[1] = Head(s)
  BY EmptySeq
<1> HIDE DEF r
<1>3. stack'[t] = r /\ \A u \in Threads \ {t} : stack'[u] = stack[u]
  BY <1>1
<1>4. ASSUME owner = t PROVE \E i \in 1..Len(r) : r[i] \in Inside
  <2>1. CASE \E j \in 1..Len(ls) : ls[j] \in Inside
    BY <1>1, <1>2, <2>1
  <2>2. CASE Head(s) \notin Inside
    <3>1. PICK i \in 1..Len(s) : s[i] \in Inside
      BY <1>4 DEF Kept
    <3>2. i \in 2..Len(s)
      BY <1>2, <2>2, <3>1
    <3>3. /\ Len(ls) + i - 1 \in (Len(ls) + 1)..(Len(ls) + Len(s) - 1)
          /\ Len(ls) + i - 1 \in 1..Len(r)
          /\ (Len(ls) + i - 1) - Len(ls) + 1 = i
      BY <1>1, <1>2, <3>2
    <3>4. r[Len(ls) + i - 1] = s[i]
      BY <1>1, <3>3
    <3> QED
      BY <3>1, <3>3, <3>4
  <2> QED
    BY <2>1, <2>2
<1> QED
  BY <1>3, <1>4 DEF Kept

\* A signal only puts a handler on top.
LEMMA KeptSignal ==
    ASSUME Shapes, Kept, NEW t \in Threads, Signal(t)
    PROVE  Kept'
<1> USE DEF Shapes
<1> DEFINE s == stack[t]
           r == <<"test">> \o s
<1>1. stack' = [stack EXCEPT ![t] = r] /\ owner' = owner
  BY DEF Signal
<1>2. <<"test">> \in Seq(Labels) /\ Len(<<"test">>) = 1 /\ Len(s) \in Nat
  BY DEF Labels, HandlerLabels
<1>3. Len(r) = Len(s) + 1 /\ \A i \in 2..(Len(s) + 1) : r[i] = s[i - 1]
  BY <1>2, ConcatProperties
<1> HIDE DEF r
<1>4. ASSUME owner = t PROVE \E i \in 1..Len(r) : r[i] \in Inside
  <2>1. PICK i \in 1..Len(s) : s[i] \in Inside
    BY <1>4 DEF Kept
  <2>2. i + 1 \in 2..(Len(s) + 1) /\ i + 1 \in 1..Len(r) /\ (i + 1) - 1 = i
    BY <1>2, <1>3
  <2>3. r[i + 1] = s[i]
    BY <1>3, <2>2
  <2> QED
    BY <2>1, <2>2, <2>3
<1>5. stack'[t] = r /\ \A u \in Threads \ {t} : stack'[u] = stack[u]
  BY <1>1
<1> QED
  BY <1>1, <1>4, <1>5 DEF Kept

LEMMA KeptUpper ==
    ASSUME SendingInv, Kept, NEW t \in Threads, SendLine(t) \/ stopParser(t)
    PROVE  Kept'
<1> USE SendingAssumption
<1>1. Shapes
  BY DEF SendingInv
<1>2. \A u \in Threads : u # "destroyed" /\ u # None
  OBVIOUS
<1>3. CASE Lock(t)
  <2>1. stack[t] # <<>> /\ Replace(t, <<"send">>) /\ owner \in {None, "destroyed"}
        /\ owner' = IF owner = None THEN t ELSE owner
    BY <1>3 DEF Lock, At
  <2>2. CASE owner = None
    <3>1. <<"send">> \in Seq(Labels) /\ Len(<<"send">>) = 1 /\ <<"send">>[1] = "send"
      BY DEF Labels, SendLabels
    <3>2. stack[t] \in Seq(Labels) /\ Len(stack[t]) \in Nat \ {0}
      BY <1>1, <2>1, EmptySeq DEF Shapes
    <3> DEFINE r == <<"send">> \o Tail(stack[t])
    <3>3. Len(r) = 1 + Len(stack[t]) - 1 /\ r[1] = "send"
      BY <2>1, <3>1, <3>2, ReplaceHead
    <3>4. stack'[t] = r
      BY <1>1, <2>1 DEF Replace, Shapes
    <3> HIDE DEF r
    <3>5. 1 \in 1..Len(r)
      BY <3>2, <3>3
    <3> QED
      BY <2>1, <2>2, <3>3, <3>4, <3>5 DEF Kept, Inside
  <2>3. CASE owner # None
    BY <1>2, <2>1, <2>3 DEF Kept
  <2> QED
    BY <2>2, <2>3
<1>4. CASE Unlock(t)
  <2>1. Replace(t, <<>>) /\ owner' = IF owner = t THEN None ELSE owner
    BY <1>4 DEF Unlock
  <2>2. \A u \in Threads \ {t} : stack'[u] = stack[u]
    BY <1>1, <2>1 DEF Replace, Shapes
  <2> QED
    BY <1>2, <2>1, <2>2 DEF Kept
<1>5. CASE Send(t) \/ BrokenSend(t)
  <2>1. PICK ls \in {<<"unlock">>, <<"test", "unlock">>} : Replace(t, ls)
    BY <1>5 DEF Send, BrokenSend
  <2>2. stack[t] # <<>> /\ owner' = owner
    BY <1>5 DEF Send, BrokenSend, At
  <2>3. ls \in Seq(Labels) /\ \E j \in 1..Len(ls) : ls[j] \in Inside
    <3>1. CASE ls = <<"unlock">>
      BY <3>1 DEF Labels, SendLabels, HandlerLabels, Inside
    <3>2. CASE ls = <<"test", "unlock">>
      <4>1. Len(ls) = 2 /\ ls[2] = "unlock" /\ ls \in Seq(Labels) /\ 2 \in 1..2
        BY <3>2 DEF Labels, SendLabels, HandlerLabels
      <4> QED
        BY <4>1 DEF Inside
    <3> QED
      BY <2>1, <3>1, <3>2
  <2> QED
    BY <1>1, <2>1, <2>2, <2>3, KeptReplace
<1>6. CASE TestStop(t) \/ SetStop(t)
  <2>1. PICK ls \in {<<>>, <<"set">>, <<"lock", "set">>} : Replace(t, ls)
    BY <1>6 DEF TestStop, SetStop
  <2>2. stack[t] # <<>> /\ owner' = owner /\ Head(stack[t]) \notin Inside
    BY <1>6 DEF TestStop, SetStop, At, Inside
  <2>3. ls \in Seq(Labels)
    BY <2>1, PushedLabels DEF Pushed
  <2> QED
    BY <1>1, <2>1, <2>2, <2>3, KeptReplace
<1> QED
  BY <1>3, <1>4, <1>5, <1>6 DEF SendLine, stopParser

\* The threads in their own code.
LEMMA KeptOwn ==
    ASSUME SendingInv, Kept, NEW t \in Threads, NEW b \in Labels \ Upper, At(t, b),
           NEW ls \in IF t = Main THEN MainLists ELSE WorkLists, Replace(t, ls), owner' = owner
    PROVE  Kept'
<1>1. Shapes
  BY DEF SendingInv
<1>2. stack[t] # <<>> /\ Head(stack[t]) \notin Inside
  BY DEF At, Upper, Inside, SendLabels
<1>3. ls \in Seq(Labels)
  BY OwnLists
<1> QED
  BY <1>1, <1>2, <1>3, KeptReplace

\* While the main thread has not created the others nobody else is anywhere.
LEMMA KeptCreate ==
    ASSUME SendingInv, Kept, Early, Create
    PROVE  Kept'
<1>1. owner' = owner /\ Main \in Threads /\ Shapes /\ At(Main, "create")
  BY DEF Create, Threads, SendingInv
<1>2. "create" \notin Upper /\ "create" \notin Inside
  BY DEF Upper, SendLabels, HandlerLabels, Inside
<1>3. stack[Main] # <<>> /\ Len(stack[Main]) = 1 /\ stack[Main] = <<"create">>
  BY <1>1, <1>2, OwnCode DEF At, Shapes
<1>4. \A t \in Threads \ {Main} : stack[t] = <<>>
  BY <1>3 DEF Early
<1>5. ASSUME NEW t \in Threads, owner = t PROVE FALSE
  <2>1. PICK i \in 1..Len(stack[t]) : stack[t][i] \in Inside
    BY <1>5 DEF Kept
  <2>2. CASE t = Main
    BY <1>2, <1>3, <2>1, <2>2
  <2>3. CASE t # Main
    <3>1. stack[t] = <<>>
      BY <1>4, <2>3
    <3> QED
      BY <2>1, <3>1
  <2> QED
    BY <2>2, <2>3
<1> QED
  BY <1>1, <1>5 DEF Kept

\* The bottom of the main thread's stack leaves "create" only when the others are
\* created, and before that nobody else can step.
LEMMA EarlyStep ==
    ASSUME SendingInv, Early, [Next]_vars
    PROVE  Early'
<1> USE SendingAssumption
<1>1. Shapes /\ Main \in Threads /\ Workers \subseteq Threads \ {Main}
  BY DEF SendingInv, Threads, Joined
<1>2. ASSUME NEW t \in Threads \ {Main}, stack[t] # <<>>, stack'[Main] = stack[Main]
      PROVE  Early'
  BY <1>2 DEF Early
<1>3. ASSUME NEW t \in Threads, SendLine(t) \/ stopParser(t)
      PROVE  Early'
  <2>1. PICK ls \in Pushed : Replace(t, ls)
    BY <1>3 DEF SendLine, stopParser, Lock, Send, BrokenSend, Unlock, TestStop, SetStop, Pushed
  <2>2. stack[t] # <<>> /\ Head(stack[t]) \in Upper
    BY <1>3 DEF SendLine, stopParser, Lock, Send, BrokenSend, Unlock, TestStop, SetStop, At,
                Upper, SendLabels, HandlerLabels
  <2>3. stack' = [stack EXCEPT ![t] = ls \o Tail(stack[t])]
    BY <2>1 DEF Replace
  <2>4. CASE t = Main
    <3> DEFINE r == ls \o Tail(stack[Main])
    <3>1. r # <<>> /\ r[Len(r)] = stack[Main][Len(stack[Main])]
      BY <1>1, <2>2, <2>4, PushedLabels, UpperStep DEF Shapes
    <3>2. stack'[Main] = r /\ \A u \in Threads \ {Main} : stack'[u] = stack[u]
      BY <1>1, <2>3, <2>4 DEF Shapes
    <3> HIDE DEF r
    <3> QED
      BY <2>2, <2>4, <3>1, <3>2 DEF Early
  <2>5. CASE t # Main
    <3>1. stack'[Main] = stack[Main]
      BY <1>1, <2>3, <2>5 DEF Shapes
    <3> QED
      BY <1>2, <2>2, <2>5, <3>1
  <2> QED
    BY <2>4, <2>5
<1>4. ASSUME NEW t \in Threads, Signal(t)
      PROVE  Early'
  <2>1. stack[t] # <<>> /\ stack' = [stack EXCEPT ![t] = <<"test">> \o @]
    BY <1>4 DEF Signal
  <2>2. CASE t = Main
    <3> DEFINE s == stack[Main]
               r == <<"test">> \o s
    <3>1. s \in Seq(Labels) /\ Len(s) \in Nat \ {0}
      BY <1>1, <2>1, <2>2, EmptySeq DEF Shapes
    <3>2. <<"test">> \in Seq(Labels) /\ Len(<<"test">>) = 1
      BY DEF Labels, HandlerLabels
    <3>3. Len(r) = Len(s) + 1 /\ r[Len(s) + 1] = s[Len(s)]
      BY <3>1, <3>2, ConcatProperties
    <3>4. stack'[Main] = r /\ \A u \in Threads \ {Main} : stack'[u] = stack[u]
      BY <1>1, <2>1, <2>2 DEF Shapes
    <3> HIDE DEF r
    <3> QED
      BY <2>1, <2>2, <3>3, <3>4 DEF Early
  <2>3. CASE t # Main
    <3>1. stack'[Main] = stack[Main]
      BY <1>1, <2>1, <2>3 DEF Shapes
    <3> QED
      BY <1>2, <2>1, <2>3, <3>1
  <2> QED
    BY <2>2, <2>3
<1>5. ASSUME NEW t \in Threads, SendSomething(t) \/ End(t) \/ Die(t)
      PROVE  Early'
  <2>1. At(t, "work") /\ \E ls \in WorkLists : Replace(t, ls)
    BY <1>5 DEF SendSomething, End, Die, WorkLists
  <2>2. t # Main
    <3>1. "work" \notin Upper
      BY DEF Upper, SendLabels, HandlerLabels
    <3>2. "work" \in Bottoms(t)
      BY <1>1, <2>1, <3>1, AtTop
    <3> QED
      BY <3>2 DEF Bottoms, MainLabels
  <2>3. stack[t] # <<>> /\ stack'[Main] = stack[Main]
    BY <1>1, <2>1, <2>2 DEF At, Replace, Shapes
  <2> QED
    BY <1>2, <2>2, <2>3
<1>6. CASE ResetStop \/ Loop \/ Receive \/ ReceiveEnd \/ Timeout \/ JoinThreads \/ Disconnect
  <2>1. PICK b \in {"reset", "loop", "recv", "join", "destroy"} :
          At(Main, b) /\ \E ls \in MainLists : Replace(Main, ls) /\ (ls = <<"create">> => b = "reset")
    BY <1>6 DEF ResetStop, Loop, Receive, ReceiveEnd, Timeout, JoinThreads, Disconnect, MainLists
  <2>2. PICK ls \in MainLists : Replace(Main, ls) /\ (ls = <<"create">> => b = "reset")
    BY <2>1
  <2>3. b \notin Upper /\ stack[Main] # <<>> /\ Head(stack[Main]) = b
    BY <2>1 DEF Upper, SendLabels, HandlerLabels, At
  <2>4. stack[Main] = <<b>> /\ Len(stack[Main]) = 1 /\ \A l \in Seq(Labels) : l \o Tail(stack[Main]) = l
    BY <1>1, <2>3, OwnCode DEF Shapes
  <2>5. ls \in Seq(Labels)
    BY <1>1, OwnLists
  <2>6. stack'[Main] = ls /\ \A u \in Threads \ {Main} : stack'[u] = stack[u]
    BY <1>1, <2>2, <2>4, <2>5 DEF Replace, Shapes
  <2>7. CASE ls = <<"create">>
    <3>1. stack[Main][Len(stack[Main])] = "reset"
      BY <2>2, <2>4, <2>7
    <3> QED
      BY <2>3, <2>6, <3>1 DEF Early
  <2>8. CASE ls # <<"create">>
    <3>1. ls = <<>> \/ ls[Len(ls)] \notin {"reset", "create"}
      BY <2>8 DEF MainLists
    <3> QED
      BY <2>6, <3>1 DEF Early
  <2> QED
    BY <2>7, <2>8
<1>7. CASE Create
  <2>1. stack'[Main] = <<"loop">>
    BY <1>1, <1>7 DEF Create
  <2>2. stack'[Main][Len(stack'[Main])] = "loop"
    BY <2>1
  <2> QED
    BY <2>2 DEF Early
<1>8. CASE Close \/ Lose \/ UNCHANGED vars
  BY <1>8 DEF Close, Lose, vars, Early
<1> QED
  BY <1>1, <1>3, <1>4, <1>5, <1>6, <1>7, <1>8 DEF Next, AppMain

\* Every step keeps the owner inside.
LEMMA KeptStep ==
    ASSUME SendingInv, Kept, Early, [Next]_vars
    PROVE  Kept'
<1> USE SendingAssumption
<1>1. Shapes /\ Main \in Threads /\ Workers \subseteq Threads
  BY DEF SendingInv, Threads, Joined
<1>2. {"work", "reset", "loop", "recv", "join", "destroy"} \subseteq Labels \ Upper
  BY DEF Labels, Upper, SendLabels, HandlerLabels
<1>3. ASSUME NEW t \in Threads, SendSomething(t) \/ End(t) \/ Die(t)
      PROVE  Kept'
  <2>1. At(t, "work") /\ owner' = owner
    BY <1>3 DEF SendSomething, End, Die
  <2>2. t # Main
    <3>1. "work" \in Bottoms(t)
      BY <1>1, <1>2, <2>1, AtTop
    <3> QED
      BY <3>1 DEF Bottoms, MainLabels
  <2>3. PICK ls \in WorkLists : Replace(t, ls)
    BY <1>3 DEF SendSomething, End, Die, WorkLists
  <2> QED
    BY <1>2, <2>1, <2>2, <2>3, KeptOwn
<1>4. CASE ResetStop \/ Loop \/ Receive \/ ReceiveEnd \/ Timeout \/ JoinThreads
  <2>1. owner' = owner /\ \E b \in {"reset", "loop", "recv", "join"} : At(Main, b)
    BY <1>4 DEF ResetStop, Loop, Receive, ReceiveEnd, Timeout, JoinThreads
  <2>2. PICK ls \in MainLists : Replace(Main, ls)
    BY <1>4 DEF ResetStop, Loop, Receive, ReceiveEnd, Timeout, JoinThreads, MainLists
  <2> QED
    BY <1>1, <1>2, <2>1, <2>2, KeptOwn
<1>5. CASE Disconnect
  <2>1. At(Main, "destroy") /\ Replace(Main, <<>>)
        /\ owner' = IF owner = None THEN "destroyed" ELSE owner
    BY <1>5 DEF Disconnect
  <2>2. CASE owner = None
    BY <2>1, <2>2 DEF Kept
  <2>3. CASE owner # None
    <3>1. owner' = owner /\ <<>> \in MainLists
      BY <2>1, <2>3 DEF MainLists
    <3> QED
      BY <1>1, <1>2, <2>1, <3>1, KeptOwn
  <2> QED
    BY <2>2, <2>3
<1>6. CASE Close \/ Lose \/ UNCHANGED vars
  BY <1>6 DEF Close, Lose, vars, Kept
<1>7. ASSUME NEW t \in Threads, Signal(t)
      PROVE  Kept'
  BY <1>1, <1>7, KeptSignal
<1> QED
  BY <1>1, <1>3, <1>4, <1>5, <1>6, <1>7, KeptUpper, KeptCreate DEF Next, AppMain

\* SendLine unlocks mutexSend on every way out of it, so whoever has it goes on, and
\* the one deadlock of the mutex is a handler that has interrupted its own SendLine.
THEOREM OwnerGoesOnAlways == Spec => []OwnerGoesOn
<1>1. SendingInv /\ Kept => OwnerGoesOn
  <2> SUFFICES ASSUME SendingInv, Kept, NEW t \in Threads, owner = t
               PROVE  \/ WaitsForItself(t)
                      \/ \E label \in {"send", "unlock"} \cup HandlerLabels : At(t, label)
    BY DEF OwnerGoesOn
  <2> DEFINE s == stack[t]
  <2>1. s \in Seq(Labels) /\ Shape(t, s)
    BY DEF SendingInv, Shapes
  <2>2. PICK i \in 1..Len(s) : s[i] \in Inside
    BY DEF Kept
  <2>3. s # <<>> /\ Len(s) \in Nat /\ Head(s) = s[1]
    <3>1. Len(s) \in Nat /\ Len(s) # 0
      BY <2>1, <2>2
    <3> QED
      BY <2>1, <3>1
  <2>4. s[Len(s)] \notin Inside
    BY <2>1, <2>3 DEF Shape, Bottoms, MainLabels, Inside
  <2>5. 1 \in 1..(Len(s) - 1)
    BY <2>2, <2>3, <2>4
  <2>6. s[1] \in Upper
    BY <2>1, <2>3, <2>5 DEF Shape
  <2>7. At(t, s[1])
    BY <2>3 DEF At
  <2> HIDE DEF s
  <2>8. s[1] = "lock" \/ s[1] \in {"send", "unlock"} \cup HandlerLabels
    BY <2>6 DEF Upper, SendLabels
  <2> QED
    BY <2>7, <2>8 DEF WaitsForItself
<1>2. Init => Kept /\ Early
  <2> SUFFICES ASSUME Init PROVE Kept /\ Early
    OBVIOUS
  <2>1. Kept
    BY SendingAssumption DEF Init, Kept
  <2>2. \A t \in Threads \ {Main} : stack[t] = <<>>
    BY DEF Init
  <2> QED
    BY <2>1, <2>2 DEF Early
<1>3. SendingInv /\ Kept /\ Early /\ [Next]_vars => Kept' /\ Early'
  BY KeptStep, EarlyStep
<1> QED
  BY <1>1, <1>2, <1>3, InvInit, InvStep, PTL DEF Spec
=============================================================================
