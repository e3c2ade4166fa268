-------------------------- MODULE ReceiveLoopProofs --------------------------
(***************************************************************************)
(* Proofs about ReceiveLoop for every number of lines, every set of        *)
(* commands and every bound on the parsed lines.                           *)
(***************************************************************************)
EXTENDS ReceiveLoop, SequenceTheorems, FiniteSetTheorems,
        WellFoundedInduction, TLAPS

\* Every disjunct of Next, as a list of cases: used by the step lemmas below.
StepCases ==
    \/ LoopTest
    \/ \E n \in Stream : Receive(n)
    \/ ReceiveNothing
    \/ ReceiveError
    \/ ParseLine
    \/ EndOfText
    \/ \E l \in 1..MaxParsed : Execute(l)
    \/ StopRequest
    \/ FreeLast
    \/ Flush
    \/ UNCHANGED vars

\* A nonempty set of numbers with an upper bound has a least one.
LEMMA LeastExists ==
    ASSUME NEW n \in Nat, NEW S \in SUBSET (0..n), S # {}
    PROVE  \E i \in S : \A j \in S : i <= j
<1> DEFINE UpTo(k) == S \cap 0..k
           T == {UpTo(k) : k \in S}
           R == StrictSubsetOrdering(0..n)
<1>1. T \subseteq FiniteSubsetsOf(0..n) /\ T # {}
  <2>1. FiniteSubsetsOf(0..n) = SUBSET (0..n)
    <3>1. IsFiniteSet(0..n)
      BY FS_Interval
    <3> QED
      BY <3>1, FS_FiniteSubsetsOfFinite, Zenon
  <2>2. \A k \in S : UpTo(k) \in SUBSET (0..n)
    OBVIOUS
  <2> HIDE DEF UpTo
  <2>3. T \subseteq SUBSET (0..n) /\ T # {}
    BY <2>2, Zenon
  <2> QED
    BY <2>1, <2>3, Zenon
<1>2. IsWellFoundedOn(R, FiniteSubsetsOf(0..n))
  BY FS_StrictSubsetOrderingWellFounded
<1> HIDE DEF T, R
<1>3. PICK x \in T : \A y \in T : ~(<<y, x>> \in R)
  BY <1>1, <1>2, WFMin
<1>4. PICK i \in S : x = UpTo(i)
  BY <1>3 DEF T
<1>5. ASSUME NEW j \in S, j < i PROVE FALSE
  <2>1. UpTo(j) \subseteq x /\ i \in x /\ i \notin UpTo(j)
    BY <1>4, <1>5
  <2>2. <<UpTo(j), x>> \in R
    BY <1>4, <2>1 DEF R, StrictSubsetOrdering
  <2> QED
    BY <1>3, <2>2 DEF T
<1> QED
  BY <1>5

\* strchr finds the first return of a string that has one.
LEMMA FirstReturnExists ==
    ASSUME NEW s \in Seq(Stream), Returns(s) # {}
    PROVE  /\ FirstReturn(s) \in Returns(s)
           /\ FirstReturn(s) \in 1..Len(s)
           /\ \A j \in Returns(s) : FirstReturn(s) <= j
<1>1. Returns(s) \subseteq 1..Len(s) /\ Len(s) \in Nat
  BY DEF Returns
<1>2. \E i \in Returns(s) : \A j \in Returns(s) : i <= j
  <2>1. Returns(s) \in SUBSET (0..Len(s))
    BY <1>1
  <2> QED
    BY <1>1, <2>1, LeastExists
<1>3. FirstReturn(s) \in Returns(s) /\ \A j \in Returns(s) : FirstReturn(s) <= j
  BY <1>2 DEF FirstReturn
<1> QED
  BY <1>1, <1>3

\* The line that is cut out, and what is left, are strings of the stream.
LEMMA CutTypes ==
    ASSUME NEW s \in Seq(Stream), NEW i \in 1..Len(s)
    PROVE  /\ SubSeq(s, 1, i - 1) \in Seq(Stream)
           /\ Advance(s, i) \in Seq(Stream)
<1>1. \A j \in 1..Len(s) : s[j] \in Stream
  OBVIOUS
<1>2. Len(s) \in Nat
  OBVIOUS
<1>3. SubSeq(s, 1, i - 1) \in Seq(Stream)
  BY <1>1, <1>2, SubSeqProperties
<1>4. SubSeq(s, i + 2, Len(s)) \in Seq(Stream)
  BY <1>1, <1>2, SubSeqProperties
<1> QED
  BY <1>3, <1>4 DEF Advance

\* The characters recv writes to the buffer.
LEMMA NewCharacters ==
    ASSUME NEW n \in Stream, received \in Nat, received + n \in Stream
    PROVE  LET new == [i \in 1..n |-> received + i]
           IN  /\ new \in Seq(Stream)
               /\ Len(new) = n /\ DOMAIN new = 1..n
               /\ \A i \in 1..n : new[i] = received + i
<1> DEFINE new == [i \in 1..n |-> received + i]
<1>1. n \in Nat /\ 3 * NumLines \in Nat
  BY BoundsAssumption DEF Stream
<1>2. \A i \in 1..n : received + i \in Stream
  BY <1>1 DEF Stream
<1>3. new \in [1..n -> Stream]
  BY <1>2
<1>4. new \in Seq(Stream) /\ Len(new) = n
  BY <1>1, <1>3
<1> QED
  BY <1>4

\* TypeOK is inductive: the types of the variables of AppMain.
LEMMA TypeStep == TypeOK /\ [Next]_vars => TypeOK'
<1> SUFFICES ASSUME TypeOK, [Next]_vars PROVE TypeOK'
  OBVIOUS
<1> USE BoundsAssumption DEF TypeOK, Goto, memory, history
<1>0. StepCases
  BY DEF Next, StepCases, vars
<1>1. CASE LoopTest
  BY <1>1 DEF LoopTest
<1>2. ASSUME NEW n \in Stream, Receive(n) PROVE TypeOK'
  <2>1. received + n \in Stream /\ received' = received + n
    BY <1>2 DEF Receive
  <2>2. n \in Nat /\ received \in Nat /\ 3 * NumLines \in Nat
    BY DEF Stream
  <2>4. [i \in 1..n |-> received + i] \in Seq(Stream)
    BY <2>1, <2>2, NewCharacters
  <2>5. buffer' \in Seq(Stream) /\ text' \in Seq(Stream)
    BY <1>2, <2>4, ConcatProperties DEF Receive, Joined
  <2>6. received' \in 0..3 * NumLines
    BY <2>1 DEF Stream
  <2>7. /\ UNCHANGED <<rest, parsed, msgLine, queued, freed, twice, errors, stop>>
        /\ split' \in BOOLEAN
        /\ pc' = "parse"
    BY <1>2 DEF Receive
  <2> QED
    BY <2>5, <2>6, <2>7
<1>3. CASE ReceiveNothing
  <2>1. text' \in Seq(Stream)
    BY <1>3, ConcatProperties DEF ReceiveNothing, Joined
  <2> QED
    BY <1>3, <2>1 DEF ReceiveNothing
<1>4. CASE ReceiveError
  <2>1. text' \in Seq(Stream)
    BY <1>4, ConcatProperties DEF ReceiveError, Joined
  <2> QED
    BY <1>4, <2>1 DEF ReceiveError
<1>5. CASE ParseLine
  <2> DEFINE i == FirstReturn(text)
             line == SubSeq(text, 1, i - 1)
  <2>1. i \in 1..Len(text)
    BY <1>5, FirstReturnExists DEF ParseLine
  <2>2. line \in Seq(Stream) /\ Advance(text, i) \in Seq(Stream)
    BY <2>1, CutTypes
  <2>3. parsed' = Append(parsed, line) /\ text' = Advance(text, i)
    BY <1>5 DEF ParseLine
  <2>4. parsed' \in Seq(Seq(Stream)) /\ Len(parsed') = Len(parsed) + 1
    BY <2>2, <2>3, AppendProperties
  <2>5. msgLine' \in {0, Len(parsed) + 1}
    BY <1>5 DEF ParseLine, preParser
  <2>6. queued' \subseteq queued \cup {Len(parsed) + 1}
    BY <1>5 DEF ParseLine
  <2>7. /\ Len(parsed) < MaxParsed
        /\ UNCHANGED <<received, buffer, rest, freed, twice, split, errors, stop, pc>>
    BY <1>5 DEF ParseLine
  <2>8. Len(parsed) \in Nat
    OBVIOUS
  <2>9. /\ msgLine' \in 0..Len(parsed')
        /\ queued' \cup freed' \subseteq 1..Len(parsed')
        /\ Len(parsed') <= MaxParsed
    <3>1. msgLine' \in 0..Len(parsed')
      BY <2>4, <2>5, <2>8
    <3>2. queued \cup freed \subseteq 1..Len(parsed') /\ Len(parsed) + 1 \in 1..Len(parsed')
      BY <2>4, <2>8
    <3>3. queued' \cup freed' \subseteq 1..Len(parsed')
      BY <2>6, <2>7, <3>2
    <3>4. Len(parsed') <= MaxParsed
      BY <2>4, <2>7, <2>8
    <3> QED
      BY <3>1, <3>3, <3>4
  <2>10. Returns(rest)' = {}
    BY <2>7 DEF Returns
  <2>11. {buffer, text, rest}' \subseteq Seq(Stream)
    BY <2>2, <2>3, <2>7
  <2> QED
    BY <2>4, <2>7, <2>9, <2>10, <2>11
<1>6. CASE EndOfText
  <2>1. Returns(rest)' = {}
    BY <1>6 DEF EndOfText, Returns
  <2> QED
    BY <1>6, <2>1 DEF EndOfText
<1>7. ASSUME NEW l \in 1..MaxParsed, Execute(l) PROVE TypeOK'
  BY <1>7 DEF Execute, Free, Returns
<1>8. CASE StopRequest
  BY <1>8 DEF StopRequest, Returns
<1>9. CASE FreeLast
  <2>1. /\ UNCHANGED <<received, buffer, text, rest, parsed, msgLine, queued, split,
                       errors, stop>>
        /\ pc' = "flush"
    BY <1>9 DEF FreeLast
  <2>2. CASE msgLine = 0
    BY <1>9, <2>1, <2>2 DEF FreeLast, Returns
  <2>3. CASE msgLine # 0
    <3>1. freed' = freed \cup {msgLine} /\ twice' \in BOOLEAN
      BY <1>9, <2>3 DEF FreeLast, Free
    <3> QED
      BY <2>1, <2>3, <3>1 DEF Returns
  <2> QED
    BY <2>2, <2>3
<1>10. CASE Flush
  BY <1>10 DEF Flush, Returns
<1>11. CASE UNCHANGED vars
  BY <1>11 DEF vars, Returns
<1> QED
  BY <1>0, <1>1, <1>2, <1>3, <1>4, <1>5, <1>6, <1>7, <1>8, <1>9, <1>10, <1>11
     DEF StepCases

\* The buffers of AppMain hold characters of the stream, the kept rest has no
\* complete line, and only lines that were parsed are queued or freed.
THEOREM TypeCorrect == Spec => []TypeOK
<1>1. ASSUME Init PROVE TypeOK
  <2>1. Returns(rest) = {}
    BY <1>1 DEF Init, Returns
  <2>2. <<>> \in Seq(Stream) /\ <<>> \in Seq(Seq(Stream)) /\ Len(<<>>) = 0
    OBVIOUS
  <2>3. /\ received \in 0..3 * NumLines
        /\ errors \in 0..MaxErrors
        /\ Len(parsed) <= MaxParsed
    BY <1>1, BoundsAssumption DEF Init
  <2> QED
    <3>1. {buffer, text, rest} \subseteq Seq(Stream) /\ parsed \in Seq(Seq(Stream))
      BY <1>1, <2>2 DEF Init
    <3>2. msgLine \in 0..Len(parsed) /\ queued \cup freed \subseteq 1..Len(parsed)
      BY <1>1, <2>2 DEF Init
    <3>3. /\ {twice, split, stop} \subseteq BOOLEAN
          /\ pc \in {"loop", "recv", "parse", "free", "flush", "closed"}
      BY <1>1 DEF Init
    <3> QED
      BY <2>1, <2>3, <3>1, <3>2, <3>3 DEF TypeOK
<1> QED
  BY <1>1, TypeStep, PTL DEF Spec

-----------------------------------------------------------------------------
\* Who owns the memory of a line.  In the loop a line of the queue is not freed;
\* behind it only the line of sMsg can be in the queue and freed.  sMsg points to
\* the last line parsed, if to any.
OwnerInv ==
    /\ pc \in {"loop", "recv", "parse", "free"} => ~twice /\ queued \cap freed = {}
    /\ queued \cap freed \subseteq {msgLine}
    /\ msgLine # 0 => Identified(Last(parsed))
    /\ twice => msgLine # 0

\* Each line is put on the queue when it is parsed, and removed from it when it is
\* freed; free(sMsg.pMsgLine) is the one exception: OwnerInv is preserved.
LEMMA OwnerStep == TypeOK /\ OwnerInv /\ [Next]_vars => OwnerInv'
<1> SUFFICES ASSUME TypeOK, OwnerInv, [Next]_vars PROVE OwnerInv'
  OBVIOUS
<1> USE DEF OwnerInv, Goto, memory, history
<1>0. StepCases
  BY DEF Next, StepCases, vars
<1>1. CASE LoopTest
  BY <1>1 DEF LoopTest, Identified
<1>2. ASSUME NEW n \in Stream, Receive(n) PROVE OwnerInv'
  BY <1>2 DEF Receive
<1>3. CASE ReceiveNothing
  BY <1>3 DEF ReceiveNothing
<1>4. CASE ReceiveError
  BY <1>4 DEF ReceiveError
<1>5. CASE ParseLine
  <2> DEFINE i == FirstReturn(text)
             line == SubSeq(text, 1, i - 1)
  <2>1. parsed \in Seq(Seq(Stream)) /\ Len(parsed) \in Nat
        /\ queued \cup freed \subseteq 1..Len(parsed)
    BY DEF TypeOK
  <2>2. line \in Seq(Stream)
    BY <1>5, FirstReturnExists, CutTypes DEF ParseLine, TypeOK
  <2>3. parsed' = Append(parsed, line)
    BY <1>5 DEF ParseLine
  <2>4. Last(parsed') = line
    BY <2>1, <2>2, <2>3, AppendProperties DEF Last
  <2>5. msgLine' # 0 => Identified(line)
    BY <1>5 DEF ParseLine, preParser
  <2>6. msgLine' # 0 => Identified(Last(parsed'))
    BY <2>4, <2>5
  <2>7. queued' \cap freed' = {}
    <3>1. Len(parsed) + 1 \notin freed
      BY <2>1
    <3>2. queued' \subseteq queued \cup {Len(parsed) + 1} /\ freed' = freed
      BY <1>5 DEF ParseLine
    <3>3. queued \cap freed = {}
      BY <1>5 DEF ParseLine
    <3> QED
      BY <3>1, <3>2, <3>3
  <2>8. pc = "parse" /\ pc' = pc /\ twice' = twice
    BY <1>5 DEF ParseLine
  <2> QED
    BY <2>6, <2>7, <2>8
<1>6. CASE EndOfText
  BY <1>6 DEF EndOfText
<1>7. ASSUME NEW l \in 1..MaxParsed, Execute(l) PROVE OwnerInv'
  <2>1. /\ l \in queued /\ l # 0
        /\ queued' = queued \ {l}
        /\ freed' = freed \cup {l}
        /\ twice' = (twice \/ l \in freed)
        /\ UNCHANGED <<pc, msgLine, parsed>>
    BY <1>7 DEF Execute, Free
  <2>2. queued' \cap freed' \subseteq queued \cap freed
    BY <2>1
  <2>3. l \in freed => l = msgLine /\ pc \notin {"loop", "recv", "parse", "free"}
    BY <2>1
  <2> QED
    BY <2>1, <2>2, <2>3
<1>8. CASE StopRequest
  BY <1>8 DEF StopRequest
<1>9. CASE FreeLast
  <2>1. /\ pc = "free" /\ pc' = "flush"
        /\ UNCHANGED <<msgLine, queued, parsed>>
    BY <1>9 DEF FreeLast
  <2>2. freed' \subseteq freed \cup {msgLine} /\ (twice' => msgLine # 0)
    BY <1>9 DEF FreeLast, Free
  <2> QED
    BY <2>1, <2>2
<1>10. CASE Flush
  BY <1>10 DEF Flush
<1>11. CASE UNCHANGED vars
  BY <1>11 DEF vars
<1> QED
  BY <1>0, <1>1, <1>2, <1>3, <1>4, <1>5, <1>6, <1>7, <1>8, <1>9, <1>10, <1>11
     DEF StepCases

\* A line is freed twice only by free(sMsg.pMsgLine) behind the loop, and only when
\* the last line parsed was queued.
THEOREM FreedOnceAlways == Spec => []FreedOnce
<1>1. Init => OwnerInv
  BY DEF Init, OwnerInv
<1>2. OwnerInv => FreedOnce
  BY DEF OwnerInv, FreedOnce
<1> QED
  BY <1>1, <1>2, TypeCorrect, OwnerStep, PTL DEF Spec

-----------------------------------------------------------------------------
\* Every return of the text is followed by its line feed: the rest has no return,
\* and what is received, or taken again, is a piece of the stream.
FeedInv ==
    /\ \A k \in 1..Len(buffer) - 1 : buffer[k + 1] = buffer[k] + 1
    /\ pc = "parse" =>
         \A k \in 1..Len(text) - 1 : IsReturn(text[k]) => text[k + 1] = text[k] + 1

\* A piece of the stream behind a rest without returns.
LEMMA JoinFeed ==
    ASSUME NEW s \in Seq(Stream), NEW new \in Seq(Stream), Returns(s) = {},
           \A k \in 1..Len(new) - 1 : new[k + 1] = new[k] + 1
    PROVE  \A k \in 1..Len(s \o new) - 1 :
             IsReturn((s \o new)[k]) => (s \o new)[k + 1] = (s \o new)[k] + 1
<1> DEFINE t == s \o new
<1>1. /\ Len(s) \in Nat /\ Len(new) \in Nat
      /\ Len(t) = Len(s) + Len(new)
      /\ \A i \in 1..Len(s) + Len(new) : t[i] = IF i <= Len(s) THEN s[i] ELSE new[i - Len(s)]
  BY ConcatProperties
<1>2. \A i \in 1..Len(s) : ~IsReturn(s[i])
  BY DEF Returns
<1> HIDE DEF t
<1>3. SUFFICES ASSUME NEW k \in 1..Len(t) - 1, IsReturn(t[k]) PROVE t[k + 1] = t[k] + 1
  BY DEF t
<1>4. k > Len(s)
  <2>1. CASE k <= Len(s)
    <3>1. k \in 1..Len(s) /\ t[k] = s[k]
      BY <1>1, <2>1
    <3> QED
      BY <1>2, <1>3, <3>1
  <2> QED
    BY <1>1, <2>1
<1>5. t[k] = new[k - Len(s)] /\ t[k + 1] = new[k - Len(s) + 1]
  BY <1>1, <1>4
<1>6. k - Len(s) \in 1..Len(new) - 1
  BY <1>1, <1>4
<1> QED
  BY <1>5, <1>6

\* What is left behind a cut keeps every pair of return and line feed.
LEMMA CutFeed ==
    ASSUME NEW s \in Seq(Stream), NEW i \in 1..Len(s),
           \A k \in 1..Len(s) - 1 : IsReturn(s[k]) => s[k + 1] = s[k] + 1
    PROVE  \A k \in 1..Len(Advance(s, i)) - 1 :
             IsReturn(Advance(s, i)[k]) => Advance(s, i)[k + 1] = Advance(s, i)[k] + 1
<1>1. Len(s) \in Nat /\ \A j \in 1..Len(s) : s[j] \in Stream
  OBVIOUS
<1>2. CASE i < Len(s)
  <2> DEFINE t == SubSeq(s, i + 2, Len(s))
  <2>1. /\ Len(t) = IF i + 2 <= Len(s) THEN Len(s) - (i + 2) + 1 ELSE 0
        /\ \A k \in 1..Len(s) - (i + 2) + 1 : t[k] = s[i + 2 + k - 1]
    BY <1>1, SubSeqProperties
  <2>2. Advance(s, i) = t
    BY <1>2 DEF Advance
  <2> HIDE DEF t
  <2>3. ASSUME NEW k \in 1..Len(t) - 1 PROVE IsReturn(t[k]) => t[k + 1] = t[k] + 1
    <3>1. /\ i + 1 + k \in 1..Len(s) - 1
          /\ t[k] = s[i + 1 + k]
          /\ t[k + 1] = s[i + 1 + k + 1]
      BY <1>1, <2>1
    <3> QED
      BY <3>1
  <2> QED
    BY <2>2, <2>3
<1>3. CASE i = Len(s)
  <2> DEFINE t == SubSeq(s, 1, i - 1)
  <2>1. /\ Len(t) = IF 1 <= i - 1 THEN i - 1 ELSE 0
        /\ \A k \in 1..i - 1 : t[k] = s[k]
    BY <1>1, SubSeqProperties
  <2>2. Advance(s, i) = t
    BY <1>1, <1>3 DEF Advance
  <2> HIDE DEF t
  <2>3. ASSUME NEW k \in 1..Len(t) - 1 PROVE IsReturn(t[k]) => t[k + 1] = t[k] + 1
    <3>1. k \in 1..Len(s) - 1 /\ t[k] = s[k] /\ t[k + 1] = s[k + 1]
      BY <1>1, <1>3, <2>1
    <3> QED
      BY <3>1
  <2> QED
    BY <2>2, <2>3
<1> QED
  BY <1>1, <1>2, <1>3

\* Receiving joins a piece of the stream to the rest, parsing cuts behind a line
\* feed or keeps a text without a return: FeedInv is preserved.
LEMMA FeedStep == TypeOK /\ FeedInv /\ [Next]_vars => FeedInv'
<1> SUFFICES ASSUME TypeOK, FeedInv, [Next]_vars PROVE FeedInv'
  OBVIOUS
<1> USE DEF FeedInv, Goto, memory, history
<1>0. StepCases
  BY DEF Next, StepCases, vars
<1>1. CASE LoopTest
  BY <1>1 DEF LoopTest
<1>2. ASSUME NEW n \in Stream, Receive(n) PROVE FeedInv'
  <2> DEFINE new == [i \in 1..n |-> received + i]
  <2>1. n \in Nat /\ received \in Nat /\ received + n \in Stream
    BY <1>2, BoundsAssumption DEF Receive, TypeOK, Stream
  <2>2. /\ new \in Seq(Stream) /\ Len(new) = n
        /\ \A k \in 1..n : new[k] = received + k
    BY <2>1, NewCharacters
  <2>3. \A k \in 1..Len(new) - 1 : new[k + 1] = new[k] + 1
    <3>1. \A k \in 1..Len(new) - 1 : k \in 1..n /\ k + 1 \in 1..n
      BY <2>1, <2>2
    <3> HIDE DEF new
    <3> QED
      BY <2>1, <2>2, <3>1
  <2>4. buffer' = new /\ text' = rest \o new
    BY <1>2 DEF Receive, Joined
  <2> HIDE DEF new
  <2>5. rest \in Seq(Stream) /\ Returns(rest) = {}
    BY DEF TypeOK
  <2> QED
    BY <2>2, <2>3, <2>4, <2>5, JoinFeed
<1>3. CASE ReceiveNothing
  <2>1. buffer' = <<>> /\ text' = rest \o <<>>
    BY <1>3 DEF ReceiveNothing, Joined
  <2>2. rest \in Seq(Stream) /\ Returns(rest) = {}
    BY DEF TypeOK
  <2>3. text' = rest
    BY <2>1, <2>2, ConcatEmptySeq
  <2>4. \A k \in 1..Len(rest) - 1 : ~IsReturn(rest[k])
    BY <2>2 DEF Returns
  <2>5. \A k \in 1..Len(buffer') - 1 : buffer'[k + 1] = buffer'[k] + 1
    BY <2>1
  <2> QED
    BY <2>3, <2>4, <2>5
<1>4. CASE ReceiveError
  <2>1. buffer' = buffer /\ text' = rest \o buffer
    BY <1>4 DEF ReceiveError, Joined
  <2>2. rest \in Seq(Stream) /\ Returns(rest) = {} /\ buffer \in Seq(Stream)
    BY DEF TypeOK
  <2> QED
    BY <2>1, <2>2, JoinFeed
<1>5. CASE ParseLine
  <2>1. text \in Seq(Stream) /\ Returns(text) # {} /\ pc = "parse"
    BY <1>5 DEF ParseLine, TypeOK
  <2>2. FirstReturn(text) \in 1..Len(text)
    BY <2>1, FirstReturnExists
  <2>3. text' = Advance(text, FirstReturn(text)) /\ buffer' = buffer
    BY <1>5 DEF ParseLine
  <2> QED
    BY <2>1, <2>2, <2>3, CutFeed
<1>6. CASE EndOfText
  BY <1>6 DEF EndOfText
<1>7. ASSUME NEW l \in 1..MaxParsed, Execute(l) PROVE FeedInv'
  BY <1>7 DEF Execute
<1>8. CASE StopRequest
  BY <1>8 DEF StopRequest
<1>9. CASE FreeLast
  BY <1>9 DEF FreeLast
<1>10. CASE Flush
  BY <1>10 DEF Flush
<1>11. CASE UNCHANGED vars
  BY <1>11 DEF vars
<1> QED
  BY <1>0, <1>1, <1>2, <1>3, <1>4, <1>5, <1>6, <1>7, <1>8, <1>9, <1>10, <1>11
     DEF StepCases

\* The characters of two strings that are joined.
LEMMA ConcatSet ==
    ASSUME NEW s \in Seq(Stream), NEW t \in Seq(Stream)
    PROVE  ToSet(s) \subseteq ToSet(s \o t) /\ ToSet(t) \subseteq ToSet(s \o t)
<1>1. /\ Len(s) \in Nat /\ Len(t) \in Nat
      /\ s \o t \in Seq(Stream)
      /\ Len(s \o t) = Len(s) + Len(t)
      /\ \A i \in 1..Len(s) + Len(t) :
           (s \o t)[i] = IF i <= Len(s) THEN s[i] ELSE t[i - Len(s)]
  BY ConcatProperties
<1> DEFINE u == s \o t
<1> HIDE DEF u
<1>2. DOMAIN u = 1..Len(s) + Len(t) /\ DOMAIN s = 1..Len(s) /\ DOMAIN t = 1..Len(t)
  BY <1>1 DEF u
<1>3. ASSUME NEW i \in DOMAIN s PROVE s[i] = u[i] /\ i \in DOMAIN u
  BY <1>1, <1>2 DEF u
<1>4. ASSUME NEW i \in DOMAIN t PROVE t[i] = u[Len(s) + i] /\ Len(s) + i \in DOMAIN u
  BY <1>1, <1>2 DEF u
<1>5. ToSet(s) \subseteq ToSet(u) /\ ToSet(t) \subseteq ToSet(u)
  BY <1>3, <1>4 DEF ToSet
<1> QED
  BY <1>5 DEF u

\* Behind a return there is a line feed in the stream.
LEMMA FeedIsNoText ==
    ASSUME NEW c \in Nat, IsReturn(c)
    PROVE  ~IsText(c) /\ ~IsText(c + 1)
BY DEF IsReturn, IsText

\* A cut at a return loses the return and its line feed only.
LEMMA CutKeepsText ==
    ASSUME NEW s \in Seq(Stream), NEW i \in 1..Len(s), IsReturn(s[i]),
           \A k \in 1..Len(s) - 1 : IsReturn(s[k]) => s[k + 1] = s[k] + 1,
           NEW p \in ToSet(s), IsText(p)
    PROVE  p \in ToSet(SubSeq(s, 1, i - 1)) \cup ToSet(Advance(s, i))
<1>1. Len(s) \in Nat /\ \A j \in 1..Len(s) : s[j] \in Stream /\ s[j] \in Nat
  BY BoundsAssumption DEF Stream
<1>2. PICK j \in 1..Len(s) : p = s[j]
  BY DEF ToSet
<1>3. j # i
  BY <1>1, <1>2, FeedIsNoText
<1>4. j # i + 1
  <2>1. SUFFICES ASSUME j = i + 1 PROVE FALSE
    OBVIOUS
  <2>2. s[j] = s[i] + 1
    BY <1>1, <2>1
  <2> QED
    BY <1>1, <1>2, <2>2, FeedIsNoText
<1>5. CASE j < i
  <2> DEFINE t == SubSeq(s, 1, i - 1)
  <2>1. /\ t \in Seq(Stream)
        /\ Len(t) = IF 1 <= i - 1 THEN i - 1 ELSE 0
        /\ \A k \in 1..i - 1 : t[k] = s[k]
    BY <1>1, SubSeqProperties
  <2> HIDE DEF t
  <2>2. j \in DOMAIN t /\ t[j] = p
    BY <1>1, <1>2, <1>5, <2>1
  <2>3. p \in ToSet(t)
    BY <2>2 DEF ToSet
  <2> QED
    BY <2>3 DEF t
<1>6. CASE j > i + 1
  <2> DEFINE t == SubSeq(s, i + 2, Len(s))
  <2>1. /\ t \in Seq(Stream)
        /\ Len(t) = IF i + 2 <= Len(s) THEN Len(s) - (i + 2) + 1 ELSE 0
        /\ \A k \in 1..Len(s) - (i + 2) + 1 : t[k] = s[i + 2 + k - 1]
    BY <1>1, SubSeqProperties
  <2>2. Advance(s, i) = t
    BY <1>1, <1>6 DEF Advance
  <2> HIDE DEF t
  <2>3. j - i - 1 \in DOMAIN t /\ t[j - i - 1] = p
    BY <1>1, <1>2, <1>6, <2>1
  <2>4. p \in ToSet(t)
    BY <2>3 DEF ToSet
  <2> QED
    BY <2>2, <2>4
<1> QED
  BY <1>1, <1>3, <1>4, <1>5, <1>6

\* A step keeps NoTextLost when it leaves the parsed lines and what was received
\* alone, and what is still to be parsed at least what it was.
LEMMA KeepText ==
    ASSUME NoTextLost, received' = received, parsed' = parsed,
           ToSet(Pending) \subseteq ToSet(Pending')
    PROVE  NoTextLost'
BY Zenon DEF NoTextLost

\* The characters of the text go to the line, to what is left of the text, and then
\* to the rest, which the next text begins with: NoTextLost is preserved.
LEMMA TextStep == TypeOK /\ FeedInv /\ NoTextLost /\ [Next]_vars => NoTextLost'
<1> SUFFICES ASSUME TypeOK, FeedInv, NoTextLost, [Next]_vars PROVE NoTextLost'
  OBVIOUS
<1> USE DEF Goto, memory, history
<1>0. StepCases
  BY DEF Next, StepCases, vars
<1>1. CASE LoopTest
  <2>1. /\ received' = received /\ parsed' = parsed
        /\ pc # "parse" /\ pc' # "parse" /\ rest' = rest
    BY <1>1 DEF LoopTest
  <2> QED
    BY <2>1, KeepText DEF Pending
<1>2. ASSUME NEW n \in Stream, Receive(n) PROVE NoTextLost'
  <2> DEFINE new == [i \in 1..n |-> received + i]
  <2>1. n \in Nat /\ received \in Nat /\ received + n \in Stream
    BY <1>2, BoundsAssumption DEF Receive, TypeOK, Stream
  <2>2. /\ new \in Seq(Stream) /\ DOMAIN new = 1..n
        /\ \A k \in 1..n : new[k] = received + k
    BY <2>1, NewCharacters
  <2>3. rest \in Seq(Stream)
    BY DEF TypeOK
  <2>4. /\ received' = received + n /\ parsed' = parsed
        /\ Pending = rest /\ Pending' = rest \o new
    BY <1>2 DEF Receive, Joined, Pending
  <2>5. ToSet(rest) \subseteq ToSet(Pending') /\ ToSet(new) \subseteq ToSet(Pending')
    BY <2>2, <2>3, <2>4, ConcatSet
  <2>6. ASSUME NEW p \in 1..received', p \notin 1..received PROVE p \in ToSet(new)
    <3>1. p - received \in 1..n /\ new[p - received] = p
      BY <2>1, <2>4, <2>6
    <3> QED
      BY <2>2, <3>1 DEF ToSet
  <2>7. ASSUME NEW p \in 1..received', IsText(p)
        PROVE  \/ \E i \in DOMAIN parsed' : p \in ToSet(parsed'[i])
               \/ p \in ToSet(Pending')
    <3>1. CASE p \in 1..received
      BY <2>4, <2>5, <2>7, <3>1 DEF NoTextLost
    <3>2. CASE p \notin 1..received
      BY <2>5, <2>6, <3>2
    <3> QED
      BY <3>1, <3>2
  <2> QED
    BY <2>7 DEF NoTextLost
<1>3. CASE ReceiveNothing
  <2>1. /\ received' = received /\ parsed' = parsed
        /\ Pending = rest /\ Pending' = rest \o <<>>
    BY <1>3 DEF ReceiveNothing, Joined, Pending
  <2>2. rest \o <<>> = rest
    BY ConcatEmptySeq DEF TypeOK
  <2> QED
    BY <2>1, <2>2, KeepText
<1>4. CASE ReceiveError
  <2>1. /\ received' = received /\ parsed' = parsed
        /\ Pending = rest /\ Pending' = rest \o buffer
    BY <1>4 DEF ReceiveError, Joined, Pending
  <2>2. rest \in Seq(Stream) /\ buffer \in Seq(Stream)
    BY DEF TypeOK
  <2> QED
    BY <2>1, <2>2, ConcatSet, KeepText
<1>5. CASE ParseLine
  <2> DEFINE i == FirstReturn(text)
             line == SubSeq(text, 1, i - 1)
  <2>1. /\ text \in Seq(Stream) /\ Returns(text) # {}
        /\ parsed \in Seq(Seq(Stream))
        /\ pc = "parse" /\ pc' = "parse"
    BY <1>5 DEF ParseLine, TypeOK
  <2>2. i \in 1..Len(text) /\ IsReturn(text[i])
    BY <2>1, FirstReturnExists DEF Returns
  <2>3. /\ received' = received
        /\ parsed' = Append(parsed, line)
        /\ Pending = text /\ Pending' = Advance(text, i)
    BY <1>5, <2>1 DEF ParseLine, Pending
  <2>4. line \in Seq(Stream)
    BY <2>1, <2>2, CutTypes
  <2> HIDE DEF i, line
  <2>5. /\ \A k \in DOMAIN parsed : k \in DOMAIN parsed' /\ parsed'[k] = parsed[k]
        /\ Len(parsed) + 1 \in DOMAIN parsed' /\ parsed'[Len(parsed) + 1] = line
    BY <2>1, <2>3, <2>4, AppendProperties
  <2>6. ASSUME NEW p \in ToSet(text), IsText(p)
        PROVE  p \in ToSet(line) \cup ToSet(Advance(text, i))
    BY <2>1, <2>2, <2>6, CutKeepsText DEF FeedInv, line
  <2>7. ASSUME NEW p \in 1..received, IsText(p)
        PROVE  \/ \E k \in DOMAIN parsed' : p \in ToSet(parsed'[k])
               \/ p \in ToSet(Pending')
    <3>1. CASE \E k \in DOMAIN parsed : p \in ToSet(parsed[k])
      BY <2>5, <3>1
    <3>2. CASE p \in ToSet(text)
      BY <2>3, <2>5, <2>6, <2>7, <3>2
    <3> QED
      BY <2>3, <2>7, <3>1, <3>2 DEF NoTextLost
  <2> QED
    BY <2>3, <2>7 DEF NoTextLost
<1>6. CASE EndOfText
  <2>1. /\ received' = received /\ parsed' = parsed
        /\ Pending = text /\ Pending' = text
    BY <1>6 DEF EndOfText, Pending
  <2> QED
    BY <2>1, KeepText
<1>7. ASSUME NEW l \in 1..MaxParsed, Execute(l) PROVE NoTextLost'
  BY <1>7, KeepText DEF Execute, Pending
<1>8. CASE StopRequest
  BY <1>8, KeepText DEF StopRequest, Pending
<1>9. CASE FreeLast
  BY <1>9, KeepText DEF FreeLast, Pending
<1>10. CASE Flush
  BY <1>10, KeepText DEF Flush, Pending
<1>11. CASE UNCHANGED vars
  BY <1>11, KeepText DEF vars, Pending
<1> QED
  BY <1>0, <1>1, <1>2, <1>3, <1>4, <1>5, <1>6, <1>7, <1>8, <1>9, <1>10, <1>11
     DEF StepCases

\* However the stream is cut, and also when a receive fails, no character of a
\* line is lost: it was given to preParser or is kept.
THEOREM NoTextLostAlways == Spec => []NoTextLost
<1>1. Init => FeedInv /\ NoTextLost
  <2> SUFFICES ASSUME Init PROVE FeedInv /\ NoTextLost
    OBVIOUS
  <2>1. FeedInv
    BY DEF Init, FeedInv
  <2>2. NoTextLost
    BY DEF Init, NoTextLost
  <2> QED
    BY <2>1, <2>2
<1> QED
  BY <1>1, TypeCorrect, FeedStep, TextStep, PTL DEF Spec

-----------------------------------------------------------------------------
\* While no receive ends in a carriage return or fails, the parsed lines are the
\* texts of the server's lines so far, and what is still to be parsed is the rest
\* of what was received, from the beginning of a line on.
OrderInv ==
    ~split /\ errors = 0 =>
        /\ ~IsReturn(received)
        /\ 3 * Len(parsed) <= received
        /\ \A i \in DOMAIN parsed : parsed[i] = <<3 * i - 2>>
        /\ Pending = [k \in 1..received - 3 * Len(parsed) |-> 3 * Len(parsed) + k]

\* The lines joined by FlattenSeq are the stream up to the end of the last one.  The
\* stream's beginnings follow the equation of FlattenSeq, and no other function does.
LEMMA FlattenLines ==
    ASSUME NEW n \in Nat
    PROVE  FlattenSeq([i \in 1..n |-> <<3 * i - 2, 3 * i - 1, 3 * i>>]) = [p \in 1..3 * n |-> p]
<1> DEFINE lines == [i \in 1..n |-> <<3 * i - 2, 3 * i - 1, 3 * i>>]
           Upto(m) == [p \in 1..3 * m |-> p]
<1>1. lines \in Seq(Seq(Nat)) /\ Len(lines) = n
  <2>1. \A i \in 1..n : <<3 * i - 2, 3 * i - 1, 3 * i>> \in Seq(Nat)
    OBVIOUS
  <2> QED
    BY <2>1
<1>2. CASE n = 0
  BY <1>1, <1>2 DEF FlattenSeq
<1>3. CASE n # 0
  <2> DEFINE Follows(f) == f = [i \in 1..Len(lines) |->
                                   IF i = 1 THEN lines[i] ELSE f[i - 1] \o lines[i]]
             joined == CHOOSE f : Follows(f)
             g == [i \in 1..n |-> Upto(i)]
  <2>1. FlattenSeq(lines) = joined[n]
    BY <1>1, <1>3 DEF FlattenSeq
  <2>2. lines[1] = Upto(1)
    <3>1. lines[1] = <<1, 2, 3>>
      BY <1>3
    <3> QED
      BY <3>1
  <2>3. ASSUME NEW i \in 1..n, i # 1 PROVE Upto(i - 1) \o lines[i] = Upto(i)
    <3>1. lines[i] = <<3 * i - 2, 3 * i - 1, 3 * i>>
      OBVIOUS
    <3>2. Upto(i - 1) \in Seq(Nat) /\ Len(Upto(i - 1)) = 3 * (i - 1)
      BY <2>3
    <3>3. Upto(i) \in Seq(Nat) /\ Len(Upto(i)) = 3 * i
      OBVIOUS
    <3>4. lines[i] \in Seq(Nat) /\ Len(lines[i]) = 3
      BY <3>1
    <3>5. ASSUME NEW p \in 1..3 * i PROVE (Upto(i - 1) \o lines[i])[p] = Upto(i)[p]
      <4>1. CASE p <= 3 * (i - 1)
        BY <3>2, <3>4, <4>1, ConcatProperties
      <4>2. CASE p > 3 * (i - 1)
        <5>1. (Upto(i - 1) \o lines[i])[p] = lines[i][p - 3 * (i - 1)]
          BY <3>2, <3>4, <4>2, ConcatProperties
        <5>2. p - 3 * (i - 1) \in {1, 2, 3}
          BY <4>2
        <5>3. lines[i][p - 3 * (i - 1)] = p
          BY <3>1, <5>2
        <5> QED
          BY <5>1, <5>3
      <4> QED
        BY <4>1, <4>2
    <3>6. Upto(i - 1) \o lines[i] \in Seq(Nat) /\ Len(Upto(i - 1) \o lines[i]) = 3 * i
      BY <3>2, <3>4, ConcatProperties
    <3> HIDE DEF Upto, lines
    <3> QED
      BY <3>3, <3>5, <3>6, SeqEqual
  <2> HIDE DEF lines, Upto
  <2>4. Follows(g)
    <3>1. \A i \in 1..n : g[i] = Upto(i)
      OBVIOUS
    <3>2. \A i \in 1..n : i # 1 => i - 1 \in 1..n
      OBVIOUS
    <3>3. \A i \in 1..n : Upto(i) = IF i = 1 THEN lines[i] ELSE g[i - 1] \o lines[i]
      BY <2>2, <2>3, <3>1, <3>2
    <3> QED
      BY <1>1, <3>3
  <2>5. Follows(joined)
    <3> HIDE DEF Follows
    <3> QED
      BY <2>4
  <2> HIDE DEF joined
  <2>6. ASSUME NEW m \in 1..n, joined[m] # g[m],
               \A j \in 1..n : joined[j] # g[j] => m <= j
        PROVE  FALSE
    <3>1. m # 1
      BY <1>1, <1>3, <2>2, <2>5, <2>6
    <3>2. m - 1 \in 1..n /\ joined[m - 1] = g[m - 1]
      BY <2>6, <3>1
    <3> QED
      BY <1>1, <2>3, <2>5, <2>6, <3>1, <3>2
  <2>7. joined[n] = g[n]
    <3> DEFINE S == {i \in 1..n : joined[i] # g[i]}
    <3>1. S \in SUBSET (0..n)
      OBVIOUS
    <3>2. S # {} => \E m \in S : \A j \in S : m <= j
      BY <3>1, LeastExists
    <3>3. S = {}
      BY <2>6, <3>2
    <3> QED
      BY <1>3, <3>3
  <2> QED
    BY <1>3, <2>1, <2>7 DEF lines, Upto
<1> QED
  BY <1>2, <1>3

\* A piece of the stream is the string of its characters.
LEMMA PieceIs ==
    ASSUME NEW s \in Seq(Stream), NEW a \in Nat, NEW n \in Nat,
           Len(s) = n, \A k \in 1..n : s[k] = a + k
    PROVE  s = [k \in 1..n |-> a + k]
BY SeqDef

\* The first line of a text that begins a line and does not end in a return: its
\* text is cut out, and what is left begins behind its line feed.
LEMMA CutWhole ==
    ASSUME NEW s \in Seq(Stream), NEW n \in Nat, NEW m \in Nat,
           s = [k \in 1..m |-> 3 * n + k],
           Returns(s) # {}, ~IsReturn(3 * n + m)
    PROVE  /\ m >= 3
           /\ SubSeq(s, 1, FirstReturn(s) - 1) = <<3 * n + 1>>
           /\ Advance(s, FirstReturn(s)) = [k \in 1..m - 3 |-> 3 * (n + 1) + k]
<1> DEFINE i == FirstReturn(s)
<1>1. /\ Len(s) = m
      /\ DOMAIN s = 1..m
      /\ \A k \in 1..m : s[k] = 3 * n + k
      /\ \A k \in 1..m : s[k] \in Stream
  OBVIOUS
<1>2. i \in 1..m /\ IsReturn(s[i]) /\ \A j \in Returns(s) : i <= j
  BY <1>1, FirstReturnExists DEF Returns
<1> HIDE DEF i
<1>3. i >= 2
  BY <1>1, <1>2 DEF IsReturn
<1>4. 2 \in Returns(s)
  <2>1. 2 \in 1..m /\ s[2] = 3 * n + 2
    BY <1>1, <1>2, <1>3
  <2> QED
    BY <1>1, <2>1 DEF Returns, IsReturn
<1>5. i = 2
  BY <1>2, <1>3, <1>4
<1>6. m >= 3
  <2>1. m # 2
    BY DEF IsReturn
  <2> QED
    BY <1>2, <1>5, <2>1
<1>7. SubSeq(s, 1, 1) = <<3 * n + 1>>
  <2>1. /\ SubSeq(s, 1, 1) \in Seq(Stream)
        /\ Len(SubSeq(s, 1, 1)) = 1
        /\ SubSeq(s, 1, 1)[1] = s[1]
    BY <1>1, <1>6, SubSeqProperties
  <2>2. s[1] = 3 * n + 1 /\ s[1] \in Stream
    BY <1>1, <1>6
  <2>3. <<s[1]>> \in Seq(Stream) /\ Len(<<s[1]>>) = 1 /\ <<s[1]>>[1] = s[1]
    BY <2>2
  <2>4. SubSeq(s, 1, 1) = <<s[1]>>
    <3> DEFINE u == SubSeq(s, 1, 1)
               v == <<s[1]>>
    <3>1. /\ u \in Seq(Stream) /\ v \in Seq(Stream) /\ Len(u) = Len(v)
          /\ \A k \in 1..Len(u) : u[k] = v[k]
      BY <2>1, <2>3
    <3> HIDE DEF u, v
    <3>2. u = v
      BY <3>1, SeqEqual
    <3> QED
      BY <3>2 DEF u, v
  <2> QED
    BY <2>2, <2>4
<1>8. Advance(s, 2) = [k \in 1..m - 3 |-> 3 * (n + 1) + k]
  <2> DEFINE t == SubSeq(s, 4, m)
  <2>1. Advance(s, 2) = t
    BY <1>1, <1>6 DEF Advance
  <2>2. /\ t \in Seq(Stream)
        /\ Len(t) = m - 3
        /\ \A k \in 1..m - 3 : t[k] = s[4 + k - 1]
    BY <1>1, <1>6, SubSeqProperties
  <2> HIDE DEF t
  <2>3. \A k \in 1..m - 3 : t[k] = 3 * (n + 1) + k
    <3>1. \A k \in 1..m - 3 : 4 + k - 1 \in 1..m /\ 3 * n + (4 + k - 1) = 3 * (n + 1) + k
      BY <1>6
    <3> QED
      BY <1>1, <2>2, <3>1
  <2>4. m - 3 \in Nat /\ 3 * (n + 1) \in Nat
    BY <1>6
  <2> QED
    BY <2>1, <2>2, <2>3, <2>4, PieceIs
<1> QED
  BY <1>5, <1>6, <1>7, <1>8 DEF i

\* A step keeps OrderInv when it leaves the parsed lines, what was received, and
\* what is still to be parsed alone.
LEMMA KeepOrder ==
    ASSUME OrderInv, received' = received, parsed' = parsed, Pending' = Pending,
           split' = split, errors' = errors
    PROVE  OrderInv'
BY DEF OrderInv

\* OrderInv is preserved: what is received continues the rest, a cut takes one line.
LEMMA OrderStep == TypeOK /\ OrderInv /\ [Next]_vars => OrderInv'
<1> SUFFICES ASSUME TypeOK, OrderInv, [Next]_vars PROVE OrderInv'
  OBVIOUS
<1> USE DEF Goto, memory, history
<1>0. StepCases
  BY DEF Next, StepCases, vars
<1>1. CASE LoopTest
  BY <1>1, KeepOrder DEF LoopTest, Pending
<1>2. ASSUME NEW n \in Stream, Receive(n) PROVE OrderInv'
  <2> DEFINE new == [i \in 1..n |-> received + i]
             t == rest \o new
             done == 3 * Len(parsed)
  <2>1. n \in Nat /\ received \in Nat /\ received + n \in Stream
    BY <1>2, BoundsAssumption DEF Receive, TypeOK, Stream
  <2>2. /\ new \in Seq(Stream) /\ Len(new) = n
        /\ \A k \in 1..n : new[k] = received + k
    BY <2>1, NewCharacters
  <2>3. rest \in Seq(Stream) /\ Len(rest) \in Nat /\ done \in Nat
    BY DEF TypeOK
  <2>4. /\ received' = received + n /\ parsed' = parsed
        /\ Pending = rest /\ Pending' = t
        /\ errors' = errors
        /\ split' = (split \/ IsReturn(received + n))
    BY <1>2 DEF Receive, Joined, Pending
  <2> HIDE DEF new
  <2>5. ASSUME ~split', errors' = 0
        PROVE  /\ ~IsReturn(received') /\ done <= received'
               /\ \A i \in DOMAIN parsed : parsed[i] = <<3 * i - 2>>
               /\ Pending' = [k \in 1..received' - done |-> done + k]
    <3>1. /\ ~IsReturn(received + n) /\ done <= received
          /\ \A i \in DOMAIN parsed : parsed[i] = <<3 * i - 2>>
          /\ rest = [k \in 1..received - done |-> done + k]
      BY <2>4, <2>5 DEF OrderInv
    <3>2. /\ Len(rest) = received - done
          /\ \A k \in 1..received - done : rest[k] = done + k
      BY <2>1, <2>3, <3>1
    <3>3. /\ t \in Seq(Stream)
          /\ Len(t) = received + n - done
          /\ \A k \in 1..received + n - done :
               t[k] = IF k <= received - done THEN rest[k] ELSE new[k - (received - done)]
      <4>1. /\ t \in Seq(Stream)
            /\ Len(t) = Len(rest) + Len(new)
            /\ \A k \in 1..Len(rest) + Len(new) :
                 t[k] = IF k <= Len(rest) THEN rest[k] ELSE new[k - Len(rest)]
        BY <2>2, <2>3, ConcatProperties
      <4>2. Len(rest) = received - done /\ Len(rest) + Len(new) = received + n - done
        BY <2>1, <2>2, <2>3, <3>2
      <4> HIDE DEF t, done
      <4> QED
        BY <4>1, <4>2
    <3> HIDE DEF t, done
    <3>4. \A k \in 1..received + n - done : t[k] = done + k
      <4> TAKE k \in 1..received + n - done
      <4>1. CASE k <= received - done
        BY <2>1, <2>3, <3>2, <3>3, <4>1
      <4>2. CASE k > received - done
        <5>1. k - (received - done) \in 1..n /\ received + (k - (received - done)) = done + k
          BY <2>1, <2>3, <3>1, <4>2
        <5>2. t[k] = new[k - (received - done)]
          BY <2>1, <2>3, <3>3, <4>2
        <5> QED
          BY <2>2, <5>1, <5>2
      <4> QED
        BY <2>1, <2>3, <4>1, <4>2
    <3>5. received + n - done \in Nat
      BY <2>1, <2>3, <3>1
    <3>6. t = [k \in 1..received + n - done |-> done + k]
      BY <2>3, <3>3, <3>4, <3>5, PieceIs
    <3> QED
      BY <2>1, <2>3, <2>4, <3>1, <3>6
  <2> QED
    BY <2>4, <2>5 DEF OrderInv
<1>3. CASE ReceiveNothing
  <2>1. rest \o <<>> = rest
    BY ConcatEmptySeq DEF TypeOK
  <2>2. /\ received' = received /\ parsed' = parsed
        /\ Pending = rest /\ Pending' = rest \o <<>>
        /\ split' = split /\ errors' = errors
    BY <1>3 DEF ReceiveNothing, Joined, Pending
  <2> QED
    BY <2>1, <2>2, KeepOrder
<1>4. CASE ReceiveError
  <2>1. errors' # 0
    BY <1>4, BoundsAssumption DEF ReceiveError, TypeOK
  <2> QED
    BY <2>1 DEF OrderInv
<1>5. CASE ParseLine
  <2> DEFINE line == SubSeq(text, 1, FirstReturn(text) - 1)
             n == Len(parsed)
             m == received - 3 * n
  <2>1. /\ text \in Seq(Stream) /\ Returns(text) # {}
        /\ parsed \in Seq(Seq(Stream)) /\ n \in Nat /\ received \in Nat
        /\ FirstReturn(text) \in 1..Len(text)
    BY <1>5, FirstReturnExists, BoundsAssumption DEF ParseLine, TypeOK
  <2>2. /\ received' = received
        /\ parsed' = Append(parsed, line)
        /\ Pending = text /\ Pending' = Advance(text, FirstReturn(text))
        /\ split' = split /\ errors' = errors
    BY <1>5 DEF ParseLine, Pending
  <2>3. line \in Seq(Stream)
    BY <2>1, CutTypes
  <2> HIDE DEF line
  <2>4. /\ Len(parsed') = n + 1
        /\ \A k \in 1..n : parsed'[k] = parsed[k]
        /\ parsed'[n + 1] = line
        /\ DOMAIN parsed = 1..n /\ DOMAIN parsed' = 1..n + 1
    BY <2>1, <2>2, <2>3, AppendProperties
  <2>5. ASSUME ~split, errors = 0
        PROVE  /\ ~IsReturn(received) /\ 3 * (n + 1) <= received
               /\ \A i \in DOMAIN parsed' : parsed'[i] = <<3 * i - 2>>
               /\ Pending' = [k \in 1..received - 3 * (n + 1) |-> 3 * (n + 1) + k]
    <3>1. /\ ~IsReturn(received) /\ m \in Nat
          /\ \A i \in 1..n : parsed[i] = <<3 * i - 2>>
          /\ text = [k \in 1..m |-> 3 * n + k]
      <4>1. /\ ~IsReturn(received) /\ 3 * n <= received
            /\ \A i \in DOMAIN parsed : parsed[i] = <<3 * i - 2>>
            /\ Pending = [k \in 1..m |-> 3 * n + k]
        BY <2>5, Zenon DEF OrderInv
      <4>2. m \in Nat
        BY <2>1, <4>1
      <4>3. \A i \in 1..n : parsed[i] = <<3 * i - 2>>
        BY <2>4, <4>1, Zenon
      <4>4. text = [k \in 1..m |-> 3 * n + k]
        BY <2>2, <4>1, Zenon
      <4> QED
        BY <4>1, <4>2, <4>3, <4>4
    <3>2. received = 3 * n + m
      BY <2>1
    <3> HIDE DEF n, m
    <3>3. /\ m >= 3
          /\ line = <<3 * n + 1>>
          /\ Pending' = [k \in 1..m - 3 |-> 3 * (n + 1) + k]
      BY <2>1, <2>2, <3>1, <3>2, CutWhole DEF line
    <3>4. /\ 3 * (n + 1) <= received
          /\ m - 3 = received - 3 * (n + 1)
          /\ 3 * (n + 1) - 2 = 3 * n + 1
      BY <2>1, <3>1, <3>2, <3>3
    <3>5. ASSUME NEW i \in 1..n + 1 PROVE parsed'[i] = <<3 * i - 2>>
      <4>1. CASE i = n + 1
        BY <2>4, <3>3, <3>4, <4>1
      <4>2. CASE i # n + 1
        <5>1. i \in 1..n
          BY <2>1, <4>2
        <5> QED
          BY <2>4, <3>1, <5>1
      <4> QED
        BY <4>1, <4>2
    <3> QED
      BY <2>4, <3>1, <3>3, <3>4, <3>5
  <2> QED
    BY <2>2, <2>4, <2>5 DEF OrderInv
<1>6. CASE EndOfText
  BY <1>6, KeepOrder DEF EndOfText, Pending
<1>7. ASSUME NEW l \in 1..MaxParsed, Execute(l) PROVE OrderInv'
  BY <1>7, KeepOrder DEF Execute, Pending
<1>8. CASE StopRequest
  BY <1>8, KeepOrder DEF StopRequest, Pending
<1>9. CASE FreeLast
  BY <1>9, KeepOrder DEF FreeLast, Pending
<1>10. CASE Flush
  BY <1>10, KeepOrder DEF Flush, Pending
<1>11. CASE UNCHANGED vars
  BY <1>11, KeepOrder DEF vars, Pending
<1> QED
  BY <1>0, <1>1, <1>2, <1>3, <1>4, <1>5, <1>6, <1>7, <1>8, <1>9, <1>10, <1>11
     DEF StepCases

\* The lines given to preParser and what is kept are together what was received.
LEMMA OrderInvGives == TypeOK /\ OrderInv => StreamOrder
<1> SUFFICES ASSUME TypeOK, OrderInv, ~split, errors = 0
             PROVE  FlattenSeq([i \in DOMAIN parsed |-> parsed[i] \o <<3 * i - 1, 3 * i>>])
                      \o Pending = [p \in 1..received |-> p]
  BY DEF StreamOrder
<1> DEFINE n == Len(parsed)
           m == received - 3 * n
           lines == [i \in 1..n |-> <<3 * i - 2, 3 * i - 1, 3 * i>>]
           first == [p \in 1..3 * n |-> p]
<1>1. /\ n \in Nat /\ DOMAIN parsed = 1..n
      /\ received \in Nat /\ m \in Nat
      /\ \A i \in 1..n : parsed[i] = <<3 * i - 2>>
      /\ Pending = [k \in 1..m |-> 3 * n + k]
  BY BoundsAssumption DEF TypeOK, OrderInv
<1>2. [i \in DOMAIN parsed |-> parsed[i] \o <<3 * i - 1, 3 * i>>] = lines
  <2>1. ASSUME NEW i \in 1..n
        PROVE  parsed[i] \o <<3 * i - 1, 3 * i>> = <<3 * i - 2, 3 * i - 1, 3 * i>>
    <3> DEFINE u == <<3 * i - 2>>
               v == <<3 * i - 1, 3 * i>>
               w == <<3 * i - 2, 3 * i - 1, 3 * i>>
    <3>1. parsed[i] = u
      BY <1>1
    <3>2. /\ u \in Seq(Nat) /\ Len(u) = 1 /\ u[1] = 3 * i - 2
          /\ v \in Seq(Nat) /\ Len(v) = 2 /\ v[1] = 3 * i - 1 /\ v[2] = 3 * i
          /\ w \in Seq(Nat) /\ Len(w) = 3
          /\ w[1] = 3 * i - 2 /\ w[2] = 3 * i - 1 /\ w[3] = 3 * i
      BY <1>1
    <3> HIDE DEF u, v, w
    <3>3. /\ u \o v \in Seq(Nat) /\ Len(u \o v) = Len(u) + Len(v)
          /\ \A k \in 1..Len(u) + Len(v) :
               (u \o v)[k] = IF k <= Len(u) THEN u[k] ELSE v[k - Len(u)]
      BY <3>2, ConcatProperties
    <3>4. Len(u \o v) = Len(w) /\ \A k \in 1..Len(u \o v) : (u \o v)[k] = w[k]
      BY <3>2, <3>3
    <3>5. u \o v = w
      BY <3>2, <3>3, <3>4, SeqEqual
    <3> QED
      BY <3>1, <3>5 DEF v, w
  <2> QED
    BY <1>1, <2>1
<1>3. FlattenSeq(lines) = first
  BY <1>1, FlattenLines
<1>4. first \o Pending = [p \in 1..received |-> p]
  <2> DEFINE all == [p \in 1..received |-> p]
  <2>1. first \in Seq(Nat) /\ Len(first) = 3 * n /\ \A p \in 1..3 * n : first[p] = p
    BY <1>1
  <2>2. Pending \in Seq(Nat) /\ Len(Pending) = m /\ \A k \in 1..m : Pending[k] = 3 * n + k
    BY <1>1
  <2>3. all \in Seq(Nat) /\ Len(all) = received /\ \A p \in 1..received : all[p] = p
    BY <1>1
  <2>4. 3 * n + m = received /\ n \in Nat /\ m \in Nat /\ received \in Nat
    BY <1>1
  <2> HIDE DEF n, m, first, all
  <2>5. /\ first \o Pending \in Seq(Nat)
        /\ Len(first \o Pending) = received
        /\ \A p \in 1..received :
             (first \o Pending)[p] = IF p <= 3 * n THEN first[p] ELSE Pending[p - 3 * n]
    <3>1. /\ first \o Pending \in Seq(Nat)
          /\ Len(first \o Pending) = Len(first) + Len(Pending)
          /\ \A p \in 1..Len(first) + Len(Pending) :
               (first \o Pending)[p] = IF p <= Len(first) THEN first[p]
                                       ELSE Pending[p - Len(first)]
      BY <2>1, <2>2, ConcatProperties
    <3> QED
      BY <2>1, <2>2, <2>4, <3>1
  <2>6. ASSUME NEW p \in 1..received PROVE (first \o Pending)[p] = p
    <3>1. CASE p <= 3 * n
      BY <2>1, <2>4, <2>5, <3>1
    <3>2. CASE p > 3 * n
      <4>1. p - 3 * n \in 1..m /\ 3 * n + (p - 3 * n) = p
        BY <2>4, <3>2
      <4>2. Pending[p - 3 * n] = p
        BY <2>2, <4>1
      <4> QED
        BY <2>4, <2>5, <3>2, <4>2
    <3>3. p <= 3 * n \/ p > 3 * n
      BY <2>4
    <3> QED
      BY <3>1, <3>2, <3>3, Zenon
  <2>7. first \o Pending = all
    BY <2>3, <2>5, <2>6, SeqEqual
  <2> QED
    BY <2>7 DEF all
<1> QED
  BY <1>2, <1>3, <1>4

\* However the stream is cut, the lines given to preParser are the server's lines,
\* each once, complete and in their order, while no receive ends in a carriage
\* return or fails.
THEOREM StreamOrderAlways == Spec => []StreamOrder
<1>1. Init => OrderInv
  <2> SUFFICES ASSUME Init PROVE OrderInv
    OBVIOUS
  <2>1. received = 0 /\ parsed = <<>> /\ Pending = <<>>
    BY DEF Init, Pending
  <2> QED
    BY <2>1 DEF OrderInv, IsReturn
<1> QED
  BY <1>1, TypeCorrect, OrderStep, OrderInvGives, PTL DEF Spec
=============================================================================
