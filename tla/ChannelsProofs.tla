--------------------------- MODULE ChannelsProofs ---------------------------
(***************************************************************************)
(* Proofs of the properties of Channels, for any number of threads, texts, *)
(* words, mode lines and inputs.                                           *)
(***************************************************************************)
EXTENDS Channels, FiniteSetTheorems, SequenceTheorems, WellFoundedInduction, TLAPS

\* The modes in a line, the operation of a thread, and what !chanmode was given.
RecordModes == StrToChannelMode(record.line)
Op(w) == job[w].item.op
New(w) == StrToChannelMode(job[w].item.line)

Reads == {"topic", "greeting", "chanmode", "topicEvent", "opEvent"}

\* Which handlers a label belongs to.
Fits(label, op) ==
    /\ label \in {"exist", "add"} => op = "addchannel"
    /\ label = "join" => op \in {"addchannel", "join", "kickEvent"}
    /\ label = "del" => op = "rmchannel"
    /\ label = "part" => op \in {"rmchannel", "part"}
    /\ label = "read" => op \in Reads
    /\ label \in {"test", "store"} => Stores(op)
    /\ label = "topic" => op \in {"topic", "topicEvent", "opEvent"}
    /\ label = "mode" => op \in {"chanmode", "opEvent"}

\* Every variable has its type, the bot has op only in the channel, and what has
\* been read or will be stored are modes as chanmode leaves them.
Shapes == /\ TypeOK
          /\ server.op => server.in
          /\ \A w \in Workers : Fits(pc[w], Op(w))
          /\ \A w \in Workers : pc[w] \in {"test", "store", "topic", "mode"}
                                  => Kept(job[w].data.modes)

\* The record is what ChannelModeToStr makes of the modes it is read as.
Canonical(line) == /\ Kept(StrToChannelMode(line))
                   /\ ChannelModeToStr(StrToChannelMode(line)) = line
RecordKept == record # None => Canonical(record.line)

\* What a thread knows that will store, if nobody has changed the record since.
StoreKnows(w) ==
    /\ record # None
    /\ Op(w) # "chanmode" => ChannelModeToStr(job[w].data.modes) = record.line
    /\ Op(w) # "topic" => job[w].data.topic = record.topic
    /\ Op(w) # "greeting" => job[w].data.greeting = record.greeting
    /\ Op(w) = "chanmode" =>
         job[w].data.modes.flags \subseteq
             RecordModes.flags \cup (IF New(w).sign = "+" THEN New(w).flags ELSE {})

\* What a thread knows that will send.
SendKnows(w) ==
    record # None =>
        /\ pc[w] = "topic" => job[w].data.topic = record.topic
        /\ Op(w) = "opEvent" => job[w].data.modes = RecordModes
        /\ Op(w) = "chanmode" /\ New(w).sign = "-" => RecordModes.flags \cap New(w).flags = {}

\* Of one thread, and of all: a store that finds no record is one that was missed.
Knows(w) ==
    /\ pc[w] \in {"test", "store"} /\ w \notin overtaken => StoreKnows(w)
    /\ pc[w] \in {"topic", "mode"} /\ w \notin overtaken => SendKnows(w)
    /\ pc[w] \in {"test", "store"} /\ Op(w) = "chanmode" /\ New(w).sign = "-"
         => job[w].data.modes.flags \cap New(w).flags = {}
    /\ pc[w] = "store" /\ record = None => w \in missed

Knowledge == \A w \in Workers : Knows(w)

\* A message of this kind waits.
Waits(ops) == \E i \in 1..Len(inbox) : inbox[i].op \in ops

\* Somebody will set the topic: the server has told of a change or of op, a thread
\* is about to read the record, or one is about to send.
Brings == {"topicEvent", "opEvent"}
TopicComes == \/ Waits(Brings)
              \/ \E w \in Workers : pc[w] = "read" /\ Op(w) \in Brings
              \/ \E w \in Workers : pc[w] = "topic"

TopicInv == /\ record # None /\ record.topic # None /\ server.op /\ "topic" \notin late
            => server.topic = record.topic \/ TopicComes

\* Somebody will set all the modes, or have the last word with an old record.
ModesCome == \/ Waits({"opEvent"})
             \/ \E w \in Workers : pc[w] \in {"read", "topic", "mode"} /\ Op(w) = "opEvent"
             \/ \E w \in Workers : pc[w] = "mode" /\ w \in overtaken

\* Or this mode.
ModeComes(f) == \E w \in Workers : /\ pc[w] = "mode" /\ Op(w) = "chanmode"
                                   /\ New(w).sign # "-" /\ f \in New(w).flags

ModeCares(f) == f \in server.flags \cup foreign \/ ModeComes(f)

ModesInv == /\ record # None /\ server.op /\ "mode" \notin late
            => ModesCome \/ \A f \in RecordModes.flags : ModeCares(f)

ChannelsInv == Shapes /\ RecordKept /\ Knowledge /\ TopicInv /\ ModesInv
-----------------------------------------------------------------------------
(* The conversions. *)

\* A set of places that is not empty has a last one.
LEMMA LastPlace ==
    ASSUME NEW n \in Nat, NEW S \in SUBSET (1..n), S # {}
    PROVE  Max(S) \in S /\ \A j \in S : j <= Max(S)
<1>1. PICK i \in S : \A j \in S : j <= i
  <2> DEFINE From(k) == S \cap k..n
             T == {From(k) : k \in S}
             R == StrictSubsetOrdering(1..n)
  <2>1. T \subseteq FiniteSubsetsOf(1..n) /\ T # {}
    <3>1. FiniteSubsetsOf(1..n) = SUBSET (1..n)
      <4>1. IsFiniteSet(1..n)
        BY FS_Interval
      <4> QED
        BY <4>1, FS_FiniteSubsetsOfFinite, Zenon
    <3>2. \A k \in S : From(k) \in SUBSET (1..n)
      OBVIOUS
    <3> HIDE DEF From
    <3>3. T \subseteq SUBSET (1..n) /\ T # {}
      BY <3>2, Zenon
    <3> QED
      BY <3>1, <3>3, Zenon
  <2>2. IsWellFoundedOn(R, FiniteSubsetsOf(1..n))
    BY FS_StrictSubsetOrderingWellFounded
  <2> HIDE DEF T, R
  <2>3. PICK x \in T : \A y \in T : ~(<<y, x>> \in R)
    BY <2>1, <2>2, WFMin
  <2>4. PICK i \in S : x = From(i)
    BY <2>3 DEF T
  <2>5. ASSUME NEW j \in S, i < j PROVE FALSE
    <3>1. From(j) \subseteq x /\ i \in x /\ i \notin From(j)
      BY <2>4, <2>5
    <3>2. <<From(j), x>> \in R
      BY <2>4, <3>1 DEF R, StrictSubsetOrdering
    <3> QED
      BY <2>3, <3>2 DEF T
  <2> QED
    BY <2>5
<1> QED
  BY <1>1 DEF Max

\* An argument is a word or a null pointer.
LEMMA ArgumentType ==
    ASSUME NEW line \in Lines, NEW letter \in {"k", "l"}
    PROVE  /\ Argument(line, letter) \in Words \cup {None}
           /\ Argument(line, letter) # None => Places(line, {letter}) # {}
<1> DEFINE places == Places(line, {letter})
           upto == {i \in Places(line, {"k", "l"}) : i <= Max(places)}
<1>1. Len(line.letters) \in Nat /\ line.args \in Seq(Words)
  BY DEF Lines
<1>2. CASE places = {}
  BY <1>2 DEF Argument
<1>3. CASE places # {}
  <2>1. places \in SUBSET (1..Len(line.letters))
    BY DEF Places
  <2>2. Max(places) \in places
    BY <1>1, <1>3, <2>1, LastPlace
  <2>3. Max(places) \in upto /\ upto \subseteq 1..Len(line.letters)
    <3>1. Max(places) \in Places(line, {"k", "l"}) /\ Max(places) \in Nat
      BY <2>2 DEF Places
    <3> QED
      BY <3>1 DEF Places
  <2>4. IsFiniteSet(upto) /\ Cardinality(upto) \in Nat
    <3>1. IsFiniteSet(1..Len(line.letters))
      BY <1>1, FS_Interval
    <3> QED
      BY <2>3, <3>1, FS_Subset, FS_CardinalityType
  <2>5. Cardinality(upto) # 0
    BY <2>3, <2>4, FS_EmptySet
  <2>6. Cardinality(upto) \in 1..Len(line.args)
        => line.args[Cardinality(upto)] \in Words
    BY <1>1, ElementOfSeq
  <2>7. Argument(line, letter) = IF Cardinality(upto) > Len(line.args) THEN None
                                 ELSE line.args[Cardinality(upto)]
    BY <1>3 DEF Argument
  <2>8. Len(line.args) \in Nat
    BY <1>1
  <2> HIDE DEF upto
  <2>9. Argument(line, letter) \in Words \cup {None}
    BY <2>4, <2>5, <2>6, <2>7, <2>8
  <2> QED
    BY <1>3, <2>9
<1> QED
  BY <1>2, <1>3

\* What is read from a line are modes.
LEMMA StrType ==
    ASSUME NEW line \in Lines
    PROVE  /\ StrToChannelMode(line) \in Modes
           /\ StrToChannelMode(line).keyword # None => "k" \in StrToChannelMode(line).flags
           /\ StrToChannelMode(line).limit # None => "l" \in StrToChannelMode(line).flags
<1> DEFINE signs == Places(line, {"+", "-"})
<1>1. (IF signs = {} THEN "none" ELSE line.letters[Max(signs)]) \in {"+", "-", "none"}
  <2>1. CASE signs = {}
    BY <2>1
  <2>2. CASE signs # {}
    <3>1. Len(line.letters) \in Nat /\ signs \in SUBSET (1..Len(line.letters))
      BY DEF Lines, Places
    <3>2. Max(signs) \in signs
      BY <2>2, <3>1, LastPlace
    <3> QED
      BY <2>2, <3>2 DEF Places
  <2> QED
    BY <2>1, <2>2
<1>2. /\ Argument(line, "k") \in Words \cup {None}
      /\ Argument(line, "l") \in Words \cup {None}
  BY ArgumentType
<1>3. {f \in Flags : Places(line, {f}) # {}} \in SUBSET Flags
  OBVIOUS
<1>4. /\ Argument(line, "k") # None => "k" \in {f \in Flags : Places(line, {f}) # {}}
      /\ Argument(line, "l") # None => "l" \in {f \in Flags : Places(line, {f}) # {}}
  BY ArgumentType DEF Flags
<1> QED
  BY <1>1, <1>2, <1>3, <1>4 DEF StrToChannelMode, Modes

\* A word, or none.
LEMMA OptionalType ==
    ASSUME NEW b \in BOOLEAN, NEW x, NEW S, b => x \in S
    PROVE  Optional(b, x) \in Seq(S)
<1>1. CASE b
  BY <1>1, EmptySeq DEF Optional
<1>2. CASE ~b
  BY <1>2, EmptySeq DEF Optional
<1> QED
  BY <1>1, <1>2

\* What is written is a line.
LEMMA ToStrType ==
    ASSUME NEW m \in Modes
    PROVE  ChannelModeToStr(m) \in Lines
<1>1. ModeStr(m) \in Seq(ModeWords)
  <2>1. Optional(m.sign # "none", m.sign) \in Seq(ModeWords)
    <3>1. m.sign # "none" => m.sign \in ModeWords
      BY DEF Modes, ModeWords
    <3> QED
      BY <3>1, OptionalType
  <2>2. /\ Optional("k" \in m.flags, "k") \in Seq(ModeWords)
        /\ Optional("l" \in m.flags, "l") \in Seq(ModeWords)
        /\ Optional("t" \in m.flags, "t") \in Seq(ModeWords)
        /\ Optional("a" \in m.flags, "a") \in Seq(ModeWords)
        /\ Optional("i" \in m.flags, "i") \in Seq(ModeWords)
    <3>1. ASSUME NEW x \in ModeWords
          PROVE  Optional(x \in m.flags, x) \in Seq(ModeWords)
      <4>1. CASE x \in m.flags
        BY <4>1 DEF Optional
      <4>2. CASE x \notin m.flags
        BY <4>2 DEF Optional
      <4> QED
        BY <4>1, <4>2
    <3> QED
      BY <3>1 DEF Flags, ModeWords
  <2> QED
    BY <2>1, <2>2, ConcatProperties DEF ModeStr
<1>2. /\ Optional("k" \in m.flags /\ m.keyword # None, m.keyword) \in Seq(Words)
      /\ Optional("l" \in m.flags /\ m.limit # None, m.limit) \in Seq(Words)
  <2>1. /\ "k" \in m.flags /\ m.keyword # None => m.keyword \in Words
        /\ "l" \in m.flags /\ m.limit # None => m.limit \in Words
    BY DEF Modes
  <2> QED
    BY <2>1, OptionalType
<1> QED
  BY <1>1, <1>2, ConcatProperties DEF ChannelModeToStr, Lines

\* Up to three words: a, b and c are 1 if x, y and z are there.
UpTo3(a, x, b, y, c, z) == Optional(a = 1, x) \o Optional(b = 1, y) \o Optional(c = 1, z)

\* Where they stand.
Words3(s, a, x, b, y, c, z) ==
    /\ s \in Seq({x, y, z})
    /\ Len(s) = a + b + c
    /\ a = 1 => s[1] = x
    /\ b = 1 => s[a + 1] = y
    /\ c = 1 => s[a + b + 1] = z
    /\ \A i \in 1..(a + b + c) : \/ a = 1 /\ s[i] = x
                                 \/ b = 1 /\ s[i] = y
                                 \/ c = 1 /\ s[i] = z

\* They stand there.
LEMMA UpTo3Words ==
    ASSUME NEW a \in {0, 1}, NEW b \in {0, 1}, NEW c \in {0, 1}, NEW x, NEW y, NEW z
    PROVE  Words3(UpTo3(a, x, b, y, c, z), a, x, b, y, c, z)
<1> DEFINE s == UpTo3(a, x, b, y, c, z)
<1>1. CASE a = 1 /\ b = 1 /\ c = 1
  <2>1. s \in Seq({x, y, z}) /\ Len(s) = 3 /\ s[1] = x /\ s[2] = y /\ s[3] = z
    BY <1>1 DEF Optional, UpTo3
  <2> QED
    BY <1>1, <2>1 DEF Words3
<1>2. CASE a = 1 /\ b = 1 /\ c = 0
  <2>1. s \in Seq({x, y, z}) /\ Len(s) = 2 /\ s[1] = x /\ s[2] = y
    BY <1>2 DEF Optional, UpTo3
  <2> QED
    BY <1>2, <2>1 DEF Words3
<1>3. CASE a = 1 /\ b = 0 /\ c = 1
  <2>1. s \in Seq({x, y, z}) /\ Len(s) = 2 /\ s[1] = x /\ s[2] = z
    BY <1>3 DEF Optional, UpTo3
  <2> QED
    BY <1>3, <2>1 DEF Words3
<1>4. CASE a = 1 /\ b = 0 /\ c = 0
  <2>1. s \in Seq({x, y, z}) /\ Len(s) = 1 /\ s[1] = x
    BY <1>4 DEF Optional, UpTo3
  <2> QED
    BY <1>4, <2>1 DEF Words3
<1>5. CASE a = 0 /\ b = 1 /\ c = 1
  <2>1. s \in Seq({x, y, z}) /\ Len(s) = 2 /\ s[1] = y /\ s[2] = z
    BY <1>5 DEF Optional, UpTo3
  <2> QED
    BY <1>5, <2>1 DEF Words3
<1>6. CASE a = 0 /\ b = 1 /\ c = 0
  <2>1. s \in Seq({x, y, z}) /\ Len(s) = 1 /\ s[1] = y
    BY <1>6 DEF Optional, UpTo3
  <2> QED
    BY <1>6, <2>1 DEF Words3
<1>7. CASE a = 0 /\ b = 0 /\ c = 1
  <2>1. s \in Seq({x, y, z}) /\ Len(s) = 1 /\ s[1] = z
    BY <1>7 DEF Optional, UpTo3
  <2> QED
    BY <1>7, <2>1 DEF Words3
<1>8. CASE a = 0 /\ b = 0 /\ c = 0
  <2>1. s \in Seq({x, y, z}) /\ Len(s) = 0
    BY <1>8 DEF Optional, UpTo3
  <2> QED
    BY <1>8, <2>1 DEF Words3
<1> QED
  BY <1>1, <1>2, <1>3, <1>4, <1>5, <1>6, <1>7, <1>8

\* The last of one place.
LEMMA OnePlace ==
    ASSUME NEW i \in Nat \ {0}
    PROVE  Max({i}) = i
BY LastPlace, 1..i # {}, {i} \in SUBSET (1..i)

Has(condition) == IF condition THEN 1 ELSE 0

\* Where the letters stand that ChannelModeToStr writes.
LEMMA WrittenPlaces ==
    ASSUME NEW m \in Modes
    PROVE  LET line == ChannelModeToStr(m)
               a == Has(m.sign # "none")
               b == Has("k" \in m.flags)
           IN /\ Places(line, {"+", "-"}) = IF m.sign = "none" THEN {} ELSE {1}
              /\ m.sign # "none" => line.letters[1] = m.sign
              /\ Places(line, {"k"}) = IF "k" \in m.flags THEN {a + 1} ELSE {}
              /\ Places(line, {"l"}) = IF "l" \in m.flags THEN {a + b + 1} ELSE {}
              /\ Places(line, {"k", "l"}) = Places(line, {"k"}) \cup Places(line, {"l"})
              /\ \A f \in Flags : Places(line, {f}) # {} <=> f \in m.flags
<1> DEFINE a == Has(m.sign # "none")
           b == Has("k" \in m.flags)
           c == Has("l" \in m.flags)
           d == Has("t" \in m.flags)
           e == Has("a" \in m.flags)
           f == Has("i" \in m.flags)
           first == UpTo3(a, m.sign, b, "k", c, "l")
           rest == UpTo3(d, "t", e, "a", f, "i")
           s == ModeStr(m)
<1>1. a \in {0, 1} /\ b \in {0, 1} /\ c \in {0, 1} /\ d \in {0, 1} /\ e \in {0, 1} /\ f \in {0, 1}
  BY DEF Has
<1>2. /\ a = 1 <=> m.sign # "none"
      /\ b = 1 <=> "k" \in m.flags
      /\ c = 1 <=> "l" \in m.flags
      /\ d = 1 <=> "t" \in m.flags
      /\ e = 1 <=> "a" \in m.flags
      /\ f = 1 <=> "i" \in m.flags
  BY DEF Has
<1>3. s = first \o rest
  <2> DEFINE W == {m.sign, "k", "l", "t", "a", "i"}
             t == Optional(d = 1, "t")
             u == Optional(e = 1, "a")
             v == Optional(f = 1, "i")
  <2>1. /\ s = ((first \o t) \o u) \o v
        /\ rest = (t \o u) \o v
    BY <1>2 DEF ModeStr, UpTo3
  <2>2. t \in Seq(W) /\ u \in Seq(W) /\ v \in Seq(W)
    <3>1. ASSUME NEW n, NEW x \in W
          PROVE  Optional(n = 1, x) \in Seq(W)
      <4> HIDE DEF W
      <4>1. CASE n = 1
        BY <4>1 DEF Optional
      <4>2. CASE n # 1
        BY <4>2 DEF Optional
      <4> QED
        BY <4>1, <4>2
    <3> QED
      BY <3>1
  <2>3. first \in Seq(W)
    <3>1. first \in Seq({m.sign, "k", "l"})
      BY <1>1, UpTo3Words DEF Words3
    <3>2. {m.sign, "k", "l"} \subseteq W
      OBVIOUS
    <3> HIDE DEF first, W
    <3> QED
      BY <3>1, <3>2, SeqMonotonic
  <2> HIDE DEF t, u, v, first, s, rest, W
  <2>4. \A x, y, z \in Seq(W) : (x \o y) \o z = x \o (y \o z)
    <3>1. ASSUME NEW x \in Seq(W), NEW y \in Seq(W), NEW z \in Seq(W)
          PROVE  (x \o y) \o z = x \o (y \o z)
      BY ConcatAssociative
    <3> QED
      BY <3>1
  <2>5. t \o u \in Seq(W)
    BY <2>2, ConcatProperties
  <2>6. (first \o t) \o u = first \o (t \o u)
    BY <2>2, <2>3, <2>4, Zenon
  <2>7. (first \o (t \o u)) \o v = first \o ((t \o u) \o v)
    BY <2>2, <2>3, <2>4, <2>5, Zenon
  <2> QED
    BY <2>1, <2>6, <2>7, Zenon
<1> HIDE DEF a, b, c, d, e, f, s
<1>4. Words3(first, a, m.sign, b, "k", c, "l")
  BY <1>1, UpTo3Words
<1>5. Words3(rest, d, "t", e, "a", f, "i")
  BY <1>1, UpTo3Words
<1> HIDE DEF first, rest
<1>6. /\ Len(s) = a + b + c + (d + e + f)
      /\ \A n \in 1..(a + b + c) : s[n] = first[n]
      /\ \A n \in 1..(d + e + f) : s[a + b + c + n] = rest[n]
  BY <1>1, <1>3, <1>4, <1>5 DEF Words3
<1> DEFINE line == ChannelModeToStr(m)
<1>7. line.letters = s
  BY DEF ChannelModeToStr, s
<1> HIDE DEF line
<1>8. m.sign \in {"+", "-", "none"} /\ m.flags \subseteq Flags
  BY DEF Modes
<1>9. \A n \in 1..Len(s) :
         \/ n = 1 /\ a = 1 /\ s[n] = m.sign
         \/ n = a + 1 /\ b = 1 /\ s[n] = "k"
         \/ n = a + b + 1 /\ c = 1 /\ s[n] = "l"
         \/ n > a + b + c /\ s[n] \in {"t", "a", "i"}
  <2> SUFFICES ASSUME NEW n \in 1..Len(s)
               PROVE  \/ n = 1 /\ a = 1 /\ s[n] = m.sign
                      \/ n = a + 1 /\ b = 1 /\ s[n] = "k"
                      \/ n = a + b + 1 /\ c = 1 /\ s[n] = "l"
                      \/ n > a + b + c /\ s[n] \in {"t", "a", "i"}
    OBVIOUS
  <2>1. CASE n <= a + b + c
    <3>1. s[n] = first[n]
      BY <1>1, <1>6, <2>1
    <3> QED
      BY <1>1, <1>4, <2>1, <3>1 DEF Words3
  <2>2. CASE n > a + b + c
    <3>1. PICK i \in 1..(d + e + f) : n = a + b + c + i
      <4>1. n - (a + b + c) \in 1..(d + e + f) /\ n = a + b + c + (n - (a + b + c))
        BY <1>1, <1>6, <2>2
      <4> QED
        BY <4>1
    <3> QED
      BY <1>1, <1>5, <1>6, <2>2, <3>1 DEF Words3
  <2> QED
    BY <1>1, <2>1, <2>2
<1>10. /\ Len(s) \in Nat /\ Len(s) >= a + b + c
       /\ a = 1 => s[1] = m.sign
       /\ b = 1 => s[a + 1] = "k"
       /\ c = 1 => s[a + b + 1] = "l"
  BY <1>1, <1>4, <1>6 DEF Words3
<1>11. Places(line, {"+", "-"}) = IF m.sign = "none" THEN {} ELSE {1}
  BY <1>1, <1>2, <1>7, <1>8, <1>9, <1>10 DEF Places
<1>12. Places(line, {"k"}) = IF "k" \in m.flags THEN {a + 1} ELSE {}
  BY <1>1, <1>2, <1>7, <1>8, <1>9, <1>10 DEF Places
<1>13. Places(line, {"l"}) = IF "l" \in m.flags THEN {a + b + 1} ELSE {}
  BY <1>1, <1>2, <1>7, <1>8, <1>9, <1>10 DEF Places
<1>14. Places(line, {"k", "l"}) = Places(line, {"k"}) \cup Places(line, {"l"})
  BY DEF Places
<1>15. \A x \in {"t", "a", "i"} : Places(line, {x}) # {} <=> x \in m.flags
  <2>1. /\ d = 1 => s[a + b + c + 1] = "t"
        /\ e = 1 => s[a + b + c + (d + 1)] = "a"
        /\ f = 1 => s[a + b + c + (d + e + 1)] = "i"
    BY <1>1, <1>5, <1>6 DEF Words3
  <2>2. Len(s) = a + b + c + (d + e + f)
    BY <1>6
  <2>3. ASSUME NEW x \in {"t", "a", "i"}, NEW n \in 1..Len(s), s[n] = x
        PROVE  x \in m.flags
    <3>1. n > a + b + c
      BY <1>8, <1>9, <2>3
    <3>2. PICK i \in 1..(d + e + f) : n = a + b + c + i
      <4>1. n - (a + b + c) \in 1..(d + e + f) /\ n = a + b + c + (n - (a + b + c))
        BY <1>1, <2>2, <3>1
      <4> QED
        BY <4>1
    <3>3. rest[i] = x
      BY <1>6, <2>3, <3>2
    <3> QED
      BY <1>2, <1>5, <3>2, <3>3 DEF Words3
  <2> QED
    BY <1>1, <1>2, <1>7, <2>1, <2>2, <2>3 DEF Places
<1>16. \A x \in Flags : Places(line, {x}) # {} <=> x \in m.flags
  BY <1>12, <1>13, <1>15 DEF Flags
<1> QED
  BY <1>2, <1>7, <1>10, <1>11, <1>12, <1>13, <1>14, <1>16 DEF a, b, line

\* Modes that are written and read again are the same ones, if the keyword and the
\* limit come with their letters.
LEMMA RoundTrip ==
    ASSUME NEW m \in Modes, Kept(m)
    PROVE  StrToChannelMode(ChannelModeToStr(m)) = m
<1> DEFINE line == ChannelModeToStr(m)
           a == Has(m.sign # "none")
           b == Has("k" \in m.flags)
<1>1. /\ Places(line, {"+", "-"}) = IF m.sign = "none" THEN {} ELSE {1}
      /\ m.sign # "none" => line.letters[1] = m.sign
      /\ Places(line, {"k"}) = IF "k" \in m.flags THEN {a + 1} ELSE {}
      /\ Places(line, {"l"}) = IF "l" \in m.flags THEN {a + b + 1} ELSE {}
      /\ Places(line, {"k", "l"}) = Places(line, {"k"}) \cup Places(line, {"l"})
      /\ \A f \in Flags : Places(line, {f}) # {} <=> f \in m.flags
  BY WrittenPlaces
<1>2. a \in {0, 1} /\ b = IF "k" \in m.flags THEN 1 ELSE 0
  BY DEF Has
<1>3. /\ m.sign \in {"+", "-", "none"} /\ m.flags \in SUBSET Flags
      /\ m.keyword \in Words \cup {None} /\ m.limit \in Words \cup {None}
      /\ m = [sign |-> m.sign, flags |-> m.flags, keyword |-> m.keyword, limit |-> m.limit]
  BY DEF Modes
<1>4. /\ "k" \in m.flags <=> m.keyword # None
      /\ "l" \in m.flags <=> m.limit # None
  BY DEF Kept
<1>5. line.args = Optional("k" \in m.flags, m.keyword) \o Optional("l" \in m.flags, m.limit)
  BY <1>4 DEF ChannelModeToStr, Optional
<1> HIDE DEF line, a, b
<1>6. (IF Places(line, {"+", "-"}) = {} THEN "none" ELSE line.letters[Max(Places(line, {"+", "-"}))])
        = m.sign
  <2>1. Max({1}) = 1
    BY OnePlace
  <2> QED
    BY <1>1, <2>1
<1>7. {f \in Flags : Places(line, {f}) # {}} = m.flags
  BY <1>1, <1>3
<1>8. Argument(line, "k") = m.keyword
  <2>1. CASE "k" \notin m.flags
    BY <1>1, <1>4, <2>1 DEF Argument
  <2>2. CASE "k" \in m.flags
    <3>1. Places(line, {"k"}) = {a + 1} /\ Max(Places(line, {"k"})) = a + 1
      BY <1>1, <1>2, <2>2, OnePlace
    <3>2. {i \in Places(line, {"k", "l"}) : i <= a + 1} = {a + 1}
      BY <1>1, <1>2, <2>2
    <3>3. Cardinality({a + 1}) = 1
      BY FS_Singleton
    <3>4. Len(line.args) >= 1 /\ Len(line.args) \in Nat /\ line.args[1] = m.keyword
      <4>1. CASE "l" \in m.flags
        BY <1>5, <2>2, <4>1 DEF Optional
      <4>2. CASE "l" \notin m.flags
        BY <1>5, <2>2, <4>2 DEF Optional
      <4> QED
        BY <4>1, <4>2
    <3>5. {i \in Places(line, {"k", "l"}) : i <= Max(Places(line, {"k"}))} = {a + 1}
      BY <3>1, <3>2
    <3>6. Places(line, {"k"}) # {} /\ ~(1 > Len(line.args))
      BY <3>1, <3>4
    <3> QED
      BY <3>3, <3>4, <3>5, <3>6 DEF Argument
  <2> QED
    BY <2>1, <2>2
<1>9. Argument(line, "l") = m.limit
  <2>1. CASE "l" \notin m.flags
    BY <1>1, <1>4, <2>1 DEF Argument
  <2>2. CASE "l" \in m.flags
    <3>1. Places(line, {"l"}) = {a + b + 1} /\ Max(Places(line, {"l"})) = a + b + 1
      BY <1>1, <1>2, <2>2, OnePlace
    <3>2. CASE "k" \notin m.flags
      <4>1. {i \in Places(line, {"k", "l"}) : i <= a + b + 1} = {a + b + 1}
        BY <1>1, <1>2, <2>2, <3>2
      <4>2. Cardinality({a + b + 1}) = 1
        BY FS_Singleton
      <4>3. Len(line.args) = 1 /\ line.args[1] = m.limit
        BY <1>5, <2>2, <3>2 DEF Optional
      <4> QED
        BY <3>1, <4>1, <4>2, <4>3 DEF Argument
    <3>3. CASE "k" \in m.flags
      <4>1. {i \in Places(line, {"k", "l"}) : i <= a + b + 1} = {a + 1} \cup {a + b + 1}
        BY <1>1, <1>2, <2>2, <3>3
      <4>2. Cardinality({a + 1} \cup {a + b + 1}) = 2
        <5>1. IsFiniteSet({a + 1}) /\ Cardinality({a + 1}) = 1
          BY FS_Singleton
        <5>2. a + b + 1 \notin {a + 1}
          BY <1>2, <3>3
        <5> QED
          BY <5>1, <5>2, FS_AddElement
      <4>3. Len(line.args) = 2 /\ line.args[2] = m.limit
        BY <1>5, <2>2, <3>3 DEF Optional
      <4> QED
        BY <3>1, <4>1, <4>2, <4>3 DEF Argument
    <3> QED
      BY <3>2, <3>3
  <2> QED
    BY <2>1, <2>2
<1> QED
  BY <1>3, <1>6, <1>7, <1>8, <1>9 DEF StrToChannelMode, line

\* So a line that chanmode stores is the one that is stored again.
LEMMA KeptIsCanonical ==
    ASSUME NEW m \in Modes, Kept(m)
    PROVE  Canonical(ChannelModeToStr(m))
BY RoundTrip DEF Canonical

\* A record that addChannel stores is one of them.
LEMMA EmptyIsStored ==
    /\ NoData \in Data /\ Kept(NoModes)
    /\ EmptyRecord = Stored(NoData)
<1>1. NoModes \in Modes
  BY DEF NoModes, Modes
<1>2. Kept(NoModes)
  BY DEF NoModes, Kept
<1>3. ChannelModeToStr(NoModes) = [letters |-> <<>>, args |-> <<>>]
  BY DEF ChannelModeToStr, ModeStr, Optional, NoModes
<1> QED
  BY <1>1, <1>2, <1>3 DEF NoData, Data, EmptyRecord, Stored

\* chanmode puts modes into others: what it leaves is kept, and only what it was
\* given is taken or added.
LEMMA MergeKeeps ==
    ASSUME NEW old \in Modes, Kept(old), NEW line \in Lines, ~Faults(line)
    PROVE  LET new == StrToChannelMode(line)
           IN /\ Merge(old, new) \in Modes
              /\ Kept(Merge(old, new))
              /\ new.sign = "-" => Merge(old, new).flags \cap new.flags = {}
              /\ Merge(old, new).flags
                   \subseteq old.flags \cup (IF new.sign = "+" THEN new.flags ELSE {})
<1> DEFINE new == StrToChannelMode(line)
           merged == new.flags \cap MergedFlags
           flags == CASE new.sign = "+" -> old.flags \cup merged
                      [] new.sign = "-" -> old.flags \ merged
                      [] OTHER -> old.flags
<1>1. /\ new.sign \in {"+", "-", "none"} /\ new.flags \subseteq Flags
      /\ new.keyword \in Words \cup {None} /\ new.limit \in Words \cup {None}
      /\ "k" \in new.flags <=> new.keyword # None
      /\ "l" \in new.flags <=> new.limit # None
  BY StrType DEF Modes, Faults
<1>2. /\ old.flags \subseteq MergedFlags
      /\ old.keyword \in Words \cup {None} /\ old.limit \in Words \cup {None}
      /\ "k" \in old.flags <=> old.keyword # None
      /\ "l" \in old.flags <=> old.limit # None
  BY DEF Modes, Kept
<1> HIDE DEF new
<1>3. Merge(old, new).flags = flags
  BY DEF Merge
<1>4. /\ flags \subseteq MergedFlags
      /\ new.sign = "-" => flags \cap new.flags = {}
      /\ flags \subseteq old.flags \cup (IF new.sign = "+" THEN new.flags ELSE {})
  BY <1>1, <1>2
<1>5. /\ "k" \in MergedFlags /\ "l" \in MergedFlags /\ MergedFlags \subseteq Flags
  BY DEF MergedFlags, Flags
<1>6. Merge(old, new) \in Modes
  BY <1>1, <1>2, <1>4, <1>5 DEF Merge, Modes
<1>7. /\ "k" \in flags <=> Merge(old, new).keyword # None
      /\ "l" \in flags <=> Merge(old, new).limit # None
  BY <1>1, <1>2, <1>5, ChannelsAssumption DEF Merge
<1>8. Merge(old, new).sign # "-"
  BY DEF Merge
<1> QED
  BY <1>3, <1>4, <1>6, <1>7, <1>8 DEF new, Kept

-----------------------------------------------------------------------------
(* Types. *)

\* The two halves of Shapes: the threads, and all the rest.
ThreadsFit == /\ pc \in [Workers -> Labels]
              /\ job \in [Workers -> Jobs]
              /\ \A w \in Workers : Fits(pc[w], Op(w))
              /\ \A w \in Workers : pc[w] \in {"test", "store", "topic", "mode"}
                                      => Kept(job[w].data.modes)

WorldFits == /\ record \in Records \cup {None}
             /\ server \in [topic : Texts \cup {None}, flags : SUBSET Flags,
                            op : BOOLEAN, in : BOOLEAN]
             /\ server.op => server.in
             /\ joining \in BOOLEAN
             /\ inbox \in Seq(Items)
             /\ budget \in 0..MaxInputs
             /\ overtaken \subseteq Workers
             /\ missed \subseteq Workers
             /\ late \subseteq {"topic", "mode"}
             /\ foreign \subseteq Flags

LEMMA ShapesParts == Shapes <=> ThreadsFit /\ WorldFits
BY DEF Shapes, TypeOK, ThreadsFit, WorldFits

\* The messages are items.
LEMMA ItemTypes ==
    /\ EmptyRecord \in Records /\ EmptyRecord.line \in Lines
    /\ \A x \in Items : x.line \in Lines
    /\ Idle \in Jobs
    /\ \A op \in Commands \cup Events : Item(op) \in Items
    /\ \A op \in Commands \cup Events, text \in Texts \cup {None}, line \in ModeLines \cup {EmptyRecord.line} :
          With(op, text, line) \in Items
<1>1. EmptyRecord \in Records /\ EmptyRecord.line \in Lines
  BY DEF EmptyRecord, Records, Lines
<1>2. \A x \in Items : x.line \in Lines
  BY <1>1, ChannelsAssumption DEF Items
<1>3. \A op \in Commands \cup Events, text \in Texts \cup {None}, line \in ModeLines \cup {EmptyRecord.line} :
         With(op, text, line) \in Items
  BY DEF With, Items
<1>4. \A op \in Commands \cup Events : Item(op) \in Items
  BY <1>3 DEF Item
<1>5. Idle \in Jobs
  <2>1. "join" \in Commands
    BY DEF Commands
  <2> QED
    BY <1>4, <2>1, EmptyIsStored DEF Idle, Jobs
<1> QED
  BY <1>1, <1>2, <1>3, <1>4, <1>5

\* The bot starts like that.
LEMMA ThreadsAtStart ==
    ASSUME pc = [w \in Workers |-> "idle"], job = [w \in Workers |-> Idle]
    PROVE  ThreadsFit
BY ItemTypes DEF ThreadsFit, Labels, Fits, Op

LEMMA ShapesInit == Init => Shapes
<1> SUFFICES ASSUME Init PROVE Shapes
  OBVIOUS
<1>1. ThreadsFit
  BY ThreadsAtStart DEF Init
<1>2. record \in Records \cup {None}
  <2>1. \A data \in OldData : Stored(data) \in Records
    <3> SUFFICES ASSUME NEW data \in OldData PROVE Stored(data) \in Records
      OBVIOUS
    <3>1. data \in Data /\ data.modes \in Modes
      BY ChannelsAssumption DEF Data
    <3> QED
      BY <3>1, ToStrType DEF Stored, Records, Data
  <2> QED
    BY <2>1 DEF Init
<1>3. WorldFits
  BY <1>2, ChannelsAssumption DEF Init, WorldFits
<1> QED
  BY <1>1, <1>3, ShapesParts

\* A thread goes on to a label of its handler.
LEMMA GotoFits ==
    ASSUME ThreadsFit, NEW w \in Workers, NEW label \in Labels, Goto(w, label),
           Fits(label, Op(w)),
           label \in {"test", "store", "topic", "mode"} => Kept(job[w].data.modes)
    PROVE  ThreadsFit'
<1>1. pc' = [pc EXCEPT ![w] = label]
  BY DEF Goto
<1>2. CASE label = "idle"
  <2>1. job' = [job EXCEPT ![w] = Idle]
    BY <1>2 DEF Goto
  <2>2. Fits("idle", Idle.item.op)
    BY DEF Fits
  <2> QED
    BY <1>1, <1>2, <2>1, <2>2, ItemTypes DEF ThreadsFit, Op
<1>3. CASE label # "idle"
  <2>1. job' = job
    BY <1>3 DEF Goto
  <2> QED
    BY <1>1, <2>1 DEF ThreadsFit, Op
<1> QED
  BY <1>2, <1>3

\* Every step, as a list of cases.
Threadless == User \/ Other \/ JoinAll \/ UNCHANGED vars
Ends == Kill \/ \E w \in Workers : Crash(w)

LEMMA StepCases ==
    ASSUME [Next]_vars
    PROVE  Threadless \/ Ends \/ \E w \in Workers : Work(w)
BY DEF Next, Threadless, Ends

\* Not every step is a thread's.
LEMMA ThreadlessKeeps ==
    ASSUME Threadless
    PROVE  pc' = pc /\ job' = job /\ record' = record /\ overtaken' = overtaken
           /\ missed' = missed /\ late' = late
<1>1. CASE User
  BY <1>1 DEF User, Say, history
<1>2. CASE Other
  BY <1>2 DEF Other, OtherTopic, OtherMode, OtherOp, OtherKick, history
<1>3. CASE JoinAll
  BY <1>3 DEF JoinAll, history
<1>4. CASE UNCHANGED vars
  BY <1>4 DEF vars
<1> QED
  BY <1>1, <1>2, <1>3, <1>4 DEF Threadless

\* All threads are at rest when the bot has started again.
LEMMA EndsKeep ==
    ASSUME Ends
    PROVE  /\ pc' = [w \in Workers |-> "idle"] /\ job' = [w \in Workers |-> Idle]
           /\ record' = record /\ overtaken' = {} /\ missed' = {} /\ late' = late
           /\ server' = [server EXCEPT !.in = FALSE, !.op = FALSE]
           /\ joining' = (record # None) /\ inbox' = <<>> /\ foreign' = foreign
           /\ budget' \in {budget, budget - 1} /\ (budget' # budget => budget > 0)
<1>1. CASE Kill
  BY <1>1 DEF Kill, Restart, Spend
<1>2. ASSUME NEW w \in Workers, Crash(w)
      PROVE  /\ pc' = [v \in Workers |-> "idle"] /\ job' = [v \in Workers |-> Idle]
             /\ record' = record /\ overtaken' = {} /\ missed' = {} /\ late' = late
             /\ server' = [server EXCEPT !.in = FALSE, !.op = FALSE]
             /\ joining' = (record # None) /\ inbox' = <<>> /\ foreign' = foreign
             /\ budget' = budget
  BY <1>2 DEF Crash, Restart
<1> QED
  BY <1>1, <1>2 DEF Ends

\* What a thread has read.
LEMMA ReadKeeps ==
    ASSUME RecordKept, record \in Records, NEW item \in Items, Readable(item)
    PROVE  /\ Changed(item) \in Data
           /\ Kept(Changed(item).modes)
           /\ item.op # "chanmode" => ChannelModeToStr(Changed(item).modes) = record.line
           /\ item.op # "chanmode" => Changed(item).modes = RecordModes
           /\ item.op # "topic" => Changed(item).topic = record.topic
           /\ item.op # "greeting" => Changed(item).greeting = record.greeting
           /\ item.op = "chanmode" =>
                LET new == StrToChannelMode(item.line)
                IN /\ new.sign = "-" => Changed(item).modes.flags \cap new.flags = {}
                   /\ Changed(item).modes.flags
                        \subseteq RecordModes.flags \cup (IF new.sign = "+" THEN new.flags ELSE {})
<1>1. Canonical(record.line) /\ record.line \in Lines
  BY ChannelsAssumption DEF RecordKept, Records
<1>2. RecordModes \in Modes /\ Kept(RecordModes) /\ ChannelModeToStr(RecordModes) = record.line
  BY <1>1, StrType DEF Canonical, RecordModes
<1>3. record.topic \in Texts \cup {None} /\ record.greeting \in Texts \cup {None}
      /\ item.text \in Texts \cup {None} /\ item.line \in Lines
  BY ItemTypes DEF Records, Items
<1> DEFINE data == [topic |-> record.topic, greeting |-> record.greeting, modes |-> RecordModes]
<1>4. data \in Data
  BY <1>2, <1>3 DEF Data
<1>5. CASE item.op = "topic"
  <2>1. Changed(item) = [data EXCEPT !.topic = item.text]
    BY <1>5 DEF Changed, RecordModes
  <2> QED
    BY <1>2, <1>3, <1>5, <2>1 DEF Data
<1>6. CASE item.op = "greeting"
  <2>1. Changed(item) = [data EXCEPT !.greeting = item.text]
    BY <1>6 DEF Changed, RecordModes
  <2> QED
    BY <1>2, <1>3, <1>6, <2>1 DEF Data
<1>7. CASE item.op = "chanmode"
  <2>1. Changed(item) = [data EXCEPT !.modes = Merge(@, StrToChannelMode(item.line))]
    BY <1>7 DEF Changed, RecordModes
  <2>2. ~Faults(item.line)
    BY <1>7 DEF Readable
  <2> DEFINE new == StrToChannelMode(item.line)
             merge == Merge(RecordModes, new)
  <2>3. /\ merge \in Modes /\ Kept(merge)
        /\ new.sign = "-" => merge.flags \cap new.flags = {}
        /\ merge.flags \subseteq RecordModes.flags \cup (IF new.sign = "+" THEN new.flags ELSE {})
    BY <1>2, <1>3, <2>2, MergeKeeps
  <2>4. Changed(item) = [topic |-> record.topic, greeting |-> record.greeting, modes |-> merge]
    BY <2>1
  <2> HIDE DEF new, merge
  <2>5. Changed(item).modes = merge /\ Changed(item).topic = record.topic
        /\ Changed(item).greeting = record.greeting /\ Changed(item) \in Data
    BY <1>3, <2>3, <2>4 DEF Data
  <2> QED
    BY <1>7, <2>3, <2>5 DEF new
<1>8. CASE item.op \notin {"topic", "greeting", "chanmode"}
  <2>1. Changed(item) = data
    BY <1>8 DEF Changed, RecordModes
  <2> QED
    BY <1>2, <1>4, <1>8, <2>1
<1> QED
  BY <1>5, <1>6, <1>7, <1>8

\* The threads' half.
LEMMA ThreadsStep == Shapes /\ RecordKept /\ [Next]_vars => ThreadsFit'
<1> SUFFICES ASSUME Shapes, RecordKept, [Next]_vars PROVE ThreadsFit'
  OBVIOUS
<1>1. ThreadsFit /\ WorldFits
  BY ShapesParts
<1>2. CASE Threadless
  BY <1>1, <1>2, ThreadlessKeeps DEF ThreadsFit, Op
<1>3. CASE Ends
  BY <1>3, EndsKeep, ItemTypes DEF ThreadsFit, Labels, Fits, Op
<1>4. ASSUME NEW w \in Workers, Work(w) PROVE ThreadsFit'
  <2>1. pc[w] \in Labels /\ job[w] \in Jobs /\ Fits(pc[w], Op(w))
        /\ (pc[w] \in {"test", "store", "topic", "mode"} => Kept(job[w].data.modes))
    BY <1>1 DEF ThreadsFit
  <2>2. CASE Dispatch(w)
    <3> DEFINE x == Head(inbox)
    <3>1. x \in Items
      BY <1>1, <2>2 DEF Dispatch, WorldFits
    <3>2. pc' = [pc EXCEPT ![w] = Entry(x.op)] /\ job' = [job EXCEPT ![w].item = x]
      BY <2>2 DEF Dispatch
    <3>3. x.op \in Commands \cup Events
      BY <3>1 DEF Items
    <3> HIDE DEF x
    <3>4. Entry(x.op) \in {"exist", "del", "join", "part", "read"} /\ Fits(Entry(x.op), x.op)
      BY <3>3 DEF Entry, Fits, Commands, Events, Reads
    <3>5. job'[w] \in Jobs /\ job'[w].item = x
      <4>1. job'[w] = [job[w] EXCEPT !.item = x]
        BY <1>1, <3>2 DEF ThreadsFit
      <4> QED
        BY <2>1, <3>1, <4>1 DEF Jobs
    <3>6. \A v \in Workers \ {w} : pc'[v] = pc[v] /\ job'[v] = job[v]
      BY <1>1, <3>2 DEF ThreadsFit
    <3>7. pc'[w] = Entry(x.op) /\ pc' \in [Workers -> Labels]
      BY <1>1, <3>2, <3>4 DEF ThreadsFit, Labels
    <3>8. job' \in [Workers -> Jobs]
      BY <1>1, <3>2, <3>5, <3>6 DEF ThreadsFit
    <3> QED
      BY <1>1, <3>4, <3>5, <3>6, <3>7, <3>8 DEF ThreadsFit, Op
  <2>3. CASE AddExist(w)
    <3>1. PICK label \in {"add", "idle"} : Goto(w, label)
      BY <2>3 DEF AddExist
    <3>2. Fits(label, Op(w)) /\ label \in Labels
      BY <2>1, <2>3, <3>1 DEF AddExist, Fits, Labels
    <3> QED
      BY <1>1, <3>1, <3>2, GotoFits
  <2>4. CASE Add(w)
    <3>1. Goto(w, "join") /\ Fits("join", Op(w)) /\ "join" \in Labels
      BY <2>1, <2>4 DEF Add, Fits, Labels
    <3> QED
      BY <1>1, <3>1, GotoFits
  <2>5. CASE Join(w) \/ Part(w) \/ SendModes(w)
    <3>1. Goto(w, "idle") /\ Fits("idle", Op(w)) /\ "idle" \in Labels
      BY <2>5 DEF Join, Part, SendModes, Return, Fits, Labels
    <3> QED
      BY <1>1, <3>1, GotoFits
  <2>6. CASE Delete(w)
    <3>1. Goto(w, "part") /\ Fits("part", Op(w)) /\ "part" \in Labels
      BY <2>1, <2>6 DEF Delete, Fits, Labels
    <3> QED
      BY <1>1, <3>1, GotoFits
  <2>7. CASE Read(w)
    <3>1. Op(w) \in Reads
      BY <2>1, <2>7 DEF Read, Fits
    <3>2. CASE record = None
      <4>1. Goto(w, "idle") /\ Fits("idle", Op(w)) /\ "idle" \in Labels
        BY <2>7, <3>2 DEF Read, Return, Fits, Labels
      <4> QED
        BY <1>1, <4>1, GotoFits
    <3>3. CASE record # None
      <4> DEFINE label == AfterRead(Op(w))
                 data == Changed(job[w].item)
      <4>1. pc' = [pc EXCEPT ![w] = label] /\ job' = [job EXCEPT ![w].data = data]
        BY <2>7, <3>3 DEF Read, Op
      <4>2. data \in Data /\ Kept(data.modes)
        <5>1. Readable(job[w].item) /\ record \in Records /\ job[w].item \in Items
          BY <1>1, <2>1, <2>7, <3>3 DEF Read, WorldFits, Jobs
        <5> QED
          BY <5>1, ReadKeeps
      <4>3. label \in {"test", "topic", "mode"} /\ Fits(label, Op(w))
        BY <3>1 DEF AfterRead, Fits, Reads, Stores
      <4> HIDE DEF label, data
      <4>4. job'[w] \in Jobs /\ job'[w].item = job[w].item /\ job'[w].data = data
        <5>1. job'[w] = [job[w] EXCEPT !.data = data]
          BY <1>1, <4>1 DEF ThreadsFit
        <5> QED
          BY <2>1, <4>2, <5>1 DEF Jobs
      <4>5. \A v \in Workers \ {w} : pc'[v] = pc[v] /\ job'[v] = job[v]
        BY <1>1, <4>1 DEF ThreadsFit
      <4>6. pc'[w] = label /\ pc' \in [Workers -> Labels]
        BY <1>1, <4>1, <4>3 DEF ThreadsFit, Labels
      <4>7. job' \in [Workers -> Jobs]
        BY <1>1, <4>1, <4>4, <4>5 DEF ThreadsFit
      <4> QED
        BY <1>1, <4>2, <4>3, <4>4, <4>5, <4>6, <4>7 DEF ThreadsFit, Op
    <3> QED
      BY <3>2, <3>3
  <2>8. CASE ReplaceTest(w)
    <3>1. PICK label \in {"store", AfterStore(Op(w))} : Goto(w, label)
      BY <2>8 DEF ReplaceTest, Op
    <3>2. Fits(label, Op(w)) /\ label \in Labels /\ Kept(job[w].data.modes)
      BY <2>1, <2>8, <3>1 DEF ReplaceTest, AfterStore, Stores, Fits, Labels
    <3> QED
      BY <1>1, <3>1, <3>2, GotoFits
  <2>9. CASE Store(w)
    <3>1. Goto(w, AfterStore(Op(w)))
      BY <2>9 DEF Store, Op
    <3>2. Fits(AfterStore(Op(w)), Op(w)) /\ AfterStore(Op(w)) \in Labels /\ Kept(job[w].data.modes)
      BY <2>1, <2>9 DEF Store, AfterStore, Stores, Fits, Labels
    <3> QED
      BY <1>1, <3>1, <3>2, GotoFits
  <2>10. CASE SendTopic(w)
    <3>1. Goto(w, AfterTopic(Op(w)))
      BY <2>10 DEF SendTopic, Op
    <3>2. Fits(AfterTopic(Op(w)), Op(w)) /\ AfterTopic(Op(w)) \in Labels /\ Kept(job[w].data.modes)
      BY <2>1, <2>10 DEF SendTopic, AfterTopic, Fits, Labels
    <3> QED
      BY <1>1, <3>1, <3>2, GotoFits
  <2> QED
    BY <1>4, <2>2, <2>3, <2>4, <2>5, <2>6, <2>7, <2>8, <2>9, <2>10 DEF Work
<1> QED
  BY <1>2, <1>3, <1>4, StepCases

\* The channel is joined, anew or not.
LEMMA TakeJoinFits ==
    ASSUME WorldFits, TakeJoin
    PROVE  /\ server' \in [topic : Texts \cup {None}, flags : SUBSET Flags,
                           op : BOOLEAN, in : BOOLEAN]
           /\ server'.op => server'.in
           /\ inbox' \in Seq(Items)
<1>1. Append(inbox, Item("opEvent")) \in Seq(Items)
  BY ItemTypes DEF Events, WorldFits
<1>2. CASE server' = [server EXCEPT !.in = TRUE] /\ inbox' = inbox
  BY <1>2 DEF WorldFits
<1>3. CASE server' = [topic |-> None, flags |-> {}, op |-> TRUE, in |-> TRUE]
           /\ inbox' = Append(inbox, Item("opEvent"))
  BY <1>1, <1>3
<1>4. CASE server' = server /\ inbox' = inbox
  BY <1>4 DEF WorldFits
<1> QED
  BY <1>2, <1>3, <1>4 DEF TakeJoin

\* What the server and the users do keeps the types.
LEMMA ThreadlessFits ==
    ASSUME WorldFits, Threadless
    PROVE  WorldFits'
<1>1. \A op \in Commands \cup Events : Item(op) \in Items
  BY ItemTypes
<1>2. \A x \in Items : Append(inbox, x) \in Seq(Items)
  BY DEF WorldFits
<1>3. budget > 0 => budget - 1 \in 0..MaxInputs
  BY ChannelsAssumption DEF WorldFits
<1>4. CASE User
  <2>1. PICK x \in Items : Say(x)
    <3>1. CASE \E op \in {"addchannel", "rmchannel", "join", "part"} : Say(Item(op))
      BY <1>1, <3>1 DEF Commands
    <3>2. CASE \E op \in {"topic", "greeting"}, text \in Texts \cup {None} :
                   Say(With(op, text, EmptyRecord.line))
      BY <3>2, ItemTypes DEF Commands
    <3>3. CASE \E line \in ModeLines : Say(With("chanmode", None, line))
      BY <3>3, ItemTypes DEF Commands
    <3> QED
      BY <1>4, <3>1, <3>2, <3>3 DEF User
  <2> QED
    BY <1>2, <1>3, <2>1 DEF Say, Spend, history, WorldFits
<1>5. ASSUME NEW text \in Texts, OtherTopic(text) PROVE WorldFits'
  <2>1. Item("topicEvent") \in Items
    BY <1>1 DEF Events
  <2> QED
    BY <1>2, <1>3, <1>5, <2>1 DEF OtherTopic, Spend, history, WorldFits
<1>6. ASSUME NEW f \in Flags, OtherMode(f) PROVE WorldFits'
  BY <1>3, <1>6 DEF OtherMode, Spend, WorldFits
<1>7. CASE OtherOp
  <2>1. Item("opEvent") \in Items
    BY <1>1 DEF Events
  <2> QED
    BY <1>2, <1>3, <1>7, <2>1 DEF OtherOp, Spend, history, WorldFits
<1>8. CASE OtherKick
  <2>1. Item("kickEvent") \in Items
    BY <1>1 DEF Events
  <2> QED
    BY <1>2, <1>3, <1>8, <2>1 DEF OtherKick, Spend, history, WorldFits
<1>9. CASE JoinAll
  BY <1>9, TakeJoinFits DEF JoinAll, history, WorldFits
<1>10. CASE UNCHANGED vars
  BY <1>10 DEF vars, WorldFits
<1>11. CASE Other
  BY <1>5, <1>6, <1>7, <1>8, <1>11 DEF Other
<1> QED
  BY <1>4, <1>9, <1>10, <1>11 DEF Threadless

\* So does what the threads do.
LEMMA WorkFits ==
    ASSUME Shapes, NEW w \in Workers, Work(w)
    PROVE  WorldFits'
<1>1. ThreadsFit /\ WorldFits
  BY ShapesParts
<1>2. Overtaken(w) \subseteq Workers
  BY DEF Overtaken
<1>3. job[w] \in Jobs /\ job[w].data \in Data /\ job[w].item \in Items
  BY <1>1 DEF ThreadsFit, Jobs
<1>4. CASE Dispatch(w)
  <2>1. Tail(inbox) \in Seq(Items)
    BY <1>1, <1>4 DEF Dispatch, WorldFits
  <2> QED
    BY <1>1, <1>4, <2>1 DEF Dispatch, history, WorldFits
<1>5. CASE AddExist(w)
  BY <1>1, <1>5 DEF AddExist, history, WorldFits
<1>6. CASE Add(w)
  BY <1>1, <1>2, <1>6, ItemTypes DEF Add, WorldFits
<1>7. CASE Join(w)
  BY <1>1, <1>7, TakeJoinFits DEF Join, Return, Forget, WorldFits
<1>8. CASE Delete(w)
  BY <1>1, <1>2, <1>8 DEF Delete, WorldFits
<1>9. CASE Part(w)
  BY <1>1, <1>9 DEF Part, Return, Forget, WorldFits
<1>10. CASE Read(w)
  BY <1>1, <1>10 DEF Read, Return, Forget, WorldFits
<1>11. CASE ReplaceTest(w)
  BY <1>1, <1>11 DEF ReplaceTest, Forget, WorldFits
<1>12. CASE Store(w)
  <2>1. Stored(job[w].data) \in Records
    BY <1>3, ToStrType DEF Data, Stored, Records
  <2> QED
    BY <1>1, <1>2, <1>12, <2>1 DEF Store, WorldFits
<1>13. CASE SendTopic(w)
  <2>1. job[w].data.topic \in Texts \cup {None}
    BY <1>3 DEF Data
  <2>2. /\ overtaken' \subseteq overtaken /\ missed' \subseteq missed
        /\ late' \subseteq late \cup {"topic"}
        /\ UNCHANGED <<record, joining, inbox, budget, foreign>>
    BY <1>13 DEF SendTopic, Forget, Heard
  <2>3. server' = server \/ server' = [server EXCEPT !.topic = job[w].data.topic]
    BY <1>13 DEF SendTopic
  <2> QED
    BY <1>1, <2>1, <2>2, <2>3 DEF WorldFits
<1>14. CASE SendModes(w)
  <2>1. Sent(w).flags \subseteq Flags
    <3>1. New(w) \in Modes
      BY <1>3, ItemTypes, StrType DEF New
    <3> QED
      BY <1>3, <3>1 DEF Sent, New, Data, Modes
  <2>2. /\ overtaken' \subseteq overtaken /\ missed' \subseteq missed
        /\ late' \subseteq late \cup {"mode"} /\ foreign' \subseteq foreign
        /\ UNCHANGED <<record, joining, inbox, budget>>
    BY <1>14 DEF SendModes, Return, Forget, Heard
  <2>3. \/ server' = server
        \/ server' = [server EXCEPT !.flags = @ \ Sent(w).flags]
        \/ server' = [server EXCEPT !.flags = @ \cup Sent(w).flags]
    BY <1>14 DEF SendModes
  <2> QED
    BY <1>1, <2>1, <2>2, <2>3 DEF WorldFits
<1> QED
  BY <1>4, <1>5, <1>6, <1>7, <1>8, <1>9, <1>10, <1>11, <1>12, <1>13, <1>14 DEF Work

\* All types are kept.
LEMMA ShapesStep == Shapes /\ RecordKept /\ [Next]_vars => Shapes'
<1> SUFFICES ASSUME Shapes, RecordKept, [Next]_vars PROVE Shapes'
  OBVIOUS
<1>1. WorldFits
  BY ShapesParts
<1>2. ASSUME Ends PROVE WorldFits'
  <2>1. /\ record' = record /\ overtaken' = {} /\ missed' = {} /\ late' = late
        /\ server' = [server EXCEPT !.in = FALSE, !.op = FALSE]
        /\ joining' = (record # None) /\ inbox' = <<>> /\ foreign' = foreign
    BY <1>2, EndsKeep
  <2>2. budget' \in 0..MaxInputs
    BY <1>1, <1>2, EndsKeep, ChannelsAssumption DEF WorldFits
  <2>3. /\ server' \in [topic : Texts \cup {None}, flags : SUBSET Flags,
                        op : BOOLEAN, in : BOOLEAN]
        /\ server'.op => server'.in
    BY <1>1, <2>1 DEF WorldFits
  <2>4. joining' \in BOOLEAN
    BY <2>1
  <2>5. inbox' \in Seq(Items)
    BY <2>1
  <2> QED
    BY <1>1, <2>1, <2>2, <2>3, <2>4, <2>5 DEF WorldFits
<1>3. WorldFits'
  BY <1>1, <1>2, StepCases, ThreadlessFits, WorkFits
<1>4. ThreadsFit'
  BY ThreadsStep
<1> QED
  BY <1>3, <1>4 DEF Shapes, TypeOK, ThreadsFit, WorldFits

-----------------------------------------------------------------------------
(* The record. *)

\* How a thread changes the record.
LEMMA RecordMoves ==
    ASSUME NEW w \in Workers, Work(w)
    PROVE  \/ record' = record
           \/ pc[w] = "add" /\ record = None /\ record' = EmptyRecord
           \/ Delete(w) /\ record' = None
           \/ Store(w) /\ record' = Stored(job[w].data)
BY DEF Work, Dispatch, AddExist, Add, Join, Delete, Part, Read, ReplaceTest, Store, SendTopic,
       SendModes

LEMMA RecordKeptInit == Init => RecordKept
<1>1. \A data \in OldData : Canonical(Stored(data).line)
  <2> SUFFICES ASSUME NEW data \in OldData PROVE Canonical(Stored(data).line)
    OBVIOUS
  <2>1. data.modes \in Modes /\ Kept(data.modes)
    BY ChannelsAssumption DEF Data
  <2> QED
    BY <2>1, KeptIsCanonical DEF Stored
<1> QED
  BY <1>1 DEF Init, RecordKept

LEMMA RecordKeptStep == Shapes /\ RecordKept /\ [Next]_vars => RecordKept'
<1> SUFFICES ASSUME Shapes, RecordKept, [Next]_vars PROVE RecordKept'
  OBVIOUS
<1>1. CASE record' = record
  BY <1>1 DEF RecordKept
<1>2. CASE record' = EmptyRecord
  <2>1. Canonical(Stored(NoData).line)
    BY EmptyIsStored, KeptIsCanonical DEF Stored, NoData, Data
  <2> QED
    BY <1>2, <2>1, EmptyIsStored DEF RecordKept
<1>3. ASSUME NEW w \in Workers, Store(w), record' = Stored(job[w].data) PROVE RecordKept'
  <2>1. job[w].data.modes \in Modes /\ Kept(job[w].data.modes)
    BY <1>3 DEF Store, Shapes, TypeOK, Jobs, Data
  <2> QED
    BY <1>3, <2>1, KeptIsCanonical DEF Stored, RecordKept
<1>4. CASE record' = None
  BY <1>4 DEF RecordKept
<1> QED
  BY <1>1, <1>2, <1>3, <1>4, StepCases, ThreadlessKeeps, EndsKeep, RecordMoves

-----------------------------------------------------------------------------
(* What the threads know of the record. *)

\* A thread changes its own place and locals alone.
LEMMA OthersStay ==
    ASSUME Shapes, NEW w \in Workers, Work(w), NEW v \in Workers \ {w}
    PROVE  /\ pc'[v] = pc[v] /\ job'[v] = job[v] /\ Op(v)' = Op(v) /\ New(v)' = New(v)
           /\ v \in overtaken => v \in overtaken'
           /\ v \in missed => v \in missed'
<1>1. pc \in [Workers -> Labels] /\ job \in [Workers -> Jobs]
  BY DEF Shapes, TypeOK
<1>2. pc'[v] = pc[v] /\ job'[v] = job[v]
  BY <1>1 DEF Work, Dispatch, AddExist, Add, Join, Delete, Part, Read, ReplaceTest, Store,
              SendTopic, SendModes, Goto, Return
<1>3. (v \in overtaken => v \in overtaken') /\ (v \in missed => v \in missed')
  BY DEF Work, Dispatch, AddExist, Add, Join, Delete, Part, Read, ReplaceTest, Store, SendTopic,
         SendModes, Return, Forget, history
<1> QED
  BY <1>2, <1>3 DEF Op, New

\* Another thread keeps its knowledge, or is overtaken.
LEMMA OthersKnow ==
    ASSUME Shapes, NEW w \in Workers, Work(w), NEW v \in Workers \ {w}, Knows(v)
    PROVE  Knows(v)'
<1>1. pc \in [Workers -> Labels] /\ job \in [Workers -> Jobs]
  BY DEF Shapes, TypeOK
<1>2. /\ pc'[v] = pc[v] /\ job'[v] = job[v] /\ Op(v)' = Op(v) /\ New(v)' = New(v)
      /\ (v \in overtaken => v \in overtaken') /\ (v \in missed => v \in missed')
  BY OthersStay
<1>3. CASE record' = record
  BY <1>2, <1>3 DEF Knows, StoreKnows, SendKnows, RecordModes
<1>4. CASE record' # record
  <2>1. CASE pc[w] = "add" /\ record = None /\ record' = EmptyRecord
    BY <1>2, <2>1, <1>4
       DEF Work, Dispatch, AddExist, Add, Join, Delete, Part, Read, ReplaceTest, Store, SendTopic,
           SendModes, Overtaken, Knows
  <2>2. CASE Delete(w) /\ record' = None
    BY <1>2, <2>2, <1>4 DEF Delete, Overtaken, Knows
  <2>3. CASE Store(w) /\ record' = Stored(job[w].data)
    <3>1. record' # None
      <4>1. Stored(job[w].data) \in Records
        BY <1>1, ToStrType DEF Jobs, Data, Stored, Records
      <4> QED
        BY <2>3, <4>1, ChannelsAssumption
    <3> QED
      BY <1>2, <2>3, <3>1 DEF Store, Overtaken, Knows
  <2> QED
    BY <1>4, <2>1, <2>2, <2>3, RecordMoves
<1> QED
  BY <1>3, <1>4

\* A thread that has read the record knows it.
LEMMA ReaderKnows ==
    ASSUME Shapes, RecordKept, NEW w \in Workers, Read(w)
    PROVE  Knows(w)'
<1>1. /\ pc \in [Workers -> Labels] /\ job \in [Workers -> Jobs]
      /\ record \in Records \cup {None} /\ Op(w) \in Reads
  BY DEF Shapes, TypeOK, Fits, Read
<1>2. CASE record = None
  BY <1>1, <1>2 DEF Read, Return, Goto, Knows
<1>3. CASE record # None
  <2> DEFINE item == job[w].item
  <2>1. /\ record' = record /\ pc' = [pc EXCEPT ![w] = AfterRead(Op(w))]
        /\ job' = [job EXCEPT ![w].data = Changed(item)] /\ Readable(item)
    BY <1>3 DEF Read, Op
  <2>2. item \in Items /\ record \in Records
    BY <1>1, <1>3 DEF Jobs
  <2>3. job'[w] = [job[w] EXCEPT !.data = Changed(item)]
    BY <1>1, <2>1
  <2>4. job'[w].item = item /\ job'[w].data = Changed(item) /\ pc'[w] = AfterRead(Op(w))
    BY <1>1, <2>1, <2>3 DEF Jobs
  <2>5. Op(w)' = Op(w) /\ New(w)' = New(w) /\ RecordModes' = RecordModes
    BY <2>1, <2>4 DEF Op, New, RecordModes
  <2>6. /\ Op(w) # "chanmode" => ChannelModeToStr(Changed(item).modes) = record.line
        /\ Op(w) # "chanmode" => Changed(item).modes = RecordModes
        /\ Op(w) # "topic" => Changed(item).topic = record.topic
        /\ Op(w) # "greeting" => Changed(item).greeting = record.greeting
        /\ Op(w) = "chanmode" /\ New(w).sign = "-" => Changed(item).modes.flags \cap New(w).flags = {}
        /\ Op(w) = "chanmode" => Changed(item).modes.flags
                 \subseteq RecordModes.flags \cup (IF New(w).sign = "+" THEN New(w).flags ELSE {})
    BY <2>1, <2>2, ReadKeeps DEF Op, New
  <2>7. Stores(Op(w)) => pc'[w] = "test"
    BY <2>4 DEF AfterRead
  <2>8. ~Stores(Op(w)) => pc'[w] \in {"topic", "mode"} /\ Op(w) \in {"topicEvent", "opEvent"}
    BY <1>1, <2>4 DEF AfterRead, Stores, Reads
  <2> HIDE DEF item
  <2>9. CASE Stores(Op(w))
    <3>1. StoreKnows(w)'
      BY <1>3, <2>1, <2>4, <2>5, <2>6 DEF StoreKnows
    <3> QED
      BY <2>4, <2>5, <2>6, <2>7, <2>9, <3>1 DEF Knows
  <2>10. CASE ~Stores(Op(w))
    <3>1. SendKnows(w)'
      BY <1>3, <2>1, <2>4, <2>5, <2>6, <2>8, <2>10 DEF SendKnows
    <3> QED
      BY <2>8, <2>10, <3>1 DEF Knows
  <2> QED
    BY <2>9, <2>10
<1> QED
  BY <1>2, <1>3

\* So does one that has stored it.
LEMMA StorerKnows ==
    ASSUME Shapes, NEW w \in Workers, Store(w), Knows(w)
    PROVE  Knows(w)'
<1>1. /\ pc \in [Workers -> Labels] /\ job \in [Workers -> Jobs]
      /\ Stores(Op(w)) /\ Kept(job[w].data.modes)
  BY DEF Shapes, TypeOK, Fits, Store
<1>2. job[w].data.modes \in Modes
  BY <1>1 DEF Jobs, Data
<1>3. /\ record' = Stored(job[w].data) /\ pc'[w] = AfterStore(Op(w))
      /\ AfterStore(Op(w)) # "idle" => job' = job
  BY <1>1 DEF Store, Goto, Op
<1>4. RecordModes' = job[w].data.modes
  BY <1>2, <1>1, <1>3, RoundTrip DEF RecordModes, Stored
<1>5. CASE Op(w) = "greeting"
  BY <1>3, <1>5 DEF AfterStore, Knows
<1>6. CASE Op(w) = "topic"
  <2>1. pc'[w] = "topic" /\ job' = job /\ Op(w)' = "topic"
    BY <1>3, <1>6 DEF AfterStore, Op
  <2> QED
    BY <1>3, <2>1 DEF Knows, SendKnows, Stored
<1>7. CASE Op(w) = "chanmode"
  <2>1. pc'[w] = "mode" /\ job' = job /\ Op(w)' = "chanmode" /\ New(w)' = New(w)
    BY <1>3, <1>7 DEF AfterStore, Op, New
  <2>2. New(w).sign = "-" => job[w].data.modes.flags \cap New(w).flags = {}
    BY <1>7 DEF Knows, Store
  <2> QED
    BY <1>4, <2>1, <2>2 DEF Knows, SendKnows
<1> QED
  BY <1>1, <1>5, <1>6, <1>7 DEF Stores

LEMMA KnowledgeInit == Init => Knowledge
BY DEF Init, Knowledge, Knows

LEMMA KnowledgeStep == Shapes /\ RecordKept /\ Knowledge /\ [Next]_vars => Knowledge'
<1> SUFFICES ASSUME Shapes, RecordKept, Knowledge, [Next]_vars PROVE Knowledge'
  OBVIOUS
<1>1. /\ pc \in [Workers -> Labels] /\ job \in [Workers -> Jobs]
      /\ \A w \in Workers : Fits(pc[w], Op(w))
  BY DEF Shapes, TypeOK
<1>2. CASE Threadless
  BY <1>2, ThreadlessKeeps DEF Knowledge, Knows, StoreKnows, SendKnows, Op, New, RecordModes
<1>3. CASE Ends
  BY <1>3, EndsKeep DEF Knowledge, Knows
<1>4. ASSUME NEW w \in Workers, Work(w) PROVE Knowledge'
  <2>1. Knows(w)
    BY DEF Knowledge
  <2>2. Knows(w)' => Knowledge'
    <3>1. \A v \in Workers \ {w} : Knows(v)'
      BY <1>4, OthersKnow DEF Knowledge
    <3> QED
      BY <3>1 DEF Knowledge
  <2>3. CASE Dispatch(w)
    <3>1. Entry(Head(inbox).op) \notin {"test", "store", "topic", "mode"}
      BY DEF Entry
    <3>2. pc'[w] = Entry(Head(inbox).op)
      BY <1>1, <2>3 DEF Dispatch
    <3>3. Knows(w)'
      BY <3>1, <3>2 DEF Knows
    <3> QED
      BY <3>3, <2>2
  <2>4. CASE AddExist(w) \/ Add(w) \/ Join(w) \/ Delete(w) \/ Part(w) \/ SendModes(w)
    <3>1. pc'[w] \in {"add", "idle", "join", "part"}
      BY <1>1, <2>4 DEF AddExist, Add, Join, Delete, Part, SendModes, Return, Goto
    <3>2. Knows(w)'
      BY <3>1 DEF Knows
    <3> QED
      BY <3>2, <2>2
  <2>5. CASE Read(w)
    BY <2>5, <2>2, ReaderKnows
  <2>6. CASE ReplaceTest(w)
    <3>1. ASSUME record # None PROVE Knows(w)'
      <4>1. pc'[w] = "store" /\ job' = job /\ UNCHANGED <<record, overtaken>> /\ pc[w] = "test"
        BY <1>1, <2>6, <3>1 DEF ReplaceTest, Goto
      <4> QED
        BY <2>1, <3>1, <4>1 DEF Knows, StoreKnows, Op, New, RecordModes
    <3>2. ASSUME record = None PROVE Knows(w)'
      <4>1. pc'[w] = AfterStore(Op(w)) /\ record' = record
        BY <1>1, <2>6, <3>2 DEF ReplaceTest, Goto, Op
      <4>2. AfterStore(Op(w)) \in {"topic", "mode", "idle"}
        BY DEF AfterStore
      <4> QED
        BY <3>2, <4>1, <4>2 DEF Knows, SendKnows
    <3>3. Knows(w)'
      BY <3>1, <3>2
    <3> QED
      BY <3>3, <2>2
  <2>7. CASE Store(w)
    BY <2>1, <2>7, <2>2, StorerKnows
  <2>8. CASE SendTopic(w)
    <3>1. ASSUME Op(w) = "opEvent" PROVE Knows(w)'
      <4>1. pc'[w] = "mode" /\ job' = job /\ UNCHANGED <<record, overtaken>> /\ pc[w] = "topic"
        BY <1>1, <2>8, <3>1 DEF SendTopic, Goto, AfterTopic, Op
      <4>2. Op(w)' = "opEvent" /\ RecordModes' = RecordModes
        BY <3>1, <4>1 DEF Op, RecordModes
      <4> QED
        BY <2>1, <3>1, <4>1, <4>2 DEF Knows, SendKnows
    <3>2. ASSUME Op(w) # "opEvent" PROVE Knows(w)'
      <4>1. pc'[w] = "idle"
        BY <1>1, <2>8, <3>2 DEF SendTopic, Goto, AfterTopic, Op
      <4> QED
        BY <4>1 DEF Knows
    <3>3. Knows(w)'
      BY <3>1, <3>2
    <3> QED
      BY <3>3, <2>2
  <2> QED
    BY <1>4, <2>3, <2>4, <2>5, <2>6, <2>7, <2>8 DEF Work
<1> QED
  BY <1>2, <1>3, <1>4, StepCases

-----------------------------------------------------------------------------
(* The topic. *)

\* A message that comes waits, as do those before it.
LEMMA WaitsAppend ==
    ASSUME inbox \in Seq(Items), NEW x \in Items, inbox' = Append(inbox, x), NEW ops
    PROVE  Waits(ops) \/ x.op \in ops => Waits(ops)'
<1>1. /\ Len(inbox') = Len(inbox) + 1 /\ Len(inbox) \in Nat
      /\ inbox'[Len(inbox) + 1] = x
      /\ \A i \in 1..Len(inbox) : inbox'[i] = inbox[i]
  OBVIOUS
<1>2. \A i \in 1..Len(inbox) : i \in 1..Len(inbox')
  BY <1>1
<1>3. Len(inbox) + 1 \in 1..Len(inbox')
  BY <1>1
<1> QED
  BY <1>1, <1>2, <1>3 DEF Waits

\* All but the first wait on.
LEMMA WaitsTail ==
    ASSUME inbox \in Seq(Items), inbox # <<>>, inbox' = Tail(inbox), NEW ops
    PROVE  Waits(ops) => Waits(ops)' \/ Head(inbox).op \in ops
<1>1. /\ Len(inbox') = Len(inbox) - 1 /\ Len(inbox) \in Nat \ {0}
      /\ Head(inbox) = inbox[1]
      /\ \A i \in 1..Len(inbox) : i # 1 => inbox'[i - 1] = inbox[i]
  OBVIOUS
<1>2. \A i \in 1..Len(inbox) : i # 1 => i - 1 \in 1..Len(inbox')
  BY <1>1
<1> QED
  BY <1>1, <1>2 DEF Waits

\* The channel is joined: the bot has op then only if it had it, or is told of it.
LEMMA TakeJoinTells ==
    ASSUME Shapes, TakeJoin
    PROVE  /\ server'.op => server' = server \/ Waits({"opEvent"})'
           /\ \A ops : Waits(ops) => Waits(ops)'
<1>1. inbox \in Seq(Items) /\ Item("opEvent") \in Items /\ Item("opEvent").op = "opEvent"
  BY ItemTypes DEF Events, Shapes, TypeOK, Item, With
<1>2. CASE server' = server /\ inbox' = inbox
  BY <1>2 DEF Waits
<1>3. CASE ~server.in /\ server' = [server EXCEPT !.in = TRUE] /\ inbox' = inbox
  <2>1. ~server.op /\ server'.op = server.op
    BY <1>3 DEF Shapes, TypeOK
  <2> QED
    BY <1>3, <2>1 DEF Waits
<1>4. CASE inbox' = Append(inbox, Item("opEvent"))
  BY <1>1, <1>4, WaitsAppend
<1> QED
  BY <1>2, <1>3, <1>4 DEF TakeJoin

\* The topic still comes: by another thread, or a message.
LEMMA TopicStillComes ==
    ASSUME Shapes, NEW w \in Workers, Work(w), TopicComes, Waits(Brings) => Waits(Brings)',
           pc[w] # "topic", pc[w] = "read" => Op(w) \notin Brings
    PROVE  TopicComes'
<1>1. CASE Waits(Brings)
  BY <1>1 DEF TopicComes
<1>2. ASSUME NEW v \in Workers, \/ pc[v] = "read" /\ Op(v) \in Brings
                                \/ pc[v] = "topic"
      PROVE  TopicComes'
  <2>1. v # w
    BY <1>2
  <2>2. pc'[v] = pc[v] /\ Op(v)' = Op(v)
    BY <2>1, OthersStay
  <2>3. Brings' = Brings
    BY DEF Brings
  <2> QED
    BY <1>2, <2>2, <2>3 DEF TopicComes
<1> QED
  BY <1>1, <1>2 DEF TopicComes

\* Nothing that TopicInv is about is changed.
LEMMA TopicStays ==
    ASSUME TopicInv, record' = record, server'.topic = server.topic, server'.op => server.op,
           "topic" \in late => "topic" \in late', TopicComes => TopicComes'
    PROVE  TopicInv'
BY DEF TopicInv

LEMMA TopicInit == Init => TopicInv
BY DEF Init, TopicInv

\* The server tells of what users do to the topic, and of op.
LEMMA TopicThreadless ==
    ASSUME Shapes, TopicInv, Threadless
    PROVE  TopicInv'
<1>1. /\ inbox \in Seq(Items) /\ (server.op => server.in)
      /\ server \in [topic : Texts \cup {None}, flags : SUBSET Flags, op : BOOLEAN, in : BOOLEAN]
      /\ \A op \in Events : Item(op) \in Items /\ Item(op).op = op
  BY ItemTypes DEF Shapes, TypeOK, Item, With
<1>2. pc' = pc /\ job' = job /\ record' = record /\ late' = late
  BY ThreadlessKeeps
<1>3. (Waits(Brings) => Waits(Brings)') => (TopicComes => TopicComes')
  BY <1>2 DEF TopicComes, Op, Brings
<1>4. CASE User
  <2>1. UNCHANGED server
    BY <1>4 DEF User, Say
  <2>2. PICK x \in Items : inbox' = Append(inbox, x)
    BY <1>4, ItemTypes DEF User, Say, Commands
  <2>3. Waits(Brings) => Waits(Brings)'
    BY <1>1, <2>2, WaitsAppend
  <2> QED
    BY <1>2, <1>3, <2>1, <2>3, TopicStays
<1>5. ASSUME NEW text \in Texts, OtherTopic(text) PROVE TopicInv'
  <2>1. CASE server.in
    <3>1. inbox' = Append(inbox, Item("topicEvent"))
      BY <1>5, <2>1 DEF OtherTopic
    <3>2. Waits(Brings)'
      BY <1>1, <3>1, WaitsAppend DEF Events, Brings
    <3> QED
      BY <3>2 DEF TopicComes, TopicInv
  <2>2. CASE ~server.in
    <3>1. ~server'.op
      BY <1>1, <1>5, <2>2 DEF OtherTopic
    <3> QED
      BY <3>1 DEF TopicInv
  <2> QED
    BY <2>1, <2>2
<1>6. ASSUME NEW f \in Flags, OtherMode(f) PROVE TopicInv'
  <2>1. server'.topic = server.topic /\ server'.op = server.op /\ inbox' = inbox
    BY <1>1, <1>6 DEF OtherMode
  <2>2. Waits(Brings) => Waits(Brings)'
    BY <2>1 DEF Waits
  <2> QED
    BY <1>2, <1>3, <2>1, <2>2, TopicStays
<1>7. CASE OtherOp
  <2>1. CASE server.op
    <3>1. ~server'.op
      BY <1>1, <1>7, <2>1 DEF OtherOp
    <3> QED
      BY <3>1 DEF TopicInv
  <2>2. CASE ~server.op
    <3>1. inbox' = Append(inbox, Item("opEvent"))
      BY <1>7, <2>2 DEF OtherOp
    <3>2. Waits(Brings)'
      BY <1>1, <3>1, WaitsAppend DEF Events, Brings
    <3> QED
      BY <3>2 DEF TopicComes, TopicInv
  <2> QED
    BY <2>1, <2>2
<1>8. CASE OtherKick
  <2>1. ~server'.op
    BY <1>1, <1>8 DEF OtherKick
  <2> QED
    BY <2>1 DEF TopicInv
<1>9. CASE JoinAll
  BY <1>2, <1>3, <1>9, TakeJoinTells, TopicStays DEF JoinAll, TopicInv, TopicComes, Waits, Brings
<1>10. CASE UNCHANGED vars
  <2>1. inbox' = inbox /\ server' = server
    BY <1>10 DEF vars
  <2>2. Waits(Brings) => Waits(Brings)'
    BY <2>1 DEF Waits
  <2> QED
    BY <1>2, <1>3, <2>1, <2>2, TopicStays
<1>11. CASE Other
  BY <1>5, <1>6, <1>7, <1>8, <1>11 DEF Other
<1> QED
  BY <1>4, <1>9, <1>10, <1>11 DEF Threadless

\* A thread that changes the topic of the record or has read it sends it.
LEMMA TopicWork ==
    ASSUME Shapes, Knowledge, TopicInv, NEW w \in Workers, Work(w)
    PROVE  TopicInv'
<1>1. /\ inbox \in Seq(Items) /\ (server.op => server.in)
      /\ server \in [topic : Texts \cup {None}, flags : SUBSET Flags, op : BOOLEAN, in : BOOLEAN]
      /\ pc \in [Workers -> Labels] /\ job \in [Workers -> Jobs]
      /\ Fits(pc[w], Op(w))
  BY DEF Shapes, TypeOK
<1>2. (inbox' = inbox) => (Waits(Brings) => Waits(Brings)')
  BY DEF Waits, Brings
<1>3. CASE Dispatch(w)
  <2> DEFINE op == Head(inbox).op
  <2>1. /\ pc[w] = "idle" /\ pc'[w] = Entry(op) /\ inbox # <<>> /\ inbox' = Tail(inbox)
        /\ job' = [job EXCEPT ![w].item = Head(inbox)]
        /\ UNCHANGED <<record, server, late>>
    BY <1>1, <1>3 DEF Dispatch, history
  <2>2. Op(w)' = op
    <3>1. job'[w] = [job[w] EXCEPT !.item = Head(inbox)]
      BY <1>1, <2>1
    <3> QED
      BY <1>1, <3>1 DEF Op, Jobs
  <2> HIDE DEF op
  <2>3. CASE op \in Brings
    <3>1. pc'[w] = "read"
      BY <2>1, <2>3 DEF Entry, Brings
    <3> QED
      BY <2>2, <2>3, <3>1 DEF TopicComes, TopicInv, Brings
  <2>4. CASE op \notin Brings
    <3>1. Waits(Brings) => Waits(Brings)'
      BY <1>1, <2>1, <2>4, WaitsTail DEF op
    <3> QED
      BY <2>1, <3>1, TopicStillComes, TopicStays
  <2> QED
    BY <2>3, <2>4
<1>4. CASE AddExist(w)
  <2>1. pc[w] = "exist" /\ UNCHANGED <<record, server, late, inbox>>
    BY <1>4 DEF AddExist, history
  <2> QED
    BY <1>2, <2>1, TopicStillComes, TopicStays
<1>5. CASE Add(w)
  <2>1. pc[w] = "add" /\ UNCHANGED <<server, late, inbox>> /\ record' \in {record, EmptyRecord}
    BY <1>5 DEF Add
  <2>2. CASE record' = record
    BY <1>2, <2>1, <2>2, TopicStillComes, TopicStays
  <2>3. CASE record' = EmptyRecord
    BY <2>3 DEF EmptyRecord, TopicInv
  <2> QED
    BY <2>1, <2>2, <2>3
<1>6. CASE Join(w)
  <2>1. pc[w] = "join" /\ TakeJoin /\ UNCHANGED <<record, late>>
    BY <1>6 DEF Join
  <2>2. Waits(Brings) => Waits(Brings)'
    BY <2>1, TakeJoinTells
  <2>3. CASE server' = server
    BY <2>1, <2>2, <2>3, TopicStillComes, TopicStays
  <2>4. CASE Waits({"opEvent"})'
    BY <2>4 DEF TopicInv, TopicComes, Waits, Brings
  <2>5. CASE ~server'.op
    BY <2>5 DEF TopicInv
  <2> QED
    BY <2>1, <2>3, <2>4, <2>5, TakeJoinTells
<1>7. CASE Delete(w)
  <2>1. record' = None
    BY <1>7 DEF Delete
  <2> QED
    BY <2>1 DEF TopicInv
<1>8. CASE Part(w)
  <2>1. ~server'.op
    BY <1>1, <1>8 DEF Part
  <2> QED
    BY <2>1 DEF TopicInv
<1>9. CASE Read(w)
  <2>1. pc[w] = "read" /\ UNCHANGED <<record, server, late, inbox>>
    BY <1>9 DEF Read
  <2>2. CASE Op(w) \notin Brings
    BY <1>2, <2>1, <2>2, TopicStillComes, TopicStays
  <2>3. CASE Op(w) \in Brings /\ record # None /\ record.topic # None
    <3>1. pc'[w] = AfterRead(Op(w))
      BY <1>1, <1>9, <2>3 DEF Read, Op
    <3>2. pc'[w] = "topic"
      BY <2>3, <3>1 DEF AfterRead, Stores, Brings
    <3> QED
      BY <3>2 DEF TopicComes, TopicInv
  <2>4. CASE ~(record # None /\ record.topic # None)
    BY <2>1, <2>4 DEF TopicInv
  <2> QED
    BY <2>2, <2>3, <2>4
<1>10. CASE ReplaceTest(w)
  <2>1. pc[w] = "test" /\ UNCHANGED <<record, server, late, inbox>>
    BY <1>10 DEF ReplaceTest
  <2> QED
    BY <1>2, <2>1, TopicStillComes, TopicStays
<1>11. CASE Store(w)
  <2>1. /\ pc[w] = "store" /\ UNCHANGED <<server, inbox>> /\ record' = Stored(job[w].data)
        /\ late' = (IF w \in overtaken THEN {"topic", "mode"} ELSE late)
        /\ pc'[w] = AfterStore(Op(w))
    BY <1>1, <1>11 DEF Store, Goto, Op
  <2>2. CASE w \in overtaken
    BY <2>1, <2>2 DEF TopicInv
  <2>3. CASE Op(w) = "topic"
    <3>1. pc'[w] = "topic"
      BY <2>1, <2>3 DEF AfterStore
    <3> QED
      BY <3>1 DEF TopicComes, TopicInv
  <2>4. CASE w \notin overtaken /\ Op(w) # "topic"
    <3>1. record # None /\ record'.topic = record.topic
      BY <2>1, <2>4 DEF Knowledge, Knows, StoreKnows, Stored
    <3>2. TopicComes => TopicComes'
      BY <1>2, <2>1, TopicStillComes
    <3> QED
      BY <2>1, <2>4, <3>1, <3>2 DEF TopicInv
  <2> QED
    BY <2>2, <2>3, <2>4
<1>12. CASE SendTopic(w)
  <2>1. pc[w] = "topic" /\ UNCHANGED <<record, inbox>>
    BY <1>12 DEF SendTopic
  <2>2. CASE server.op
    <3>1. /\ server' = [server EXCEPT !.topic = job[w].data.topic]
          /\ late' = (IF w \in overtaken THEN late \cup {"topic"} ELSE late \ {"topic"})
      BY <1>1, <1>12, <2>2 DEF SendTopic, TakesTopic, Heard
    <3>2. server'.topic = job[w].data.topic
      BY <1>1, <3>1
    <3>3. record # None /\ w \notin overtaken => job[w].data.topic = record.topic
      BY <2>1 DEF Knowledge, Knows, SendKnows
    <3> QED
      BY <2>1, <3>1, <3>2, <3>3 DEF TopicInv
  <2>3. CASE ~server.op
    <3>1. ~server'.op
      BY <1>1, <1>12, <2>3 DEF SendTopic
    <3> QED
      BY <3>1 DEF TopicInv
  <2> QED
    BY <2>2, <2>3
<1>13. CASE SendModes(w)
  <2>1. /\ pc[w] = "mode" /\ UNCHANGED <<record, inbox>>
        /\ server'.topic = server.topic /\ server'.op = server.op
    BY <1>1, <1>13 DEF SendModes
  <2>2. "topic" \in late => "topic" \in late'
    BY <1>13 DEF SendModes, Heard
  <2> QED
    BY <1>2, <2>1, <2>2, TopicStillComes, TopicStays
<1> QED
  BY <1>3, <1>4, <1>5, <1>6, <1>7, <1>8, <1>9, <1>10, <1>11, <1>12, <1>13 DEF Work

LEMMA TopicStep == Shapes /\ Knowledge /\ TopicInv /\ [Next]_vars => TopicInv'
<1> SUFFICES ASSUME Shapes, Knowledge, TopicInv, [Next]_vars PROVE TopicInv'
  OBVIOUS
<1>1. CASE Ends
  <2>1. ~server'.op
    BY <1>1, EndsKeep DEF Shapes, TypeOK
  <2> QED
    BY <2>1 DEF TopicInv
<1> QED
  BY <1>1, StepCases, TopicThreadless, TopicWork

-----------------------------------------------------------------------------
(* The modes. *)

\* Nothing that ModesInv is about is changed.
LEMMA ModesStay ==
    ASSUME ModesInv, record' = record, server'.op => server.op, "mode" \in late => "mode" \in late',
           ModesCome => ModesCome',
           \A f \in Flags : ModeCares(f) => ModeCares(f)' \/ ModesCome',
           RecordModes.flags \subseteq Flags
    PROVE  ModesInv'
<1>1. RecordModes' = RecordModes
  BY DEF RecordModes
<1>2. CASE ~(record # None /\ server.op /\ "mode" \notin late)
  BY <1>2 DEF ModesInv
<1>3. CASE ModesCome
  BY <1>3 DEF ModesInv
<1>4. CASE \A f \in RecordModes.flags : ModeCares(f)
  <2>1. CASE ModesCome'
    BY <2>1 DEF ModesInv
  <2>2. CASE ~ModesCome'
    <3>1. \A f \in RecordModes.flags : ModeCares(f)'
      BY <1>4, <2>2
    <3> QED
      BY <1>1, <3>1 DEF ModesInv
  <2> QED
    BY <2>1, <2>2
<1> QED
  BY <1>2, <1>3, <1>4 DEF ModesInv

\* The modes in a record.
LEMMA RecordModesType ==
    ASSUME Shapes, record # None
    PROVE  RecordModes \in Modes /\ RecordModes.flags \subseteq Flags
<1>1. record.line \in Lines
  BY DEF Shapes, TypeOK, Records
<1>2. RecordModes \in Modes
  BY <1>1, StrType DEF RecordModes
<1> QED
  BY <1>2 DEF Modes

LEMMA ModesInit == Init => ModesInv
BY DEF Init, ModesInv

\* The server tells of op; what another user does to a mode is remembered.
LEMMA ModesThreadless ==
    ASSUME Shapes, ModesInv, Threadless
    PROVE  ModesInv'
<1>1. /\ inbox \in Seq(Items) /\ (server.op => server.in)
      /\ server \in [topic : Texts \cup {None}, flags : SUBSET Flags, op : BOOLEAN, in : BOOLEAN]
      /\ \A op \in Events : Item(op) \in Items /\ Item(op).op = op
  BY ItemTypes DEF Shapes, TypeOK, Item, With
<1>2. pc' = pc /\ job' = job /\ record' = record /\ late' = late /\ overtaken' = overtaken
  BY ThreadlessKeeps
<1>3. (Waits({"opEvent"}) => Waits({"opEvent"})') => (ModesCome => ModesCome')
  BY <1>2 DEF ModesCome, Op
<1>4. \A f : ModeComes(f) => ModeComes(f)'
  BY <1>2 DEF ModeComes, Op, New
<1>5. CASE record = None
  BY <1>2, <1>5 DEF ModesInv
<1>6. CASE record # None
  <2>1. RecordModes.flags \subseteq Flags
    BY <1>6, RecordModesType
  <2>2. ASSUME /\ server'.flags \cup foreign' = server.flags \cup foreign
               /\ server'.op => server.op
               /\ Waits({"opEvent"}) => Waits({"opEvent"})'
        PROVE  ModesInv'
    <3>1. \A f \in Flags : ModeCares(f) => ModeCares(f)'
      BY <1>4, <2>2 DEF ModeCares
    <3> QED
      BY <1>2, <1>3, <2>1, <2>2, <3>1, ModesStay
  <2>3. ASSUME Waits({"opEvent"})' PROVE ModesInv'
    BY <2>3 DEF ModesInv, ModesCome
  <2>4. ASSUME ~server'.op PROVE ModesInv'
    BY <2>4 DEF ModesInv
  <2>5. CASE User
    <3>1. PICK x \in Items : inbox' = Append(inbox, x)
      BY <2>5, ItemTypes DEF User, Say, Commands
    <3>2. Waits({"opEvent"}) => Waits({"opEvent"})'
      BY <1>1, <3>1, WaitsAppend
    <3>3. UNCHANGED <<server, foreign>>
      BY <2>5 DEF User, Say, history
    <3> QED
      BY <2>2, <3>2, <3>3
  <2>6. ASSUME NEW text \in Texts, OtherTopic(text) PROVE ModesInv'
    <3>1. inbox' = Append(inbox, Item("topicEvent")) \/ inbox' = inbox
      BY <2>6 DEF OtherTopic
    <3>2. Waits({"opEvent"}) => Waits({"opEvent"})'
      <4>1. CASE inbox' = inbox
        BY <4>1 DEF Waits
      <4>2. CASE inbox' = Append(inbox, Item("topicEvent"))
        BY <1>1, <4>2, WaitsAppend DEF Events
      <4> QED
        BY <3>1, <4>1, <4>2
    <3>3. server'.flags = server.flags /\ server'.op = server.op /\ foreign' = foreign
      BY <1>1, <2>6 DEF OtherTopic, history
    <3> QED
      BY <2>2, <3>2, <3>3
  <2>7. ASSUME NEW f \in Flags, OtherMode(f) PROVE ModesInv'
    <3>1. CASE server.op
      <4>1. /\ server'.op = server.op /\ inbox' = inbox /\ foreign' = foreign \cup {f}
            /\ server.flags \subseteq server'.flags \cup {f}
        BY <1>1, <2>7, <3>1 DEF OtherMode
      <4>2. \A g \in Flags : ModeCares(g) => ModeCares(g)'
        BY <1>4, <4>1 DEF ModeCares
      <4>3. ModesCome => ModesCome'
        BY <1>3, <4>1 DEF Waits
      <4> QED
        BY <1>2, <2>1, <4>1, <4>2, <4>3, ModesStay
    <3>2. CASE ~server.op
      <4>1. ~server'.op
        BY <1>1, <2>7, <3>2 DEF OtherMode
      <4> QED
        BY <2>4, <4>1
    <3> QED
      BY <3>1, <3>2
  <2>8. CASE OtherOp
    <3>1. CASE server.op
      <4>1. ~server'.op
        BY <1>1, <2>8, <3>1 DEF OtherOp
      <4> QED
        BY <2>4, <4>1
    <3>2. CASE ~server.op
      <4>1. inbox' = Append(inbox, Item("opEvent"))
        BY <2>8, <3>2 DEF OtherOp
      <4>2. Waits({"opEvent"})'
        BY <1>1, <4>1, WaitsAppend DEF Events
      <4> QED
        BY <2>3, <4>2
    <3> QED
      BY <3>1, <3>2
  <2>9. CASE OtherKick
    <3>1. ~server'.op
      BY <1>1, <2>9 DEF OtherKick
    <3> QED
      BY <2>4, <3>1
  <2>10. CASE JoinAll
    <3>1. TakeJoin /\ foreign' = foreign
      BY <2>10 DEF JoinAll, history
    <3>2. Waits({"opEvent"}) => Waits({"opEvent"})'
      BY <3>1, TakeJoinTells
    <3>3. server' = server \/ Waits({"opEvent"})' \/ ~server'.op
      BY <3>1, TakeJoinTells
    <3> QED
      BY <2>2, <2>3, <2>4, <3>1, <3>2, <3>3
  <2>11. CASE UNCHANGED vars
    <3>1. UNCHANGED <<server, inbox, foreign>>
      BY <2>11 DEF vars
    <3>2. Waits({"opEvent"}) => Waits({"opEvent"})'
      BY <3>1 DEF Waits
    <3> QED
      BY <2>2, <3>1, <3>2
  <2>12. CASE Other
    BY <2>6, <2>7, <2>8, <2>9, <2>12 DEF Other
  <2> QED
    BY <2>5, <2>10, <2>11, <2>12 DEF Threadless
<1> QED
  BY <1>5, <1>6

\* The modes still come: by another thread, or a message.
LEMMA ModesStillCome ==
    ASSUME Shapes, NEW w \in Workers, Work(w), ModesCome,
           Waits({"opEvent"}) => Waits({"opEvent"})',
           pc[w] \in {"read", "topic", "mode"} => Op(w) # "opEvent",
           pc[w] = "mode" => w \notin overtaken
    PROVE  ModesCome'
<1>1. CASE Waits({"opEvent"})
  BY <1>1 DEF ModesCome
<1>2. ASSUME NEW v \in Workers, \/ pc[v] \in {"read", "topic", "mode"} /\ Op(v) = "opEvent"
                                \/ pc[v] = "mode" /\ v \in overtaken
      PROVE  ModesCome'
  <2>1. v # w
    BY <1>2
  <2>2. pc'[v] = pc[v] /\ Op(v)' = Op(v) /\ (v \in overtaken => v \in overtaken')
    BY <2>1, OthersStay
  <2> QED
    BY <1>2, <2>2 DEF ModesCome
<1> QED
  BY <1>1, <1>2 DEF ModesCome

\* So does a mode that another thread sends.
LEMMA ModeStillComes ==
    ASSUME Shapes, NEW w \in Workers, Work(w), NEW f, ModeComes(f),
           pc[w] = "mode" => New(w).sign = "-" \/ f \notin New(w).flags
    PROVE  ModeComes(f)'
<1>1. PICK v \in Workers : /\ pc[v] = "mode" /\ Op(v) = "chanmode"
                           /\ New(v).sign # "-" /\ f \in New(v).flags
  BY DEF ModeComes
<1>2. v # w
  BY <1>1
<1>3. pc'[v] = pc[v] /\ Op(v)' = Op(v) /\ New(v)' = New(v)
  BY <1>2, OthersStay
<1> QED
  BY <1>1, <1>3 DEF ModeComes

\* A step that leaves the record, the modes on the server and op alone, of a thread
\* that was not about to send any.
LEMMA QuietWork ==
    ASSUME Shapes, ModesInv, NEW w \in Workers, Work(w),
           record' = record, server'.flags = server.flags, server'.op => server.op,
           foreign' = foreign, "mode" \in late => "mode" \in late',
           Waits({"opEvent"}) => Waits({"opEvent"})',
           pc[w] # "mode", pc[w] \in {"read", "topic"} => Op(w) # "opEvent"
    PROVE  ModesInv'
<1>1. CASE record = None
  BY <1>1 DEF ModesInv
<1>2. CASE record # None
  <2>1. RecordModes.flags \subseteq Flags
    BY <1>2, RecordModesType
  <2>2. ModesCome => ModesCome'
    BY ModesStillCome
  <2>3. \A f \in Flags : ModeCares(f) => ModeCares(f)'
    BY ModeStillComes DEF ModeCares
  <2> QED
    BY <2>1, <2>2, <2>3, ModesStay
<1> QED
  BY <1>1, <1>2

\* A store: what has been added is sent next, and those who send then are overtaken.
LEMMA ModesStore ==
    ASSUME Shapes, Knowledge, ModesInv, NEW w \in Workers, Work(w), Store(w)
    PROVE  ModesInv'
<1>1. /\ pc \in [Workers -> Labels] /\ job \in [Workers -> Jobs]
      /\ Stores(Op(w)) /\ Kept(job[w].data.modes)
  BY DEF Shapes, TypeOK, Fits, Store
<1>2. job[w].data.modes \in Modes
  BY <1>1 DEF Jobs, Data
<1>3. /\ pc[w] = "store" /\ UNCHANGED <<server, inbox, foreign>>
      /\ record' = Stored(job[w].data)
      /\ late' = (IF w \in overtaken THEN {"topic", "mode"} ELSE late)
      /\ overtaken' = (overtaken \ {w}) \cup Overtaken(w)
      /\ pc'[w] = AfterStore(Op(w)) /\ (AfterStore(Op(w)) # "idle" => job' = job)
  BY <1>1 DEF Store, Goto, Op
<1>4. RecordModes' = job[w].data.modes
  BY <1>2, <1>1, <1>3, RoundTrip DEF RecordModes, Stored
<1>5. CASE w \in overtaken
  BY <1>3, <1>5 DEF ModesInv
<1>6. CASE w \notin overtaken
  <2>1. StoreKnows(w)
    BY <1>3, <1>6 DEF Knowledge, Knows
  <2>2. CASE ModesCome
    <3>1. Waits({"opEvent"}) => Waits({"opEvent"})'
      BY <1>3 DEF Waits
    <3>2. ModesCome'
      BY <1>3, <2>2, <3>1, ModesStillCome
    <3> QED
      BY <3>2 DEF ModesInv
  <2>3. CASE \E v \in Workers : pc[v] = "mode"
    <3>1. PICK v \in Workers : pc[v] = "mode"
      BY <2>3
    <3>2. v \in overtaken' /\ pc'[v] = "mode"
      BY <1>3, <3>1, OthersStay DEF Overtaken
    <3> QED
      BY <3>2 DEF ModesInv, ModesCome
  <2>4. CASE ~ModesCome /\ ~\E v \in Workers : pc[v] = "mode"
    <3>1. SUFFICES ASSUME server.op, "mode" \notin late PROVE ModesInv'
      BY <1>3, <1>6 DEF ModesInv
    <3>2. \A f \in RecordModes.flags : f \in server.flags \cup foreign
      BY <2>1, <2>4, <3>1 DEF ModesInv, StoreKnows, ModeCares, ModeComes
    <3>3. CASE Op(w) = "chanmode"
      <4>1. pc'[w] = "mode" /\ Op(w)' = "chanmode" /\ New(w)' = New(w)
        BY <1>3, <3>3 DEF AfterStore, Op, New
      <4>2. ASSUME NEW f \in job[w].data.modes.flags
            PROVE  ModeCares(f)'
        <5>1. CASE f \in RecordModes.flags
          BY <1>3, <3>2, <5>1 DEF ModeCares
        <5>2. CASE f \notin RecordModes.flags
          <6>1. New(w).sign = "+" /\ f \in New(w).flags
            BY <2>1, <3>3, <5>2 DEF StoreKnows
          <6>2. ModeComes(f)'
            BY <4>1, <6>1 DEF ModeComes
          <6> QED
            BY <6>2 DEF ModeCares
        <5> QED
          BY <5>1, <5>2
      <4> QED
        BY <1>4, <4>2 DEF ModesInv
    <3>4. CASE Op(w) # "chanmode"
      <4>1. record'.line = record.line
        BY <1>3, <2>1, <3>4 DEF StoreKnows, Stored
      <4>2. RecordModes' = RecordModes
        BY <4>1 DEF RecordModes
      <4> QED
        BY <1>3, <3>2, <4>2 DEF ModesInv, ModeCares
    <3> QED
      BY <3>3, <3>4
  <2> QED
    BY <2>2, <2>3, <2>4
<1> QED
  BY <1>5, <1>6

\* Modes are sent: all those of the record, or those that chanmode was given.
LEMMA ModesSend ==
    ASSUME Shapes, Knowledge, ModesInv, NEW w \in Workers, Work(w), SendModes(w)
    PROVE  ModesInv'
<1>1. /\ server \in [topic : Texts \cup {None}, flags : SUBSET Flags, op : BOOLEAN, in : BOOLEAN]
      /\ (server.op => server.in) /\ Kept(job[w].data.modes)
      /\ Op(w) \in {"chanmode", "opEvent"}
      /\ pc[w] = "mode" /\ UNCHANGED <<record, inbox>>
  BY DEF Shapes, TypeOK, Fits, SendModes
<1>2. RecordModes' = RecordModes
  BY <1>1 DEF RecordModes
<1>3. CASE ~server.op \/ record = None
  <2>1. server'.op = server.op
    BY <1>1 DEF SendModes
  <2> QED
    BY <1>1, <1>3, <2>1 DEF ModesInv
<1>4. CASE server.op /\ record # None
  <2>1. /\ server'.flags = (IF Sent(w).sign = "-" THEN server.flags \ Sent(w).flags
                            ELSE server.flags \cup Sent(w).flags)
        /\ server'.op = server.op
        /\ foreign' = foreign \ Sent(w).flags
        /\ (Op(w) = "opEvent" \/ w \in overtaken) => Heard(w, "mode")
        /\ ~(Op(w) = "opEvent" \/ w \in overtaken) => late' = late
    BY <1>1, <1>4 DEF SendModes, TakesModes, Op
  <2>2. CASE w \in overtaken
    BY <2>1, <2>2 DEF Heard, ModesInv
  <2>3. CASE w \notin overtaken /\ Op(w) = "opEvent"
    <3>1. Sent(w) = job[w].data.modes /\ job[w].data.modes = RecordModes
      BY <1>1, <1>4, <2>3 DEF Sent, Op, Knowledge, Knows, SendKnows
    <3>2. Sent(w).sign # "-"
      BY <1>1, <3>1 DEF Kept
    <3>3. \A f \in RecordModes.flags : f \in server'.flags
      BY <2>1, <3>1, <3>2
    <3> QED
      BY <1>2, <3>3 DEF ModesInv, ModeCares
  <2>4. CASE w \notin overtaken /\ Op(w) = "chanmode"
    <3>1. Sent(w) = New(w)
      BY <2>4 DEF Sent, New, Op
    <3>2. New(w).sign = "-" => RecordModes.flags \cap New(w).flags = {}
      BY <1>1, <1>4, <2>4 DEF Knowledge, Knows, SendKnows
    <3>3. ModesCome => ModesCome'
      <4>1. Waits({"opEvent"}) => Waits({"opEvent"})'
        BY <1>1 DEF Waits
      <4> QED
        BY <2>4, <4>1, ModesStillCome
    <3>4. ASSUME NEW f \in RecordModes.flags, ModeCares(f)
          PROVE  ModeCares(f)'
      <4>1. CASE New(w).sign # "-" /\ f \in New(w).flags
        BY <2>1, <3>1, <4>1 DEF ModeCares
      <4>2. CASE New(w).sign = "-" \/ f \notin New(w).flags
        <5>1. f \notin New(w).flags
          BY <3>2, <4>2
        <5>2. f \in server.flags \cup foreign => f \in server'.flags \cup foreign'
          BY <2>1, <3>1, <5>1
        <5>3. ModeComes(f) => ModeComes(f)'
          BY <5>1, ModeStillComes
        <5> QED
          BY <3>4, <5>2, <5>3 DEF ModeCares
      <4> QED
        BY <4>1, <4>2
    <3> QED
      BY <1>1, <1>2, <2>1, <2>4, <3>3, <3>4 DEF ModesInv
  <2> QED
    BY <1>1, <2>2, <2>3, <2>4
<1> QED
  BY <1>3, <1>4

LEMMA ModesWork ==
    ASSUME Shapes, RecordKept, Knowledge, ModesInv, NEW w \in Workers, Work(w)
    PROVE  ModesInv'
<1>1. /\ inbox \in Seq(Items)
      /\ server \in [topic : Texts \cup {None}, flags : SUBSET Flags, op : BOOLEAN, in : BOOLEAN]
      /\ pc \in [Workers -> Labels] /\ job \in [Workers -> Jobs]
      /\ Fits(pc[w], Op(w))
  BY DEF Shapes, TypeOK
<1>2. (inbox' = inbox) => (Waits({"opEvent"}) => Waits({"opEvent"})')
  BY DEF Waits
<1>3. CASE Dispatch(w)
  <2> DEFINE op == Head(inbox).op
  <2>1. /\ pc[w] = "idle" /\ pc'[w] = Entry(op) /\ inbox # <<>> /\ inbox' = Tail(inbox)
        /\ job' = [job EXCEPT ![w].item = Head(inbox)]
        /\ UNCHANGED <<record, server, late, foreign>>
    BY <1>1, <1>3 DEF Dispatch, history
  <2>2. Op(w)' = op
    <3>1. job'[w] = [job[w] EXCEPT !.item = Head(inbox)]
      BY <1>1, <2>1
    <3> QED
      BY <1>1, <3>1 DEF Op, Jobs
  <2> HIDE DEF op
  <2>3. CASE op = "opEvent"
    <3>1. pc'[w] = "read"
      BY <2>1, <2>3 DEF Entry
    <3> QED
      BY <2>2, <2>3, <3>1 DEF ModesCome, ModesInv
  <2>4. CASE op # "opEvent"
    <3>1. Waits({"opEvent"}) => Waits({"opEvent"})'
      BY <1>1, <2>1, <2>4, WaitsTail DEF op
    <3> QED
      BY <2>1, <3>1, QuietWork
  <2> QED
    BY <2>3, <2>4
<1>4. CASE AddExist(w)
  <2>1. pc[w] = "exist" /\ UNCHANGED <<record, server, late, inbox, foreign>>
    BY <1>4 DEF AddExist, history
  <2> QED
    BY <1>2, <2>1, QuietWork
<1>5. CASE Add(w)
  <2>1. /\ pc[w] = "add" /\ UNCHANGED <<server, late, inbox, foreign>>
        /\ record' \in {record, EmptyRecord}
    BY <1>5 DEF Add
  <2>2. CASE record' = record
    BY <1>2, <2>1, <2>2, QuietWork
  <2>3. CASE record' = EmptyRecord
    <3>1. NoModes \in Modes /\ Kept(NoModes) /\ record'.line = ChannelModeToStr(NoModes)
      BY <2>3, EmptyIsStored DEF Stored, NoData, NoModes, Modes
    <3>2. RecordModes' = NoModes
      BY <3>1, RoundTrip DEF RecordModes
    <3>3. \A f \in NoModes.flags : ModeCares(f)'
      BY DEF NoModes
    <3> QED
      BY <3>2, <3>3 DEF ModesInv
  <2> QED
    BY <2>1, <2>2, <2>3
<1>6. CASE Join(w)
  <2>1. pc[w] = "join" /\ TakeJoin /\ UNCHANGED <<record, late, foreign>>
    BY <1>6 DEF Join
  <2>2. Waits({"opEvent"}) => Waits({"opEvent"})'
    BY <2>1, TakeJoinTells
  <2>3. CASE server' = server
    BY <2>1, <2>2, <2>3, QuietWork
  <2>4. CASE Waits({"opEvent"})'
    BY <2>4 DEF ModesInv, ModesCome
  <2>5. CASE ~server'.op
    BY <2>5 DEF ModesInv
  <2> QED
    BY <2>1, <2>3, <2>4, <2>5, TakeJoinTells
<1>7. CASE Delete(w)
  <2>1. record' = None
    BY <1>7 DEF Delete
  <2> QED
    BY <2>1 DEF ModesInv
<1>8. CASE Part(w)
  <2>1. ~server'.op
    BY <1>1, <1>8 DEF Part
  <2> QED
    BY <2>1 DEF ModesInv
<1>9. CASE Read(w)
  <2>1. pc[w] = "read" /\ UNCHANGED <<record, server, late, inbox, foreign>>
    BY <1>9 DEF Read
  <2>2. CASE Op(w) # "opEvent"
    BY <1>2, <2>1, <2>2, QuietWork
  <2>3. CASE Op(w) = "opEvent" /\ record # None
    <3>1. pc'[w] \in {"topic", "mode"}
      BY <1>1, <1>9, <2>3 DEF Read, Op, AfterRead, Stores
    <3>2. Op(w)' = Op(w)
      <4>1. job'[w] = [job[w] EXCEPT !.data = Changed(job[w].item)]
        BY <1>1, <1>9, <2>3 DEF Read
      <4> QED
        BY <1>1, <4>1 DEF Op, Jobs
    <3> QED
      BY <2>3, <3>1, <3>2 DEF ModesCome, ModesInv
  <2>4. CASE record = None
    BY <2>1, <2>4 DEF ModesInv
  <2> QED
    BY <2>2, <2>3, <2>4
<1>10. CASE ReplaceTest(w)
  <2>1. pc[w] = "test" /\ UNCHANGED <<record, server, late, inbox, foreign>>
    BY <1>10 DEF ReplaceTest
  <2> QED
    BY <1>2, <2>1, QuietWork
<1>11. CASE Store(w)
  BY <1>11, ModesStore
<1>12. CASE SendTopic(w)
  <2>1. /\ pc[w] = "topic" /\ UNCHANGED <<record, inbox, foreign>>
        /\ server'.flags = server.flags /\ server'.op = server.op
        /\ ("mode" \in late => "mode" \in late')
        /\ pc'[w] = AfterTopic(Op(w)) /\ (AfterTopic(Op(w)) # "idle" => job' = job)
    BY <1>1, <1>12 DEF SendTopic, Heard, Goto, Op
  <2>2. CASE Op(w) # "opEvent"
    BY <1>2, <2>1, <2>2, QuietWork
  <2>3. CASE Op(w) = "opEvent"
    <3>1. pc'[w] = "mode" /\ Op(w)' = "opEvent"
      BY <2>1, <2>3 DEF AfterTopic, Op
    <3> QED
      BY <3>1 DEF ModesInv, ModesCome
  <2> QED
    BY <2>2, <2>3
<1>13. CASE SendModes(w)
  BY <1>13, ModesSend
<1> QED
  BY <1>3, <1>4, <1>5, <1>6, <1>7, <1>8, <1>9, <1>10, <1>11, <1>12, <1>13 DEF Work

LEMMA ModesStep == Shapes /\ RecordKept /\ Knowledge /\ ModesInv /\ [Next]_vars => ModesInv'
<1> SUFFICES ASSUME Shapes, RecordKept, Knowledge, ModesInv, [Next]_vars PROVE ModesInv'
  OBVIOUS
<1>1. CASE Ends
  <2>1. ~server'.op
    BY <1>1, EndsKeep DEF Shapes, TypeOK
  <2> QED
    BY <2>1 DEF ModesInv
<1> QED
  BY <1>1, StepCases, ModesThreadless, ModesWork

-----------------------------------------------------------------------------
(* The theorems. *)

LEMMA InvInit == Init => ChannelsInv
BY ShapesInit, RecordKeptInit, KnowledgeInit, TopicInit, ModesInit DEF ChannelsInv

LEMMA InvStep == ChannelsInv /\ [Next]_vars => ChannelsInv'
BY ShapesStep, RecordKeptStep, KnowledgeStep, TopicStep, ModesStep DEF ChannelsInv

\* The invariant of all that follows: whatever the commands, the events and the
\* deaths of the bot, and in whatever order the threads take their steps.
THEOREM ChannelsInvAlways == Spec => []ChannelsInv
BY InvInit, InvStep, PTL DEF Spec

\* Every variable of the channel has its type.
THEOREM TypeCorrect == Spec => []TypeOK
<1>1. ChannelsInv => TypeOK
  BY DEF ChannelsInv, Shapes
<1> QED
  BY <1>1, ChannelsInvAlways, PTL

\* StrToChannelData never reads a null pointer in a record that chanmode,
\* addChannel or an earlier run of the bot has stored.
THEOREM RecordReadableAlways == Spec => []RecordReadable
<1>1. ChannelsInv => RecordReadable
  BY DEF ChannelsInv, RecordKept, Canonical, RecordReadable, Faults, Kept
<1> QED
  BY <1>1, ChannelsInvAlways, PTL

\* setTopic, setGreeting and chanmode change their own field of the record alone,
\* unless another thread has changed the record since they read it.
THEOREM WriteKeepsOthersAlways == Spec => WriteKeepsOthers
<1> DEFINE Keeps == \A w \in Workers :
              pc[w] = "store" /\ pc'[w] # "store" /\ record' # None /\ w \notin overtaken =>
                /\ record # None
                /\ LET op == job[w].item.op
                   IN /\ op # "chanmode" => record'.line = record.line
                      /\ op # "topic" => record'.topic = record.topic
                      /\ op # "greeting" => record'.greeting = record.greeting
<1>1. ChannelsInv /\ [Next]_vars => Keeps
  <2> SUFFICES ASSUME ChannelsInv, [Next]_vars, NEW w \in Workers,
                      pc[w] = "store", pc'[w] # "store", record' # None, w \notin overtaken
               PROVE  /\ record # None
                      /\ Op(w) # "chanmode" => record'.line = record.line
                      /\ Op(w) # "topic" => record'.topic = record.topic
                      /\ Op(w) # "greeting" => record'.greeting = record.greeting
    BY DEF Op
  <2>1. StoreKnows(w)
    BY DEF ChannelsInv, Knowledge, Knows
  <2>2. CASE record' = record
    BY <2>1, <2>2 DEF StoreKnows
  <2>3. CASE record' # record
    <3>1. PICK v \in Workers : Work(v)
      BY <2>3, StepCases, ThreadlessKeeps, EndsKeep
    <3>2. v = w
      BY <3>1, OthersStay DEF ChannelsInv
    <3>3. record' = Stored(job[w].data)
      BY <2>3, <3>1, <3>2, RecordMoves DEF Delete
    <3> QED
      BY <2>1, <3>3 DEF StoreKnows, Stored
  <2> QED
    BY <2>2, <2>3
<1> QED
  BY <1>1, ChannelsInvAlways, PTL DEF Spec, WriteKeepsOthers

\* rmChannel is undone by addChannel alone, or by a replace_db that had found the
\* record before rmChannel deleted it.
THEOREM RemovedStaysRemovedAlways == Spec => RemovedStaysRemoved
<1> DEFINE Stays == record = None /\ record' # None =>
                      \E w \in Workers : pc[w] = "add" \/ (pc[w] = "store" /\ w \in missed)
<1>1. ChannelsInv /\ [Next]_vars => Stays
  <2> SUFFICES ASSUME ChannelsInv, [Next]_vars, record = None, record' # None
               PROVE  \E w \in Workers : pc[w] = "add" \/ (pc[w] = "store" /\ w \in missed)
    OBVIOUS
  <2>1. PICK w \in Workers : Work(w)
    BY StepCases, ThreadlessKeeps, EndsKeep
  <2>2. pc[w] = "add" \/ pc[w] = "store"
    BY <2>1, RecordMoves DEF Store
  <2>3. pc[w] = "store" => w \in missed
    BY DEF ChannelsInv, Knowledge, Knows
  <2> QED
    BY <2>2, <2>3
<1> QED
  BY <1>1, ChannelsInvAlways, PTL DEF Spec, RemovedStaysRemoved

\* hResetTopic and channelInit bring the topic of the record back: when nothing is
\* under way any more and the bot has op the channel has it, unless a thread that
\* was overtaken had the last word.
THEOREM TopicRestoredAlways == Spec => []TopicRestored
<1>1. ChannelsInv => TopicRestored
  BY DEF ChannelsInv, TopicInv, TopicRestored, TopicComes, Waits, Settled
<1> QED
  BY <1>1, ChannelsInvAlways, PTL

\* channelInit and chanmode set the modes of the record, and nothing but another
\* user takes them away.
THEOREM ModesSetAlways == Spec => []ModesSet
<1>1. ChannelsInv => ModesSet
  BY DEF ChannelsInv, ModesInv, ModesSet, ModesCome, ModeCares, ModeComes, Waits, Settled,
         RecordModes
<1> QED
  BY <1>1, ChannelsInvAlways, PTL
=============================================================================
