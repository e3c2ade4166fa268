--------------------------- MODULE RegistryProofs ---------------------------
(***************************************************************************)
(* CallbackList implements Registry: every step of the list with its links *)
(* and its lock is, under the invariant of CallbackListProofs, one step of *)
(* the line of items or none.                                              *)
(***************************************************************************)
EXTENDS CallbackListProofs, SequenceTheorems

-----------------------------------------------------------------------------
(* The line. *)

\* A function on 1..n is a sequence of length n.
LEMMA FunIsSeq ==
    ASSUME NEW S, NEW n \in Nat, NEW s \in [1..n -> S]
    PROVE  s \in Seq(S) /\ Len(s) = n
<1>1. s \in Seq(S)
  BY SeqDef
<1>2. DOMAIN s = 1..n /\ DOMAIN s = 1..Len(s) /\ Len(s) \in Nat
  BY <1>1, LenProperties
<1> QED
  BY <1>1, <1>2

LineOf(L) == [i \in 1..L.size |-> Way(L.next, L.head)[i - 1]]

\* The line is the order of the list.
LEMMA LineIs ==
    ASSUME NEW L, NEW s, Order(L, s)
    PROVE  /\ LineOf(L) = s
           /\ s \in Seq(Elements) /\ Len(s) = L.size /\ L.size \in Nat
<1>1. L.size \in 0..MaxItems /\ L.size \in Nat /\ s \in [1..L.size -> Elements] /\ L.head = Nth(L, s, 1)
  BY OrderFacts
<1>2. 1 \in 1..(L.size + 1)
  BY <1>1
<1>3. Way(L.next, L.head) = [i \in 0..MaxItems |-> Nth(L, s, 1 + i)]
  BY <1>1, <1>2, WayAhead
<1>4. ASSUME NEW i \in 1..L.size PROVE LineOf(L)[i] = s[i]
  <2>1. i - 1 \in 0..MaxItems /\ 1 + (i - 1) = i
    BY <1>1, BoundsAssumption
  <2>2. Way(L.next, L.head)[i - 1] = s[i]
    BY <1>3, <2>1 DEF Nth
  <2> QED
    BY <2>2 DEF LineOf
<1>5. LineOf(L) = s
  BY <1>1, <1>4 DEF LineOf
<1> QED
  BY <1>1, <1>5, FunIsSeq

\* An element inserted into the order is inserted into the line.
LEMMA InsertedIs ==
    ASSUME NEW n \in Nat, NEW s \in Seq(Elements), Len(s) = n, NEW k \in 0..n, NEW x \in Elements
    PROVE  Reg!InsertAt(s, k + 1, x)
             = [i \in 1..(n + 1) |-> IF i <= k THEN s[i] ELSE IF i = k + 1 THEN x ELSE s[i - 1]]
<1> DEFINE a == SubSeq(s, 1, k)
           b == SubSeq(s, k + 1, n)
           ax == a \o <<x>>
           u == ax \o b
           v == [i \in 1..(n + 1) |-> IF i <= k THEN s[i] ELSE IF i = k + 1 THEN x ELSE s[i - 1]]
<1>0. k \in Nat /\ k \in Int /\ n \in Int /\ 1 \in Int /\ k + 1 \in Int /\ k <= n
  OBVIOUS
<1>1. \A i \in 1..n : s[i] \in Elements
  BY ElementOfSeq
<1>2. a \in Seq(Elements) /\ Len(a) = k /\ \A i \in 1..k : a[i] = s[i]
  <2>1. \A i \in 1..k : s[i] \in Elements
    BY <1>0, <1>1
  <2>2. /\ a \in Seq(Elements)
        /\ Len(a) = IF 1 <= k THEN k - 1 + 1 ELSE 0
        /\ \A i \in 1..(k - 1 + 1) : a[i] = s[1 + i - 1]
    BY <1>0, <2>1, SubSeqProperties
  <2> HIDE DEF a
  <2> QED
    BY <1>0, <2>2
<1>3. b \in Seq(Elements) /\ Len(b) = n - k /\ \A i \in 1..(n - k) : b[i] = s[k + i]
  <2>1. \A i \in (k + 1)..n : s[i] \in Elements
    BY <1>0, <1>1
  <2>2. /\ b \in Seq(Elements)
        /\ Len(b) = IF k + 1 <= n THEN n - (k + 1) + 1 ELSE 0
        /\ \A i \in 1..(n - (k + 1) + 1) : b[i] = s[k + 1 + i - 1]
    BY <1>0, <2>1, SubSeqProperties
  <2> HIDE DEF b
  <2>3. \A i \in 1..(n - k) : i \in 1..(n - (k + 1) + 1) /\ k + 1 + i - 1 = k + i
    BY <1>0
  <2>4. \A i \in 1..(n - k) : b[i] = s[k + i]
    BY <2>2, <2>3
  <2> QED
    BY <1>0, <2>2, <2>4
<1>4. <<x>> \in Seq(Elements) /\ Len(<<x>>) = 1 /\ <<x>>[1] = x
  OBVIOUS
<1> HIDE DEF a, b
<1>5. ax \in Seq(Elements) /\ Len(ax) = k + 1 /\ \A i \in 1..(k + 1) : ax[i] = IF i <= k THEN s[i] ELSE x
  <2>1. /\ ax \in Seq(Elements)
        /\ Len(ax) = Len(a) + Len(<<x>>)
        /\ \A i \in 1..(Len(a) + Len(<<x>>)) : ax[i] = IF i <= Len(a) THEN a[i] ELSE <<x>>[i - Len(a)]
    BY <1>2, <1>4, ConcatProperties
  <2> HIDE DEF ax
  <2>2. \A i \in 1..(k + 1) : i <= k => i \in 1..k
    BY <1>0
  <2>3. \A i \in 1..(k + 1) : ~(i <= k) => i - k = 1
    BY <1>0
  <2> QED
    BY <1>0, <1>2, <1>4, <2>1, <2>2, <2>3
<1> HIDE DEF ax
<1>6. u \in Seq(Elements) /\ Len(u) = n + 1
      /\ \A i \in 1..(n + 1) : u[i] = IF i <= k + 1 THEN ax[i] ELSE b[i - (k + 1)]
  <2>1. /\ u \in Seq(Elements)
        /\ Len(u) = Len(ax) + Len(b)
        /\ \A i \in 1..(Len(ax) + Len(b)) : u[i] = IF i <= Len(ax) THEN ax[i] ELSE b[i - Len(ax)]
    BY <1>3, <1>5, ConcatProperties
  <2> HIDE DEF u
  <2>2. Len(ax) = k + 1 /\ Len(ax) + Len(b) = n + 1
    BY <1>0, <1>3, <1>5
  <2> QED
    BY <2>1, <2>2
<1>7. v \in [1..(n + 1) -> Elements] /\ n + 1 \in Nat
  <2>1. \A i \in 1..(n + 1) : i <= k => i \in 1..n
    BY <1>0
  <2>2. \A i \in 1..(n + 1) : ~(i <= k) /\ i # k + 1 => i - 1 \in 1..n
    BY <1>0
  <2> QED
    BY <1>1, <2>1, <2>2
<1>8. v \in Seq(Elements) /\ Len(v) = n + 1
  <2> HIDE DEF v
  <2> QED
    BY <1>7, FunIsSeq
<1>9. ASSUME NEW i \in 1..(n + 1) PROVE u[i] = v[i]
  <2>1. v[i] = IF i <= k THEN s[i] ELSE IF i = k + 1 THEN x ELSE s[i - 1]
    OBVIOUS
  <2> HIDE DEF u, v
  <2>2. CASE i <= k + 1
    <3>1. i \in 1..(k + 1) /\ (~(i <= k) => i = k + 1)
      BY <1>0, <2>2
    <3> QED
      BY <1>5, <1>6, <2>1, <2>2, <3>1
  <2>3. CASE ~(i <= k + 1)
    <3>1. /\ ~(i <= k) /\ i # k + 1 /\ i - (k + 1) \in 1..(n - k)
          /\ k + (i - (k + 1)) = i - 1
      BY <1>0, <2>3
    <3> QED
      BY <1>3, <1>6, <2>1, <2>3, <3>1
  <2> QED
    BY <2>2, <2>3
<1>10. u = v
  <2> HIDE DEF u, v
  <2> QED
    BY <1>6, <1>8, <1>9, SeqEqual
<1>11. Reg!InsertAt(s, k + 1, x) = u
  <2>1. k + 1 - 1 = k
    BY <1>0
  <2> QED
    BY <2>1 DEF Reg!InsertAt, a, b, ax
<1> QED
  BY <1>10, <1>11

\* An element removed from the order is removed from the line.
LEMMA RemovedIs ==
    ASSUME NEW n \in Nat, NEW s \in Seq(Elements), Len(s) = n, NEW k \in 1..n
    PROVE  Reg!RemoveAt(s, k) = [i \in 1..(n - 1) |-> IF i < k THEN s[i] ELSE s[i + 1]]
<1> DEFINE a == SubSeq(s, 1, k - 1)
           b == SubSeq(s, k + 1, n)
           u == a \o b
           v == [i \in 1..(n - 1) |-> IF i < k THEN s[i] ELSE s[i + 1]]
<1>0. k \in Nat /\ k >= 1 /\ k - 1 \in Int /\ n \in Int /\ 1 \in Int /\ k + 1 \in Int /\ k <= n
  OBVIOUS
<1>1. \A i \in 1..n : s[i] \in Elements
  BY ElementOfSeq
<1>2. a \in Seq(Elements) /\ Len(a) = k - 1 /\ \A i \in 1..(k - 1) : a[i] = s[i]
  <2>1. \A i \in 1..(k - 1) : s[i] \in Elements
    BY <1>0, <1>1
  <2>2. /\ a \in Seq(Elements)
        /\ Len(a) = IF 1 <= k - 1 THEN k - 1 - 1 + 1 ELSE 0
        /\ \A i \in 1..(k - 1 - 1 + 1) : a[i] = s[1 + i - 1]
    BY <1>0, <2>1, SubSeqProperties
  <2> HIDE DEF a
  <2> QED
    BY <1>0, <2>2
<1>3. b \in Seq(Elements) /\ Len(b) = n - k /\ \A i \in 1..(n - k) : b[i] = s[k + i]
  <2>1. \A i \in (k + 1)..n : s[i] \in Elements
    BY <1>0, <1>1
  <2>2. /\ b \in Seq(Elements)
        /\ Len(b) = IF k + 1 <= n THEN n - (k + 1) + 1 ELSE 0
        /\ \A i \in 1..(n - (k + 1) + 1) : b[i] = s[k + 1 + i - 1]
    BY <1>0, <2>1, SubSeqProperties
  <2> HIDE DEF b
  <2>3. \A i \in 1..(n - k) : i \in 1..(n - (k + 1) + 1) /\ k + 1 + i - 1 = k + i
    BY <1>0
  <2>4. \A i \in 1..(n - k) : b[i] = s[k + i]
    BY <2>2, <2>3
  <2> QED
    BY <1>0, <2>2, <2>4
<1> HIDE DEF a, b
<1>4. u \in Seq(Elements) /\ Len(u) = n - 1
      /\ \A i \in 1..(n - 1) : u[i] = IF i <= k - 1 THEN a[i] ELSE b[i - (k - 1)]
  <2>1. /\ u \in Seq(Elements)
        /\ Len(u) = Len(a) + Len(b)
        /\ \A i \in 1..(Len(a) + Len(b)) : u[i] = IF i <= Len(a) THEN a[i] ELSE b[i - Len(a)]
    BY <1>2, <1>3, ConcatProperties
  <2> HIDE DEF u
  <2>2. Len(a) = k - 1 /\ Len(a) + Len(b) = n - 1
    BY <1>0, <1>2, <1>3
  <2> QED
    BY <2>1, <2>2
<1>5. v \in [1..(n - 1) -> Elements] /\ n - 1 \in Nat
  <2>1. \A i \in 1..(n - 1) : i \in 1..n /\ i + 1 \in 1..n
    BY <1>0
  <2>2. n - 1 \in Nat
    BY <1>0
  <2> QED
    BY <1>1, <2>1, <2>2
<1>6. v \in Seq(Elements) /\ Len(v) = n - 1
  <2> HIDE DEF v
  <2> QED
    BY <1>5, FunIsSeq
<1>7. ASSUME NEW i \in 1..(n - 1) PROVE u[i] = v[i]
  <2>1. v[i] = IF i < k THEN s[i] ELSE s[i + 1]
    OBVIOUS
  <2> HIDE DEF u, v
  <2>2. CASE i < k
    <3>1. i \in 1..(k - 1) /\ i <= k - 1
      BY <1>0, <2>2
    <3> QED
      BY <1>2, <1>4, <2>1, <2>2, <3>1
  <2>3. CASE ~(i < k)
    <3>1. ~(i <= k - 1) /\ i - (k - 1) \in 1..(n - k) /\ k + (i - (k - 1)) = i + 1
      BY <1>0, <2>3
    <3> QED
      BY <1>3, <1>4, <2>1, <2>3, <3>1
  <2> QED
    BY <2>2, <2>3
<1>8. u = v
  <2> HIDE DEF u, v
  <2> QED
    BY <1>4, <1>6, <1>7, SeqEqual
<1>9. Reg!RemoveAt(s, k) = u
  BY DEF Reg!RemoveAt, a, b
<1> QED
  BY <1>8, <1>9

\* The last one is removed by taking the rest.
LEMMA FrontIs ==
    ASSUME NEW n \in Nat \ {0}, NEW s \in Seq(Elements), Len(s) = n
    PROVE  Reg!Front(s) = Reg!RemoveAt(s, n) /\ Reg!Last(s) = s[n]
<1> DEFINE a == SubSeq(s, 1, n - 1)
<1>1. \A i \in 1..(n - 1) : s[i] \in Elements
  BY ElementOfSeq
<1>2. a \in Seq(Elements)
  BY <1>1, SubSeqProperties
<1>3. SubSeq(s, n + 1, n) = << >>
  BY SubSeqEmpty
<1>4. Reg!RemoveAt(s, n) = a
  <2> HIDE DEF a
  <2>1. a \o << >> = a
    BY <1>2, ConcatEmptySeq
  <2> QED
    BY <1>3, <2>1 DEF Reg!RemoveAt, a
<1>5. Reg!Front(s) = a /\ Reg!Last(s) = s[n]
  BY DEF Reg!Front, Reg!Last
<1> QED
  BY <1>4, <1>5

\* Of an element that goes to the list, and of one that leaves it, only the line
\* and its order are seen.
LEMMA LineInsert ==
    ASSUME NEW L, NEW s, Order(L, s), NEW e, NEW new \in Elements, new \notin LinkedIn(L),
           L.size = 0 \/ e \in LinkedIn(L)
    PROVE  \E p \in 0..L.size :
              /\ LineOf(insert_next(L, e, new)) = Reg!InsertAt(s, p + 1, new)
              /\ p = 0 => L.size = 0
              /\ L.size = 0 \/ e = L.tail => p = L.size
<1>1. /\ L.size \in Nat /\ s \in [1..L.size -> Elements]
      /\ LinkedIn(L) = {s[i] : i \in 1..L.size}
      /\ \A i, j \in 1..L.size : s[i] = s[j] => i = j
      /\ L.tail = Nth(L, s, L.size)
  BY OrderFacts
<1>2. s \in Seq(Elements) /\ Len(s) = L.size
  BY LineIs
<1>3. CASE L.size = 0
  <2>1. Order(insert_next(L, e, new), [i \in 1..1 |-> new])
    BY <1>3, InsertFirst
  <2>2. LineOf(insert_next(L, e, new)) = [i \in 1..1 |-> new]
    BY <2>1, LineIs
  <2> DEFINE n == L.size
             t == [i \in 1..(n + 1) |-> IF i <= n THEN s[i] ELSE IF i = n + 1 THEN new ELSE s[i - 1]]
  <2> HIDE DEF n
  <2>3. n \in Nat /\ n \in 0..n /\ Len(s) = n /\ n = 0
    BY <1>1, <1>2, <1>3 DEF n
  <2>4. Reg!InsertAt(s, n + 1, new) = t
    BY <1>2, <2>3, InsertedIs
  <2>5. t = [i \in 1..1 |-> new]
    BY <2>3
  <2> HIDE DEF t
  <2>6. LineOf(insert_next(L, e, new)) = Reg!InsertAt(s, n + 1, new)
    BY <2>2, <2>4, <2>5
  <2> QED
    BY <1>3, <2>3, <2>6 DEF n
<1>4. CASE L.size # 0
  <2>1. PICK k \in 1..L.size : e = s[k]
    BY <1>1, <1>4
  <2>2. \A i \in 1..L.size : s[i] # new
    BY <1>1
  <2>3. Order(insert_next(L, s[k], new), Inserted(L, s, k, new))
    BY <2>2, InsertBehind
  <2>4. LineOf(insert_next(L, s[k], new)) = Inserted(L, s, k, new)
    BY <2>3, LineIs
  <2>5. k \in 0..L.size
    BY <1>1
  <2>6. Reg!InsertAt(s, k + 1, new) = Inserted(L, s, k, new)
    BY <1>1, <1>2, <2>5, InsertedIs DEF Inserted
  <2>7. e = L.tail => k = L.size
    <3>1. L.size \in 1..L.size
      BY <1>1, <1>4
    <3>2. L.tail = s[L.size]
      BY <1>1, <3>1 DEF Nth
    <3> QED
      BY <1>1, <2>1, <3>1, <3>2
  <2>8. k # 0
    BY <1>1
  <2> QED
    BY <1>4, <2>1, <2>4, <2>5, <2>6, <2>7, <2>8
<1> QED
  BY <1>3, <1>4

LEMMA LineRemove ==
    ASSUME NEW L, NEW s, Order(L, s), NEW k \in 1..L.size
    PROVE  LineOf(remove(L, s[k])) = Reg!RemoveAt(s, k)
<1>1. s \in Seq(Elements) /\ Len(s) = L.size /\ L.size \in Nat
  BY LineIs
<1>2. Order(remove(L, s[k]), Removed(L, s, k))
  BY RemoveAny
<1>3. LineOf(remove(L, s[k])) = Removed(L, s, k)
  BY <1>2, LineIs
<1>4. Reg!RemoveAt(s, k) = Removed(L, s, k)
  BY <1>1, RemovedIs DEF Removed
<1> QED
  BY <1>3, <1>4

-----------------------------------------------------------------------------
(* The states. *)

Out == freed \ (ran \cup dropped)

\* Before an element is used after its end, the line is an order of the list, and
\* the items on the way to it are those in no other place.
LEMMA StateIs ==
    ASSUME ListInv, ~broken
    PROVE  /\ \E s : Order(list, s) /\ Waiting = s /\ (~overlapped => Increasing(list, s))
           /\ Reg!ToSet(Waiting) = Linked
           /\ Reg!Arriving = (1..Len(nick)) \ (Linked \cup refused \cup freed)
<1>1. PICK s : Order(list, s) /\ (~overlapped => Increasing(list, s))
  BY DEF ListInv, Shape
<1>2. Waiting = LineOf(list)
  BY DEF Waiting, LineOf
<1>3. Waiting = s /\ DOMAIN s = 1..list.size /\ Linked = {s[i] : i \in 1..list.size}
  <2>1. LineOf(list) = s
    BY <1>1, LineIs
  <2>2. LinkedIn(list) = {s[i] : i \in 1..list.size} /\ s \in [1..list.size -> Elements]
    BY <1>1, OrderFacts
  <2> QED
    BY <1>2, <2>1, <2>2 DEF Linked, LinkedIn
<1>4. Reg!ToSet(Waiting) = Linked
  BY <1>3 DEF Reg!ToSet
<1>5. UNION {Reg!ToSet(Waiting), refused, Out, ran, dropped} = Linked \cup refused \cup freed
  <2>1. ran \cup dropped \subseteq freed
    BY NotFreed
  <2> QED
    BY <1>4, <2>1 DEF Out
<1>6. Reg!Arriving = (1..Len(nick)) \ (Linked \cup refused \cup freed)
  BY <1>5 DEF Reg!Arriving, Out
<1> QED
  BY <1>1, <1>3, <1>4, <1>6

\* A step that only moves a thread is none of the line.
LEMMA Stutters ==
    ASSUME UNCHANGED <<list, freed, refused, nick, ran, dropped, broken, overlapped, closing>>
    PROVE  UNCHANGED Reg!vars
<1>1. Waiting' = Waiting
  BY DEF Waiting
<1> QED
  BY <1>1 DEF Reg!vars

\* The use of a freed element needs two threads at work.
LEMMA Undefines ==
    ASSUME ListInv', ~broken, broken', overlapped' = overlapped
    PROVE  Reg!Next
<1>1. OneThreadIsSafe'
  BY DEF ListInv
<1>2. overlapped'
  BY <1>1 DEF OneThreadIsSafe
<1>3. overlapped
  BY <1>2
<1>4. Reg!Undefine
  BY <1>3 DEF Reg!Undefine
<1> QED
  BY <1>4 DEF Reg!Next

-----------------------------------------------------------------------------
(* The steps. *)

\* A command registers an item, alone or not.
LEMMA RegisterIs ==
    ASSUME ListInv, NEW w \in Workers, NEW n \in Nicks, Register(w, n)
    PROVE  Reg!Next
<1>1. /\ ~broken /\ ~closing /\ nick' = Append(nick, n)
      /\ UNCHANGED <<list, refused, freed, ran, dropped, closing, broken>>
      /\ overlapped => overlapped'
  BY DEF Register, Start, Goto, outcome
<1>2. Waiting' = Waiting /\ Out' = Out
  BY <1>1 DEF Waiting, Out
<1>3. (~overlapped)' \in {~overlapped, FALSE}
  <2>1. CASE overlapped'
    BY <2>1
  <2>2. CASE ~overlapped'
    BY <1>1, <2>2
  <2> QED
    BY <2>1, <2>2
<1>4. Reg!Create(n)
  BY <1>1, <1>2, <1>3 DEF Reg!Create, Out
<1> QED
  BY <1>1, <1>4 DEF Reg!Next

\* insert_next_CallbackDList puts the item behind the one that was last when the
\* command looked, or refuses it.
LEMMA InsertIs ==
    ASSUME ListInv, ListInv', NEW w \in Workers, InsertNext(w)
    PROVE  Reg!Next
<1> DEFINE e == arg[w].elem
           new == arg[w].item
<1>1. /\ ~broken /\ pc[w] = "insert"
      /\ UNCHANGED <<freed, nick, ran, dropped, overlapped, closing>>
  BY DEF InsertNext, Goto, outcome
<1>2. Out' = Out
  BY <1>1 DEF Out
<1>3. /\ new \in 1..Len(nick) /\ new \notin Linked \cup refused \cup freed
      /\ new \in Reg!Arriving
  <2>1. Accounts
    BY <1>1 DEF ListInv
  <2>2. new \in 1..Len(nick) /\ new \notin Linked \cup refused \cup freed
    BY <1>1, <2>1 DEF Accounts
  <2> QED
    BY <1>1, <2>2, StateIs
<1>4. PICK s : Order(list, s) /\ Waiting = s
  BY <1>1, StateIs
<1>5. list.size \in Nat /\ s \in Seq(Elements) /\ Len(s) = list.size
  BY <1>4, LineIs
<1>6. CASE list.size # 0 /\ e = Null /\ refused' = refused \cup {new} /\ UNCHANGED <<list, broken>>
  <2>1. overlapped
    <3>1. OneThreadIsSafe'
      BY DEF ListInv
    <3>2. refused' # {}
      BY <1>6
    <3>3. overlapped'
      BY <3>1, <3>2 DEF OneThreadIsSafe
    <3> QED
      BY <1>1, <3>3
  <2>2. Waiting # <<>> /\ Waiting' = Waiting
    <3>1. Len(Waiting) # 0
      BY <1>4, <1>5, <1>6
    <3>2. Waiting' = Waiting
      BY <1>6 DEF Waiting
    <3> QED
      BY <3>1, <3>2, EmptySeq
  <2>3. Reg!Refuse(new)
    BY <1>1, <1>2, <1>3, <1>6, <2>1, <2>2 DEF Reg!Refuse, Out
  <2> QED
    BY <1>1, <1>3, <2>3 DEF Reg!Next
<1>7. CASE broken'
  BY <1>1, <1>7, Undefines
<1>8. CASE /\ list.size = 0 \/ e # Null
           /\ list' = insert_next(list, e, new)
           /\ refused' = refused
           /\ ~broken'
           /\ broken' = (list.size # 0 /\ e \in freed)
  <2>1. new \in Elements
    <3>1. new \in Pointers /\ new # Null
      BY <1>3, ItemsFit DEF Args, Null
    <3> QED
      BY <3>1 DEF Pointers
  <2>2. Linked = LinkedIn(list)
    BY DEF Linked, LinkedIn
  <2>3. list.size = 0 \/ e \in LinkedIn(list)
    <3>1. Holds(w)
      BY <1>1 DEF ListInv
    <3> QED
      BY <1>1, <1>8, <2>2, <3>1 DEF Holds
  <2>4. new \notin LinkedIn(list)
    BY <1>3, <2>2
  <2>5. PICK p \in 0..list.size :
              /\ LineOf(insert_next(list, e, new)) = Reg!InsertAt(s, p + 1, new)
              /\ p = 0 => list.size = 0
              /\ list.size = 0 \/ e = list.tail => p = list.size
    BY <1>4, <2>1, <2>3, <2>4, LineInsert
  <2>6. Waiting' = Reg!InsertAt(Waiting, p + 1, new)
    <3>1. Waiting' = LineOf(list')
      BY DEF Waiting, LineOf
    <3> QED
      BY <1>4, <1>8, <2>5, <3>1
  <2>7. p \in 0..Len(Waiting) /\ (p = 0 => Waiting = <<>>)
    <3>1. Len(Waiting) = list.size
      BY <1>4, <1>5
    <3>2. p = 0 => Waiting = <<>>
      BY <1>4, <1>5, <2>5, <3>1, EmptySeq
    <3> QED
      BY <3>1, <3>2
  <2>8. ~overlapped => p = Len(Waiting)
    <3> SUFFICES ASSUME ~overlapped PROVE p = Len(Waiting)
      OBVIOUS
    <3>1. Fresh(w)
      BY <1>1 DEF ListInv, Alone
    <3>2. e = list.tail
      BY <1>1, <3>1 DEF Fresh
    <3> QED
      BY <1>4, <1>5, <2>5, <3>2
  <2>9. UNCHANGED broken
    <3>1. broken \in BOOLEAN /\ broken' \in BOOLEAN
      BY DEF ListInv, TypeOK
    <3> QED
      BY <1>1, <1>8, <3>1
  <2>10. Reg!Enter(new, p)
    BY <1>1, <1>2, <1>3, <1>8, <2>6, <2>7, <2>8, <2>9 DEF Reg!Enter, Out
  <2> QED
    BY <1>1, <1>3, <2>7, <2>10 DEF Reg!Next
<1>9. \/ list.size # 0 /\ e = Null /\ refused' = refused \cup {new} /\ UNCHANGED <<list, broken>>
      \/ /\ list.size = 0 \/ e # Null
         /\ broken' = (list.size # 0 /\ e \in freed)
         /\ list' = IF broken' THEN list ELSE insert_next(list, e, new)
         /\ refused' = refused
  BY DEF InsertNext
<1> QED
  BY <1>6, <1>7, <1>8, <1>9

\* An answer takes the first item of its nickname out of the line, to be called
\* (311) or dropped (401).
LEMMA RemoveIs ==
    ASSUME ListInv, ListInv', NEW w \in Workers, Remove(w)
    PROVE  [Reg!Next]_Reg!vars
<1> DEFINE e == arg[w].elem
<1>1. /\ ~broken /\ pc[w] = "remove"
      /\ UNCHANGED <<refused, nick, ran, overlapped, closing>>
  BY DEF Remove, Return, Goto
<1>2. broken \in BOOLEAN /\ broken' \in BOOLEAN
  BY DEF ListInv, TypeOK
<1>3. CASE list.size = 0
  <2>1. UNCHANGED <<list, freed, dropped, broken>>
    BY <1>3 DEF Remove
  <2> QED
    BY <1>1, <2>1, Stutters
<1>4. CASE broken'
  BY <1>1, <1>4, Undefines
<1>5. CASE list.size # 0 /\ ~broken'
  <2>1. /\ broken' = (e \in freed)
        /\ list' = IF broken' THEN list ELSE remove(list, e)
        /\ freed' = freed \cup {e}
        /\ \/ UNCHANGED dropped
           \/ dropped' = dropped \cup {e}
    BY <1>5 DEF Remove
  <2>2. list' = remove(list, e) /\ e \notin freed /\ UNCHANGED broken
    BY <1>1, <1>2, <1>5, <2>1
  <2>3. PICK s : Order(list, s) /\ Waiting = s /\ (~overlapped => Increasing(list, s))
    BY <1>1, StateIs
  <2>4. /\ list.size \in Nat /\ s \in Seq(Elements) /\ Len(s) = list.size
        /\ Linked = {s[i] : i \in 1..list.size} /\ Linked \subseteq Elements
    <3>1. Linked = LinkedIn(list)
      BY DEF Linked, LinkedIn
    <3> QED
      BY <2>3, <3>1, LineIs, OrderFacts
  <2>5. e \in Linked
    <3>1. Holds(w)
      BY <1>1 DEF ListInv
    <3> QED
      BY <1>1, <2>2, <3>1 DEF Holds
  <2>6. PICK k \in 1..list.size : e = s[k]
    BY <2>4, <2>5
  <2>7. Waiting' = Reg!RemoveAt(Waiting, k) /\ k \in 1..Len(Waiting) /\ Waiting[k] = e
    <3>1. Waiting' = LineOf(list')
      BY DEF Waiting, LineOf
    <3>2. LineOf(remove(list, s[k])) = Reg!RemoveAt(s, k)
      BY <2>3, LineRemove
    <3> QED
      BY <2>2, <2>3, <2>4, <2>6, <3>1, <3>2
  <2>8. ~closing
    <3>1. Resting
      BY DEF ListInv
    <3> QED
      BY <1>1, <3>1 DEF Resting
  <2>9. ~overlapped => \A q \in 1..(k - 1) : nick[Waiting[q]] # nick[Waiting[k]]
    <3> SUFFICES ASSUME ~overlapped, NEW q \in 1..(k - 1), nick[s[q]] = nick[s[k]] PROVE FALSE
      BY <2>3
    <3>1. Fresh(w)
      BY <1>1 DEF ListInv, Alone
    <3>2. q \in 1..list.size /\ k \in 1..list.size /\ q < k
      BY <2>4
    <3>3. s[q] \in Linked /\ s[q] < s[k]
      BY <2>3, <2>4, <3>2 DEF Increasing
    <3>4. s[k] <= s[q]
      BY <1>1, <2>6, <3>1, <3>3 DEF Fresh
    <3>5. s[q] \in Nat /\ s[k] \in Nat
      BY <2>4, <3>2, BoundsAssumption DEF Elements
    <3> QED
      BY <3>3, <3>4, <3>5
  <2>10. Reg!Leave(k)
    BY <1>1, <2>2, <2>7, <2>8, <2>9 DEF Reg!Leave
  <2>11. e \notin ran \cup dropped
    BY <1>1, <2>2, NotFreed
  <2>12. CASE UNCHANGED dropped
    <3>1. Out' = Out \cup {e}
      BY <1>1, <2>1, <2>11, <2>12 DEF Out
    <3>2. Reg!Take(k)
      BY <2>7, <2>10, <2>12, <3>1 DEF Reg!Take, Out
    <3> QED
      BY <1>1, <2>7, <3>2 DEF Reg!Next
  <2>13. CASE dropped' = dropped \cup {e}
    <3>1. Out' = Out
      BY <1>1, <2>1, <2>2, <2>13 DEF Out
    <3>2. Reg!Drop(k)
      BY <2>7, <2>10, <2>13, <3>1 DEF Reg!Drop, Out
    <3> QED
      BY <1>1, <2>7, <3>2 DEF Reg!Next
  <2> QED
    BY <2>1, <2>12, <2>13
<1> QED
  BY <1>2, <1>3, <1>4, <1>5

\* The function of an item is called once, after it left the line.
LEMMA CallIs ==
    ASSUME ListInv, NEW w \in Workers, Call(w)
    PROVE  Reg!Next
<1> DEFINE e == arg[w].elem
<1>1. /\ ~broken /\ pc[w] = "call" /\ ran' = ran \cup {e}
      /\ UNCHANGED <<list, freed, refused, nick, dropped, broken, overlapped, closing>>
  BY DEF Call, Return, Goto
<1>2. e \in Out
  <2>1. Accounts
    BY <1>1 DEF ListInv
  <2>2. e \in Calling
    BY <1>1 DEF Calling, At
  <2> QED
    BY <1>1, <2>1, <2>2 DEF Accounts, Out
<1>3. Out' = Out \ {e} /\ Waiting' = Waiting
  BY <1>1 DEF Out, Waiting
<1>4. Reg!Call(e)
  BY <1>1, <1>2, <1>3 DEF Reg!Call, Out
<1> QED
  BY <1>1, <1>2, <1>4 DEF Reg!Next, Out

\* AppMain destroys the list when no thread has an item in its hands.
LEMMA CloseIs ==
    ASSUME ListInv, Close
    PROVE  Reg!Next
<1>1. /\ ~broken /\ closing' = TRUE
      /\ \A w \in Workers : pc[w] = "idle"
      /\ UNCHANGED <<list, freed, refused, nick, ran, dropped, broken, overlapped>>
  BY DEF Close, outcome
<1>2. Accounts
  BY <1>1 DEF ListInv
<1>3. Created = {} /\ Calling = {}
  BY <1>1 DEF Created, Calling, At
<1>4. Reg!Arriving = {} /\ Out = {}
  <2>1. Reg!Arriving = {}
    BY <1>1, <1>2, <1>3, StateIs DEF Accounts
  <2>2. Out = {}
    BY <1>2, <1>3 DEF Accounts, Out
  <2> QED
    BY <2>1, <2>2
<1>5. Waiting' = Waiting /\ Out' = Out
  BY <1>1 DEF Waiting, Out
<1>6. Reg!End
  BY <1>1, <1>4, <1>5 DEF Reg!End, Out
<1> QED
  BY <1>1, <1>6 DEF Reg!Next

\* destroyCallbackDList drops the last item.
LEMMA DestroyIs ==
    ASSUME ListInv, ListInv', DestroyTail
    PROVE  Reg!Next
<1> DEFINE e == list.tail
<1>1. /\ ~broken /\ closing /\ list.size > 0
      /\ UNCHANGED <<refused, nick, ran, overlapped, closing>>
  BY DEF DestroyTail
<1>2. e \in Linked /\ freed' = freed \cup {e} /\ dropped' = dropped \cup {e}
  BY DestroyStep
<1>3. e \notin freed /\ Linked \subseteq Elements
  BY <1>1, <1>2, NotFreed, Ends
<1>4. UNCHANGED broken /\ list' = remove(list, e)
  <2>1. broken \in BOOLEAN /\ e # Null
    BY <1>2, <1>3 DEF ListInv, TypeOK, Elements, Null
  <2> QED
    BY <1>1, <1>3, <2>1 DEF DestroyTail
<1>5. PICK s : Order(list, s) /\ Waiting = s
  BY <1>1, StateIs
<1>6. s \in Seq(Elements) /\ Len(s) = list.size /\ list.size \in Nat \ {0} /\ list.size \in 1..list.size
  BY <1>1, <1>5, LineIs
<1>7. e = s[list.size]
  BY <1>5, <1>6 DEF Order, Nth
<1>8. Waiting' = Reg!Front(Waiting) /\ Reg!Last(Waiting) = e
  <2>1. Waiting' = LineOf(list')
    BY DEF Waiting, LineOf
  <2>2. LineOf(remove(list, s[list.size])) = Reg!RemoveAt(s, list.size)
    BY <1>5, <1>6, LineRemove
  <2>3. Reg!Front(s) = Reg!RemoveAt(s, list.size) /\ Reg!Last(s) = s[list.size]
    BY <1>6, FrontIs
  <2> QED
    BY <1>4, <1>5, <1>7, <2>1, <2>2, <2>3
<1>9. Waiting # <<>>
  <2>1. Len(Waiting) # 0
    BY <1>5, <1>6
  <2> QED
    BY <2>1, EmptySeq
<1>10. Out' = Out
  BY <1>1, <1>2, <1>3 DEF Out
<1>11. Reg!Discard
  BY <1>1, <1>2, <1>4, <1>8, <1>9, <1>10 DEF Reg!Discard, Out
<1> QED
  BY <1>1, <1>11 DEF Reg!Next

\* The other steps of the threads and the server move no item.
LEMMA OthersAre ==
    ASSUME ListInv, ListInv',
           \/ \E w \in Workers : Whois(w) \/ Search(w) \/ Handle(w)
           \/ ServerAnswers \/ (\E n \in Nicks : NoSuchNick(n)) \/ UNCHANGED vars
    PROVE  [Reg!Next]_Reg!vars
<1>1. broken \in BOOLEAN /\ broken' \in BOOLEAN /\ overlapped \in BOOLEAN /\ overlapped' \in BOOLEAN
  BY DEF ListInv, TypeOK
<1>2. ASSUME NEW w \in Workers, Whois(w) \/ Search(w)
      PROVE  [Reg!Next]_Reg!vars
  <2>1. /\ UNCHANGED <<list, freed, refused, nick, ran, dropped, overlapped, closing>>
        /\ ~broken
    <3>1. CASE Whois(w)
      BY <3>1 DEF Whois, Goto, outcome
    <3>2. CASE Search(w)
      BY <3>2, Zenon DEF Search, Return, Goto, outcome
    <3> QED
      BY <1>2, <3>1, <3>2
  <2>2. CASE broken'
    BY <2>1, <2>2, Undefines
  <2>3. CASE ~broken'
    <3>1. UNCHANGED broken
      BY <1>1, <2>1, <2>3
    <3> QED
      BY <2>1, <3>1, Stutters
  <2> QED
    BY <2>2, <2>3
<1>3. ASSUME NEW w \in Workers, Handle(w)
      PROVE  [Reg!Next]_Reg!vars
  <2>1. /\ UNCHANGED <<list, freed, refused, nick, ran, dropped, broken, closing>>
        /\ ~broken /\ (overlapped => overlapped')
    BY <1>3 DEF Handle, Start, Goto, outcome
  <2>2. CASE overlapped' = overlapped
    BY <2>1, <2>2, Stutters
  <2>3. CASE overlapped'
    <3>1. Waiting' = Waiting /\ Out' = Out
      BY <2>1 DEF Waiting, Out
    <3>2. Reg!Overlap
      BY <2>1, <2>3, <3>1 DEF Reg!Overlap, Out
    <3> QED
      BY <2>1, <3>2 DEF Reg!Next
  <2> QED
    BY <1>1, <2>1, <2>2, <2>3
<1>4. CASE ServerAnswers \/ (\E n \in Nicks : NoSuchNick(n)) \/ UNCHANGED vars
  <2>1. UNCHANGED <<list, freed, refused, nick, ran, dropped, broken, overlapped, closing>>
    <3>1. CASE ServerAnswers
      BY <3>1 DEF ServerAnswers, Answer, outcome
    <3>2. CASE \E n \in Nicks : NoSuchNick(n)
      BY <3>2 DEF NoSuchNick, outcome
    <3>3. CASE UNCHANGED vars
      BY <3>3 DEF vars, outcome
    <3> QED
      BY <1>4, <3>1, <3>2, <3>3
  <2> QED
    BY <2>1, Stutters
<1> QED
  BY <1>2, <1>3, <1>4

LEMMA StepIs ==
    ASSUME ListInv, ListInv', [Next]_vars
    PROVE  [Reg!Next]_Reg!vars
<1>1. ASSUME NEW w \in Workers, Handler(w) \/ \E n \in Nicks : Register(w, n)
      PROVE  [Reg!Next]_Reg!vars
  <2>1. CASE Whois(w) \/ Search(w) \/ Handle(w)
    BY <2>1, OthersAre
  <2>2. CASE InsertNext(w)
    BY <2>2, InsertIs
  <2>3. CASE Remove(w)
    BY <2>3, RemoveIs
  <2>4. CASE Call(w)
    BY <2>4, CallIs
  <2>5. CASE \E n \in Nicks : Register(w, n)
    BY <2>5, RegisterIs
  <2> QED
    BY <1>1, <2>1, <2>2, <2>3, <2>4, <2>5 DEF Handler
<1>2. CASE ServerAnswers \/ (\E n \in Nicks : NoSuchNick(n)) \/ UNCHANGED vars
  BY <1>2, OthersAre
<1>3. CASE Close
  BY <1>3, CloseIs
<1>4. CASE DestroyTail
  BY <1>4, DestroyIs
<1> QED
  BY <1>1, <1>2, <1>3, <1>4 DEF Next

-----------------------------------------------------------------------------
(* The refinement. *)

\* For any number of execution threads, nicknames and items, the callback list
\* with its links, its lock and the pointers its users read without it implements
\* the line of Registry.tla.
THEOREM ImplementsRegistry == Spec => Registered
<1>1. Init => Reg!Init
  <2> SUFFICES ASSUME Init PROVE Reg!Init
    OBVIOUS
  <2>1. list.size = 0
    BY DEF Init, init_CallbackDList
  <2>2. Waiting = <<>>
    BY <2>1 DEF Waiting
  <2> QED
    BY <2>2 DEF Init, Reg!Init
<1>2. ListInv /\ ListInv' /\ [Next]_vars => [Reg!Next]_Reg!vars
  BY StepIs
<1> QED
  BY <1>1, <1>2, InvAlways, PTL DEF Spec, Registered, Reg!Spec
=============================================================================
