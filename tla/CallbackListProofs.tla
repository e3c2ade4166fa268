------------------------- MODULE CallbackListProofs -------------------------
(***************************************************************************)
(* Proofs of the safety properties of CallbackList, for any finite set of  *)
(* threads and any number of nicknames, items and answers.                 *)
(***************************************************************************)
EXTENDS CallbackList, FiniteSetTheorems, WellFoundedInduction, TLAPS

\* The i-th element of the order s, or none.
Nth(L, s, i) == IF i \in 1..L.size THEN s[i] ELSE Null

\* The links of L are those of a list of the elements s[1], s[2], ... .
Order(L, s) ==
    /\ L \in Lists
    /\ s \in [1..L.size -> Elements]
    /\ \A i, j \in 1..L.size : s[i] = s[j] => i = j
    /\ L.head = Nth(L, s, 1)
    /\ L.tail = Nth(L, s, L.size)
    /\ \A i \in 1..L.size : /\ L.next[s[i]] = Nth(L, s, i + 1)
                            /\ L.prev[s[i]] = Nth(L, s, i - 1)
    /\ \A p \in Pointers : (\A i \in 1..L.size : s[i] # p) => L.next[p] = Null /\ L.prev[p] = Null

LinkedIn(L) == {Way(L.next, L.head)[i] : i \in 0..MaxItems} \ {Null}

\* Elements that are inserted one after another are in the order of their items.
Increasing(L, s) == \A i, j \in 1..L.size : i < j => s[i] < s[j]

Shape == \E s \in [1..list.size -> Elements] :
            Order(list, s) /\ (~overlapped => Increasing(list, s))

\* Where the items are: each one in one place only.
Created == {arg[w].item : w \in At({"insert"})}
Calling == {arg[w].elem : w \in At({"call"})}

Accounts ==
    /\ Linked \cup refused \cup freed \subseteq 1..Len(nick)
    /\ Linked \cap refused = {} /\ Linked \cap freed = {} /\ refused \cap freed = {}
    /\ freed = Calling \cup ran \cup dropped
    /\ ran \cap dropped = {}
    /\ 1..Len(nick) = Created \cup Linked \cup refused \cup freed
    /\ \A w \in Workers :
         /\ pc[w] \in {"insert", "whois"} => arg[w].item \in 1..Len(nick)
         /\ pc[w] = "insert" => arg[w].item \notin Linked \cup refused \cup freed
         /\ pc[w] = "call" => arg[w].elem \notin ran \cup dropped
    /\ \A w, v \in Workers : w # v =>
         /\ pc[w] = "insert" /\ pc[v] = "insert" => arg[w].item # arg[v].item
         /\ pc[w] = "call" /\ pc[v] = "call" => arg[w].elem # arg[v].elem

\* The pointer a thread holds: to an element of the list, or to one that was.
Holds(w) ==
    /\ pc[w] = "insert" => arg[w].elem \in {Null} \cup Linked \cup freed
    /\ pc[w] = "search" => arg[w].elem \in {Null, list.head} \cup freed
    /\ pc[w] = "remove" => /\ arg[w].elem \in Linked \cup freed
                           /\ nick[arg[w].elem] = arg[w].answer[1].nick
    /\ pc[w] \in {"search", "remove", "call"} => arg[w].answer # <<>>

\* A handler of an answer that may still find something.
Counts(w, n) == /\ pc[w] = "remove" \/ (pc[w] = "search" /\ arg[w].elem # Null)
                /\ arg[w].answer[1].nick = n

Pending(n) == {e \in Linked : nick[e] = n}
AskedFor(n) == {i \in DOMAIN asked : asked[i] = n}
AnswersFor(n) == {i \in DOMAIN answers : answers[i].nick = n}
Asking(n) == {w \in At({"whois"}) : nick[arg[w].item] = n}
Working(n) == {w \in Workers : Counts(w, n)}

Covered(n) == Cardinality(Pending(n)) <= Cardinality(AskedFor(n)) + Cardinality(AnswersFor(n))
                                         + Cardinality(Asking(n)) + Cardinality(Working(n))

\* A thread on its own: what it has read is still so.
Fresh(w) ==
    /\ pc[w] = "insert" => arg[w].elem = list.tail /\ arg[w].item = Len(nick)
    /\ pc[w] = "whois" => arg[w].item \in Linked \cup refused
    /\ pc[w] = "search" => arg[w].elem = list.head
    /\ pc[w] = "remove" => /\ arg[w].elem \in Linked
                           /\ \A d \in Linked : nick[d] = nick[arg[w].elem] => arg[w].elem <= d

Alone == /\ \A w, v \in Workers : w # v => pc[w] = "idle" \/ pc[v] = "idle"
         /\ \A w \in Workers : Fresh(w)

Resting == closing => \A w \in Workers : pc[w] = "idle"

ListInv == /\ TypeOK /\ Shape /\ Resting /\ OneThreadIsSafe
           /\ ~broken => /\ Accounts
                         /\ \A w \in Workers : Holds(w)
                         /\ ~closing => \A n \in Nicks : Covered(n)
                         /\ ~overlapped => Alone
-----------------------------------------------------------------------------
(* The links. *)

\* A set of places that is not empty has a first one.
LEMMA FirstPlace ==
    ASSUME NEW n \in Nat, NEW S \in SUBSET (0..n), S # {}
    PROVE  Min(S) \in S /\ \A j \in S : Min(S) <= j
<1>1. PICK i \in S : \A j \in S : i <= j
  <2> DEFINE UpTo(k) == S \cap 0..k
             T == {UpTo(k) : k \in S}
             R == StrictSubsetOrdering(0..n)
  <2>1. T \subseteq FiniteSubsetsOf(0..n) /\ T # {}
    <3>1. FiniteSubsetsOf(0..n) = SUBSET (0..n)
      <4>1. IsFiniteSet(0..n)
        BY FS_Interval
      <4> QED
        BY <4>1, FS_FiniteSubsetsOfFinite, Zenon
    <3>2. \A k \in S : UpTo(k) \in SUBSET (0..n)
      OBVIOUS
    <3> HIDE DEF UpTo
    <3>3. T \subseteq SUBSET (0..n) /\ T # {}
      BY <3>2, Zenon
    <3> QED
      BY <3>1, <3>3, Zenon
  <2>2. IsWellFoundedOn(R, FiniteSubsetsOf(0..n))
    BY FS_StrictSubsetOrderingWellFounded
  <2> HIDE DEF T, R
  <2>3. PICK x \in T : \A y \in T : ~(<<y, x>> \in R)
    BY <2>1, <2>2, WFMin
  <2>4. PICK i \in S : x = UpTo(i)
    BY <2>3 DEF T
  <2>5. ASSUME NEW j \in S, j < i PROVE FALSE
    <3>1. UpTo(j) \subseteq x /\ i \in x /\ i \notin UpTo(j)
      BY <2>4, <2>5
    <3>2. <<UpTo(j), x>> \in R
      BY <2>4, <3>1 DEF R, StrictSubsetOrdering
    <3> QED
      BY <2>3, <3>2 DEF T
  <2> QED
    BY <2>5
<1> QED
  BY <1>1 DEF Min

\* A way is the only one that follows the links.
LEMMA WayIs ==
    ASSUME NEW link \in [Pointers -> Pointers], NEW p \in Pointers,
           NEW g \in [0..MaxItems -> Pointers],
           g[0] = p, \A i \in 1..MaxItems : g[i] = link[g[i - 1]]
    PROVE  Way(link, p) = g
<1> DEFINE Follows(way) == way = [i \in 0..MaxItems |-> IF i = 0 THEN p ELSE link[way[i - 1]]]
           way == CHOOSE w : Follows(w)
<1>1. Way(link, p) = way
  BY DEF Way
<1>2. Follows(g)
  BY BoundsAssumption
<1>3. Follows(way)
  <2> HIDE DEF Follows
  <2> QED
    BY <1>2
<1> HIDE DEF way
<1>4. ASSUME way # g PROVE FALSE
  <2> DEFINE S == {i \in 0..MaxItems : way[i] # g[i]}
  <2>1. S # {} /\ S \in SUBSET (0..MaxItems)
    BY <1>3, <1>4
  <2>2. PICK m \in S : \A j \in S : m <= j
    BY <2>1, FirstPlace, BoundsAssumption
  <2>3. m # 0
    BY <1>3, BoundsAssumption
  <2>4. m \in 1..MaxItems /\ m - 1 \in 0..MaxItems /\ m - 1 \notin S
    BY <2>2, <2>3, BoundsAssumption
  <2>5. way[m - 1] = g[m - 1]
    BY <2>4
  <2>6. way[m] = link[way[m - 1]]
    BY <1>3, <2>4
  <2> QED
    BY <2>2, <2>4, <2>5, <2>6
<1> QED
  BY <1>1, <1>4

\* The way from an element leads to the last one, and on to Null.
LEMMA WayAhead ==
    ASSUME NEW L, NEW s, Order(L, s), NEW k \in 1..(L.size + 1)
    PROVE  Way(L.next, Nth(L, s, k)) = [i \in 0..MaxItems |-> Nth(L, s, k + i)]
<1> DEFINE g == [i \in 0..MaxItems |-> Nth(L, s, k + i)]
<1>1. L.size \in 0..MaxItems /\ L.next \in [Pointers -> Pointers]
  BY DEF Order, Lists
<1>2. \A i \in Nat : Nth(L, s, i) \in Pointers
  BY DEF Order, Nth, Pointers
<1>3. g \in [0..MaxItems -> Pointers] /\ g[0] = Nth(L, s, k) /\ Nth(L, s, k) \in Pointers
  BY <1>1, <1>2, BoundsAssumption
<1>4. ASSUME NEW i \in 1..MaxItems PROVE g[i] = L.next[g[i - 1]]
  <2>1. g[i] = Nth(L, s, k + i) /\ g[i - 1] = Nth(L, s, k + (i - 1))
    BY BoundsAssumption
  <2>2. CASE k + (i - 1) \in 1..L.size
    <3>1. g[i - 1] = s[k + (i - 1)] /\ (k + (i - 1)) + 1 = k + i
      BY <2>1, <2>2, <1>1 DEF Nth
    <3> QED
      BY <2>1, <2>2, <3>1 DEF Order
  <2>3. CASE k + (i - 1) \notin 1..L.size
    <3>1. g[i - 1] = Null /\ g[i] = Null
      BY <1>1, <2>1, <2>3 DEF Nth
    <3>2. L.next[Null] = Null
      BY DEF Order, Pointers, Elements, Null
    <3> QED
      BY <3>1, <3>2
  <2> QED
    BY <2>2, <2>3
<1> HIDE DEF g
<1> QED
  BY <1>1, <1>3, <1>4, WayIs DEF g

\* Backwards it is the same.
LEMMA WayBack ==
    ASSUME NEW L, NEW s, Order(L, s)
    PROVE  Way(L.prev, L.tail) = [i \in 0..MaxItems |-> Nth(L, s, L.size - i)]
<1> DEFINE g == [i \in 0..MaxItems |-> Nth(L, s, L.size - i)]
<1>1. L.size \in 0..MaxItems /\ L.prev \in [Pointers -> Pointers] /\ L.tail = Nth(L, s, L.size)
  BY DEF Order, Lists
<1>2. \A i \in Int : Nth(L, s, i) \in Pointers
  BY DEF Order, Nth, Pointers
<1>3. g \in [0..MaxItems -> Pointers] /\ g[0] = L.tail /\ L.tail \in Pointers
  BY <1>1, <1>2, BoundsAssumption
<1>4. ASSUME NEW i \in 1..MaxItems PROVE g[i] = L.prev[g[i - 1]]
  <2>1. g[i] = Nth(L, s, L.size - i) /\ g[i - 1] = Nth(L, s, L.size - (i - 1))
    BY BoundsAssumption
  <2>2. CASE L.size - (i - 1) \in 1..L.size
    <3>1. g[i - 1] = s[L.size - (i - 1)] /\ (L.size - (i - 1)) - 1 = L.size - i
      BY <2>1, <2>2, <1>1 DEF Nth
    <3> QED
      BY <2>1, <2>2, <3>1 DEF Order
  <2>3. CASE L.size - (i - 1) \notin 1..L.size
    <3>1. g[i - 1] = Null /\ g[i] = Null
      BY <1>1, <2>1, <2>3 DEF Nth
    <3>2. L.prev[Null] = Null
      BY DEF Order, Pointers, Elements, Null
    <3> QED
      BY <3>1, <3>2
  <2> QED
    BY <2>2, <2>3
<1> HIDE DEF g
<1> QED
  BY <1>1, <1>3, <1>4, WayIs DEF g

\* So the elements that are reached are those of the order.
LEMMA LinkedIsOrder ==
    ASSUME NEW L, NEW s, Order(L, s)
    PROVE  /\ LinkedIn(L) = {s[i] : i \in 1..L.size}
           /\ LinkedIn(L) \subseteq Elements
           /\ L.size = 0 <=> LinkedIn(L) = {}
<1>1. L.size \in 0..MaxItems /\ L.head = Nth(L, s, 1) /\ 1 \in 1..(L.size + 1)
      /\ s \in [1..L.size -> Elements]
  BY DEF Order, Lists
<1>2. Way(L.next, L.head) = [i \in 0..MaxItems |-> Nth(L, s, 1 + i)]
  BY <1>1, WayAhead
<1>3. \A i \in 1..L.size : s[i] # Null
  BY <1>1 DEF Elements, Null
<1>4. LinkedIn(L) \subseteq {s[i] : i \in 1..L.size}
  BY <1>1, <1>2 DEF LinkedIn, Nth
<1>5. ASSUME NEW i \in 1..L.size PROVE s[i] \in LinkedIn(L)
  <2>1. i - 1 \in 0..MaxItems /\ 1 + (i - 1) = i
    BY <1>1, BoundsAssumption
  <2>2. Way(L.next, L.head)[i - 1] = s[i]
    BY <1>2, <2>1 DEF Nth
  <2> QED
    BY <1>3, <2>1, <2>2 DEF LinkedIn
<1> QED
  BY <1>1, <1>4, <1>5

\* What is behind an element stays behind the one inserted there.
Inserted(L, s, k, new) ==
    [i \in 1..(L.size + 1) |-> IF i <= k THEN s[i] ELSE IF i = k + 1 THEN new ELSE s[i - 1]]

\* An order has no more elements than there are.
LEMMA OrderFits ==
    ASSUME NEW n \in Nat, NEW s \in [1..n -> Elements],
           \A i, j \in 1..n : s[i] = s[j] => i = j
    PROVE  n <= MaxItems /\ Cardinality({s[i] : i \in 1..n}) = n
<1> DEFINE S == {s[i] : i \in 1..n}
<1>1. IsFiniteSet(Elements) /\ Cardinality(Elements) = MaxItems
  BY FS_Interval, BoundsAssumption DEF Elements
<1>2. IsFiniteSet(1..n) /\ Cardinality(1..n) = n
  BY FS_Interval
<1>3. s \in Bijection(1..n, S)
  BY DEF Bijection, Injection, Surjection, IsInjective
<1>4. IsFiniteSet(S) /\ Cardinality(S) = n
  BY <1>2, <1>3, FS_Bijection, Zenon DEF ExistsBijection
<1>5. S \subseteq Elements
  OBVIOUS
<1>6. Cardinality(S) <= Cardinality(Elements)
  BY <1>1, <1>5, FS_Subset
<1> QED
  BY <1>1, <1>4, <1>6

LEMMA InsertFirst ==
    ASSUME NEW L, NEW s, Order(L, s), L.size = 0, NEW e, NEW new \in Elements
    PROVE  Order(insert_next(L, e, new), [i \in 1..1 |-> new])
<1> DEFINE M == insert_next(L, e, new)
           t == [i \in 1..1 |-> new]
<1>1. L \in Lists /\ MaxItems \in Nat /\ new \in Pointers /\ new \in 1..MaxItems
  BY BoundsAssumption DEF Order, Elements, Pointers
<1>2. M = [L EXCEPT !.size = 1, !.head = new, !.tail = new]
  BY DEF insert_next
<1>3. /\ M.size = 1 /\ M.head = new /\ M.tail = new /\ M.next = L.next /\ M.prev = L.prev
      /\ M \in Lists
  <2>1. 1 \in 0..MaxItems
    BY <1>1
  <2>2. L.size \in 0..MaxItems /\ L.next \in [Pointers -> Pointers] /\ L.prev \in [Pointers -> Pointers]
        /\ L = [size |-> L.size, head |-> L.head, tail |-> L.tail, next |-> L.next, prev |-> L.prev]
    BY <1>1 DEF Lists
  <2>3. M = [size |-> 1, head |-> new, tail |-> new, next |-> L.next, prev |-> L.prev]
    BY <1>2, <2>2
  <2> QED
    BY <1>1, <2>1, <2>2, <2>3 DEF Lists
<1>4. \A p \in Pointers : L.next[p] = Null /\ L.prev[p] = Null
  BY DEF Order
<1> HIDE DEF M
<1>5. t \in [1..M.size -> Elements] /\ \A i \in 1..M.size : i = 1 /\ t[i] = new
  BY <1>3
<1>6. Nth(M, t, 1) = new /\ Nth(M, t, 0) = Null /\ Nth(M, t, 2) = Null
  BY <1>3, <1>5 DEF Nth
<1>7. M.head = Nth(M, t, 1) /\ M.tail = Nth(M, t, M.size)
  BY <1>3, <1>6
<1>8. \A i \in 1..M.size : /\ M.next[t[i]] = Nth(M, t, i + 1)
                           /\ M.prev[t[i]] = Nth(M, t, i - 1)
  BY <1>1, <1>3, <1>4, <1>5, <1>6
<1> HIDE DEF t
<1>9. Order(M, t)
  BY <1>3, <1>4, <1>5, <1>7, <1>8 DEF Order
<1> QED
  BY <1>9 DEF M, t

LEMMA InsertBehind ==
    ASSUME NEW L, NEW s, Order(L, s), NEW k \in 1..L.size,
           NEW new \in Elements, \A i \in 1..L.size : s[i] # new
    PROVE  Order(insert_next(L, s[k], new), Inserted(L, s, k, new))
<1> DEFINE M == insert_next(L, s[k], new)
           t == Inserted(L, s, k, new)
           n == L.size
           after == Nth(L, s, k + 1)
<1>1. /\ L \in Lists /\ MaxItems \in Nat /\ n \in 0..MaxItems /\ n # 0 /\ k \in 1..n
      /\ s \in [1..n -> Elements] /\ new \in Pointers /\ new # Null
      /\ Elements \subseteq Pointers /\ Null \notin Elements
      /\ L.next \in [Pointers -> Pointers] /\ L.prev \in [Pointers -> Pointers]
  BY BoundsAssumption DEF Order, Lists, Elements, Pointers, Null
<1>2. L.next[s[k]] = after
  BY DEF Order
<1>3. t \in [1..(n + 1) -> Elements] /\ \A i, j \in 1..(n + 1) : t[i] = t[j] => i = j
  <2>1. \A i, j \in 1..n : s[i] = s[j] => i = j
    BY DEF Order
  <2>2. \A i \in 1..(n + 1) : (i \in 1..k /\ i \in 1..n /\ t[i] = s[i])
          \/ (i = k + 1 /\ t[i] = new)
          \/ (i - 1 \in (k + 1)..n /\ i - 1 \in 1..n /\ t[i] = s[i - 1])
    <3> SUFFICES ASSUME NEW i \in 1..(n + 1)
                 PROVE  (i \in 1..k /\ i \in 1..n /\ t[i] = s[i])
                        \/ (i = k + 1 /\ t[i] = new)
                        \/ (i - 1 \in (k + 1)..n /\ i - 1 \in 1..n /\ t[i] = s[i - 1])
      OBVIOUS
    <3>1. t[i] = IF i <= k THEN s[i] ELSE IF i = k + 1 THEN new ELSE s[i - 1]
      BY DEF Inserted
    <3>2. i <= k => i \in 1..k /\ i \in 1..n
      BY <1>1
    <3>3. ~(i <= k) /\ i # k + 1 => i - 1 \in (k + 1)..n /\ i - 1 \in 1..n
      BY <1>1
    <3> QED
      BY <3>1, <3>2, <3>3
  <2>3. t \in [1..(n + 1) -> Elements]
    <3>1. t = [i \in 1..(n + 1) |-> t[i]]
      BY DEF Inserted
    <3>2. \A i \in 1..(n + 1) : t[i] \in Elements
      BY <1>1, <2>2
    <3> HIDE DEF t
    <3> QED
      BY <3>1, <3>2
  <2>4. ASSUME NEW i \in 1..(n + 1), NEW j \in 1..(n + 1), t[i] = t[j]
        PROVE  i = j
    <3> HIDE DEF t
    <3>1. t[i] = new => i = k + 1
      BY <1>1, <2>2
    <3>2. t[j] = new => j = k + 1
      BY <1>1, <2>2
    <3>3. CASE t[i] = new
      BY <2>4, <3>1, <3>2, <3>3
    <3>4. CASE t[i] # new
      <4>1. (i \in 1..k /\ i \in 1..n /\ t[i] = s[i])
            \/ (i - 1 \in (k + 1)..n /\ i - 1 \in 1..n /\ t[i] = s[i - 1])
        BY <2>2, <3>4
      <4>2. (j \in 1..k /\ j \in 1..n /\ t[j] = s[j])
            \/ (j - 1 \in (k + 1)..n /\ j - 1 \in 1..n /\ t[j] = s[j - 1])
        BY <2>2, <2>4, <3>4
      <4>3. CASE i \in 1..k /\ i \in 1..n /\ t[i] = s[i]
        <5>1. j \in 1..k /\ j \in 1..n /\ t[j] = s[j] => i = j
          BY <2>1, <2>4, <4>3
        <5>2. ~(j - 1 \in (k + 1)..n /\ j - 1 \in 1..n /\ t[j] = s[j - 1])
          <6>1. j - 1 \in (k + 1)..n => i # j - 1
            BY <1>1, <4>3
          <6> QED
            BY <2>1, <2>4, <4>3, <6>1
        <5> QED
          BY <4>2, <5>1, <5>2
      <4>4. CASE i - 1 \in (k + 1)..n /\ i - 1 \in 1..n /\ t[i] = s[i - 1]
        <5>1. ~(j \in 1..k /\ j \in 1..n /\ t[j] = s[j])
          <6>1. j \in 1..k => j # i - 1
            BY <1>1, <4>4
          <6> QED
            BY <2>1, <2>4, <4>4, <6>1
        <5>2. i - 1 = j - 1
          BY <2>1, <2>4, <4>2, <4>4, <5>1
        <5> QED
          BY <5>2
      <4> QED
        BY <4>1, <4>3, <4>4
    <3> QED
      BY <3>3, <3>4
  <2> QED
    BY <2>3, <2>4
<1>4. n + 1 <= MaxItems
  <2> HIDE DEF t
  <2>1. n + 1 \in Nat
    BY <1>1
  <2> QED
    BY <1>3, <2>1, OrderFits
<1>5. /\ M.size = n + 1
      /\ M.head = L.head
      /\ M.tail = (IF after = Null THEN new ELSE L.tail)
      /\ M.next = [L.next EXCEPT ![new] = after, ![s[k]] = new]
      /\ M.prev = [p \in Pointers |-> IF p = new THEN s[k]
                                      ELSE IF p = after /\ p # Null THEN new ELSE L.prev[p]]
      /\ DOMAIN M = DOMAIN L
      /\ M = [size |-> M.size, head |-> M.head, tail |-> M.tail, next |-> M.next, prev |-> M.prev]
  BY <1>1, <1>2 DEF insert_next, Lists
<1>6. after \in Pointers
  BY <1>1 DEF Nth, Pointers
<1>7. M \in Lists
  <2>1. M.size \in 0..MaxItems
    BY <1>1, <1>4, <1>5
  <2>2. M.head \in Pointers /\ M.tail \in Pointers
    BY <1>1, <1>5 DEF Lists
  <2>3. M.next \in [Pointers -> Pointers] /\ M.prev \in [Pointers -> Pointers]
    BY <1>1, <1>5, <1>6
  <2> HIDE DEF M
  <2> QED
    BY <1>5, <2>1, <2>2, <2>3 DEF Lists
<1> HIDE DEF M
<1>8. \A i \in 1..(n + 1) : Nth(M, t, i) = t[i]
  BY <1>5 DEF Nth
<1>9. \A i \in 1..n : Nth(L, s, i) = s[i]
  BY DEF Nth
<1>10. Nth(M, t, 0) = Null /\ Nth(M, t, n + 2) = Null /\ Nth(L, s, 0) = Null /\ Nth(L, s, n + 1) = Null
  BY <1>1, <1>5 DEF Nth
<1>11. t[k + 1] = new /\ (\A i \in 1..k : t[i] = s[i]) /\ \A i \in (k + 1)..n : t[i + 1] = s[i]
  BY <1>1 DEF Inserted
<1> HIDE DEF t
<1>12. M.head = Nth(M, t, 1)
  <2>1. L.head = s[1] /\ 1 \in 1..k /\ 1 \in 1..(n + 1)
    BY <1>1, <1>9 DEF Order
  <2> QED
    BY <1>5, <1>8, <1>11, <2>1
<1>13. M.tail = Nth(M, t, n + 1)
  <2>1. n + 1 \in 1..(n + 1) /\ L.tail = Nth(L, s, n)
    BY <1>1 DEF Order
  <2>2. CASE k = n
    BY <1>1, <1>5, <1>8, <1>10, <1>11, <2>1, <2>2
  <2>3. CASE k # n
    <3>1. after = s[k + 1] /\ after # Null /\ n \in (k + 1)..n
      BY <1>1, <1>9, <2>3
    <3> QED
      BY <1>1, <1>5, <1>8, <1>9, <1>11, <2>1, <3>1
  <2> QED
    BY <2>2, <2>3
<1>14. ASSUME NEW i \in 1..n
       PROVE  /\ L.next[s[i]] = Nth(L, s, i + 1) /\ L.prev[s[i]] = Nth(L, s, i - 1)
              /\ s[i] # new /\ s[i] \in Pointers /\ s[i] # Null
  BY <1>1 DEF Order
<1>15. ASSUME NEW i \in 1..(n + 1)
       PROVE  M.next[t[i]] = Nth(M, t, i + 1)
  <2>1. CASE i < k
    <3>1. i \in 1..k /\ i + 1 \in 1..k /\ i \in 1..n /\ i + 1 \in 1..n /\ i + 1 \in 1..(n + 1)
      BY <1>1, <2>1
    <3>2. s[i] # s[k]
      BY <1>1, <2>1, <3>1 DEF Order
    <3> QED
      BY <1>1, <1>5, <1>8, <1>9, <1>11, <1>14, <3>1, <3>2
  <2>2. CASE i = k
    <3>1. i \in 1..k /\ i + 1 \in 1..(n + 1)
      BY <1>1, <2>2
    <3> QED
      BY <1>1, <1>5, <1>8, <1>11, <1>14, <2>2, <3>1
  <2>3. CASE i = k + 1
    <3>1. M.next[new] = after
      BY <1>1, <1>5, <1>14
    <3>2. CASE k = n
      BY <1>10, <1>11, <2>3, <3>1, <3>2
    <3>3. CASE k # n
      <4>1. k + 1 \in 1..n /\ k + 1 \in (k + 1)..n /\ k + 2 \in 1..(n + 1) /\ (k + 1) + 1 = k + 2
        BY <1>1, <3>3
      <4> QED
        BY <1>8, <1>9, <1>11, <2>3, <3>1, <4>1
    <3> QED
      BY <3>2, <3>3
  <2>4. CASE i > k + 1
    <3>1. i - 1 \in (k + 1)..n /\ i - 1 \in 1..n /\ (i - 1) + 1 = i
      BY <1>1, <2>4
    <3>2. t[i] = s[i - 1] /\ s[i - 1] # s[k]
      BY <1>1, <1>11, <2>4, <3>1 DEF Order
    <3>3. M.next[t[i]] = Nth(L, s, i)
      BY <1>1, <1>5, <1>14, <3>1, <3>2
    <3>4. CASE i = n + 1
      BY <1>1, <1>10, <3>3, <3>4
    <3>5. CASE i # n + 1
      <4>1. i \in 1..n /\ i \in (k + 1)..n /\ i + 1 \in 1..(n + 1)
        BY <1>1, <2>4, <3>5
      <4> QED
        BY <1>8, <1>9, <1>11, <3>3, <4>1
    <3> QED
      BY <3>4, <3>5
  <2> QED
    BY <1>1, <2>1, <2>2, <2>3, <2>4
<1>16. ASSUME NEW i \in 1..(n + 1)
       PROVE  M.prev[t[i]] = Nth(M, t, i - 1)
  <2>1. CASE i <= k
    <3>1. i \in 1..k /\ i \in 1..n
      BY <1>1, <2>1
    <3>2. s[i] # after
      <4>1. CASE k = n
        BY <1>10, <1>14, <3>1, <4>1
      <4>2. CASE k # n
        <5>1. k + 1 \in 1..n /\ after = s[k + 1] /\ i # k + 1
          BY <1>1, <1>9, <2>1, <4>2
        <5> QED
          BY <3>1, <5>1 DEF Order
      <4> QED
        BY <4>1, <4>2
    <3>3. M.prev[t[i]] = Nth(L, s, i - 1)
      BY <1>5, <1>11, <1>14, <3>1, <3>2
    <3>4. CASE i = 1
      BY <1>10, <3>3, <3>4
    <3>5. CASE i # 1
      <4>1. i - 1 \in 1..k /\ i - 1 \in 1..n /\ i - 1 \in 1..(n + 1)
        BY <1>1, <3>1, <3>5
      <4> QED
        BY <1>8, <1>9, <1>11, <3>3, <4>1
    <3> QED
      BY <3>4, <3>5
  <2>2. CASE i = k + 1
    <3>1. M.prev[new] = s[k] /\ k \in 1..k /\ k \in 1..(n + 1) /\ i - 1 = k
      BY <1>1, <1>5, <2>2
    <3> QED
      BY <1>8, <1>11, <2>2, <3>1
  <2>3. CASE i = k + 2
    <3>1. /\ k + 1 \in (k + 1)..n /\ k + 1 \in 1..n /\ i - 1 = k + 1 /\ (k + 1) + 1 = i
          /\ k + 1 \in 1..(n + 1)
      BY <1>1, <2>3
    <3>2. t[i] = s[k + 1] /\ after = s[k + 1]
      BY <1>9, <1>11, <3>1
    <3>3. M.prev[t[i]] = new
      BY <1>5, <1>14, <3>1, <3>2
    <3> QED
      BY <1>8, <1>11, <3>1, <3>3
  <2>4. CASE i > k + 2
    <3>1. /\ i - 1 \in (k + 1)..n /\ i - 1 \in 1..n /\ (i - 1) + 1 = i
          /\ i - 2 \in (k + 1)..n /\ i - 2 \in 1..n /\ (i - 2) + 1 = i - 1
          /\ i - 1 \in 1..(n + 1) /\ (i - 1) - 1 = i - 2 /\ i - 1 # k + 1
      BY <1>1, <2>4
    <3>2. t[i] = s[i - 1] /\ s[i - 1] # after
      <4>1. k + 1 \in 1..n /\ after = s[k + 1]
        BY <1>1, <1>9, <2>4
      <4> QED
        BY <1>11, <3>1, <4>1 DEF Order
    <3>3. M.prev[t[i]] = s[i - 2]
      BY <1>5, <1>9, <1>14, <3>1, <3>2
    <3> QED
      BY <1>8, <1>11, <3>1, <3>3
  <2> QED
    BY <1>1, <2>1, <2>2, <2>3, <2>4
<1>17. ASSUME NEW p \in Pointers, \A i \in 1..(n + 1) : t[i] # p
       PROVE  M.next[p] = Null /\ M.prev[p] = Null
  <2>1. p # new
    BY <1>1, <1>11, <1>17
  <2>2. \A i \in 1..n : s[i] # p
    <3> SUFFICES ASSUME NEW i \in 1..n PROVE s[i] # p
      OBVIOUS
    <3>1. i \in 1..k \/ (i \in (k + 1)..n /\ i + 1 \in 1..(n + 1))
      BY <1>1
    <3>2. i \in 1..(n + 1)
      BY <1>1
    <3> QED
      BY <1>11, <1>17, <3>1, <3>2
  <2>3. L.next[p] = Null /\ L.prev[p] = Null
    BY <2>2 DEF Order
  <2>4. p # s[k]
    BY <2>2
  <2>5. p = after => p = Null
    BY <1>1, <2>2 DEF Nth
  <2> QED
    BY <1>1, <1>5, <2>1, <2>3, <2>4, <2>5
<1>18. Order(M, t)
  BY <1>3, <1>5, <1>7, <1>12, <1>13, <1>15, <1>16, <1>17 DEF Order
<1> QED
  BY <1>18 DEF M, t

\* What is behind the element removed comes one place nearer.
Removed(L, s, k) == [i \in 1..(L.size - 1) |-> IF i < k THEN s[i] ELSE s[i + 1]]

LEMMA RemoveAny ==
    ASSUME NEW L, NEW s, Order(L, s), NEW k \in 1..L.size
    PROVE  Order(remove(L, s[k]), Removed(L, s, k))
<1> DEFINE M == remove(L, s[k])
           t == Removed(L, s, k)
           n == L.size
           e == s[k]
           after == Nth(L, s, k + 1)
           before == Nth(L, s, k - 1)
<1>1. /\ L \in Lists /\ MaxItems \in Nat /\ n \in 0..MaxItems /\ n # 0 /\ k \in 1..n
      /\ s \in [1..n -> Elements] /\ Elements \subseteq Pointers /\ Null \notin Elements
      /\ Null \in Pointers
      /\ L.next \in [Pointers -> Pointers] /\ L.prev \in [Pointers -> Pointers]
  BY BoundsAssumption DEF Order, Lists, Elements, Pointers, Null
<1>2. L.next[e] = after /\ L.prev[e] = before
  BY DEF Order
<1>3. after \in Pointers /\ before \in Pointers
  BY <1>1 DEF Nth
<1>4. \A i, j \in 1..n : s[i] = s[j] => i = j
  BY DEF Order
<1>5. \A i \in 1..(n - 1) : (i \in 1..(k - 1) /\ i \in 1..n /\ t[i] = s[i])
                            \/ (i + 1 \in (k + 1)..n /\ i + 1 \in 1..n /\ t[i] = s[i + 1])
  <2> SUFFICES ASSUME NEW i \in 1..(n - 1)
               PROVE  (i \in 1..(k - 1) /\ i \in 1..n /\ t[i] = s[i])
                      \/ (i + 1 \in (k + 1)..n /\ i + 1 \in 1..n /\ t[i] = s[i + 1])
    OBVIOUS
  <2>1. t[i] = IF i < k THEN s[i] ELSE s[i + 1]
    BY DEF Removed
  <2>2. i < k => i \in 1..(k - 1) /\ i \in 1..n
    BY <1>1
  <2>3. ~(i < k) => i + 1 \in (k + 1)..n /\ i + 1 \in 1..n
    BY <1>1
  <2> QED
    BY <2>1, <2>2, <2>3
<1>6. t \in [1..(n - 1) -> Elements]
  <2>1. t = [i \in 1..(n - 1) |-> t[i]]
    BY DEF Removed
  <2> HIDE DEF t
  <2>2. \A i \in 1..(n - 1) : t[i] \in Elements
    BY <1>1, <1>5
  <2> QED
    BY <2>1, <2>2
<1>7. (\A i \in 1..(k - 1) : i \in 1..(n - 1) /\ t[i] = s[i])
      /\ (\A i \in k..(n - 1) : i \in 1..(n - 1) /\ t[i] = s[i + 1])
  BY <1>1 DEF Removed
<1> HIDE DEF t
<1>8. ASSUME NEW i \in 1..(n - 1), NEW j \in 1..(n - 1), t[i] = t[j]
      PROVE  i = j
  <2>1. CASE i \in 1..(k - 1) /\ i \in 1..n /\ t[i] = s[i]
    <3>1. ~(j + 1 \in (k + 1)..n /\ j + 1 \in 1..n /\ t[j] = s[j + 1])
      <4>1. j + 1 \in (k + 1)..n => i # j + 1
        BY <1>1, <2>1
      <4> QED
        BY <1>4, <1>8, <2>1, <4>1
    <3> QED
      BY <1>4, <1>5, <1>8, <2>1, <3>1
  <2>2. CASE i + 1 \in (k + 1)..n /\ i + 1 \in 1..n /\ t[i] = s[i + 1]
    <3>1. ~(j \in 1..(k - 1) /\ j \in 1..n /\ t[j] = s[j])
      <4>1. j \in 1..(k - 1) => j # i + 1
        BY <1>1, <2>2
      <4> QED
        BY <1>4, <1>8, <2>2, <4>1
    <3>2. i + 1 = j + 1
      BY <1>4, <1>5, <1>8, <2>2, <3>1
    <3> QED
      BY <3>2
  <2> QED
    BY <1>5, <2>1, <2>2
<1>9. /\ M.size = n - 1
      /\ M.head = (IF e = L.head THEN after ELSE L.head)
      /\ M.tail = (IF e = L.tail THEN before ELSE L.tail)
      /\ M.next = [x \in Pointers |-> IF x \in {Null, e} THEN Null
                                      ELSE IF x = before THEN after ELSE L.next[x]]
      /\ M.prev = [x \in Pointers |-> IF x \in {Null, e} THEN Null
                                      ELSE IF x = after THEN before ELSE L.prev[x]]
      /\ M = [size |-> M.size, head |-> M.head, tail |-> M.tail, next |-> M.next, prev |-> M.prev]
  <2>1. L = [size |-> L.size, head |-> L.head, tail |-> L.tail, next |-> L.next, prev |-> L.prev]
    BY <1>1 DEF Lists
  <2>2. M = [L EXCEPT !.size = n - 1,
                      !.head = IF e = L.head THEN L.next[e] ELSE L.head,
                      !.tail = IF e = L.tail THEN L.prev[e] ELSE L.tail,
                      !.next = Relink(L.next, L.prev[e], L.next[e], e),
                      !.prev = Relink(L.prev, L.next[e], L.prev[e], e)]
    BY Zenon DEF remove
  <2> HIDE DEF M, e, after, before
  <2>3. M = [size |-> n - 1,
             head |-> IF e = L.head THEN after ELSE L.head,
             tail |-> IF e = L.tail THEN before ELSE L.tail,
             next |-> Relink(L.next, before, after, e),
             prev |-> Relink(L.prev, after, before, e)]
    BY <1>2, <2>1, <2>2
  <2> QED
    BY <2>3 DEF Relink
<1>10. M \in Lists
  <2>1. M.size \in 0..MaxItems
    BY <1>1, <1>9
  <2>2. M.head \in Pointers /\ M.tail \in Pointers
    BY <1>1, <1>3, <1>9 DEF Lists
  <2>3. M.next \in [Pointers -> Pointers] /\ M.prev \in [Pointers -> Pointers]
    BY <1>1, <1>3, <1>9
  <2> HIDE DEF M
  <2> QED
    BY <1>9, <2>1, <2>2, <2>3 DEF Lists
<1> HIDE DEF M
<1>11. (\A i \in 1..(n - 1) : Nth(M, t, i) = t[i]) /\ (\A i \in 1..n : Nth(L, s, i) = s[i])
  BY <1>9 DEF Nth
<1>12. Nth(M, t, 0) = Null /\ Nth(M, t, n) = Null /\ Nth(L, s, 0) = Null /\ Nth(L, s, n + 1) = Null
  BY <1>1, <1>9 DEF Nth
<1>13. \A i \in 1..n : /\ L.next[s[i]] = Nth(L, s, i + 1) /\ L.prev[s[i]] = Nth(L, s, i - 1)
                       /\ s[i] \in Pointers /\ s[i] # Null
  BY <1>1 DEF Order
<1>14. /\ k = n => after = Null
       /\ k # n => k + 1 \in 1..n /\ after = s[k + 1]
       /\ k = 1 => before = Null
       /\ k # 1 => k - 1 \in 1..n /\ before = s[k - 1]
  BY <1>1, <1>11, <1>12
<1>15. \A i \in 1..n : /\ i # k => s[i] # e
                       /\ i # k + 1 => s[i] # after
                       /\ i # k - 1 => s[i] # before
  BY <1>4, <1>13, <1>14
<1>16. M.head = Nth(M, t, 1)
  <2>1. L.head = s[1] /\ 1 \in 1..n
    BY <1>1, <1>11 DEF Order
  <2>2. CASE k = 1
    <3>1. CASE n = 1
      BY <1>9, <1>12, <1>14, <2>1, <2>2, <3>1
    <3>2. CASE n # 1
      <4>1. 1 \in k..(n - 1) /\ 1 \in 1..(n - 1) /\ k + 1 = 1 + 1 /\ k # n
        BY <1>1, <2>2, <3>2
      <4> QED
        BY <1>7, <1>9, <1>11, <1>14, <2>1, <2>2, <4>1
    <3> QED
      BY <3>1, <3>2
  <2>3. CASE k # 1
    <3>1. 1 \in 1..(k - 1) /\ 1 \in 1..(n - 1)
      BY <1>1, <2>3
    <3> QED
      BY <1>7, <1>9, <1>11, <1>15, <2>1, <2>3, <3>1
  <2> QED
    BY <2>2, <2>3
<1>17. M.tail = Nth(M, t, n - 1)
  <2>1. L.tail = s[n] /\ n \in 1..n
    BY <1>1, <1>11 DEF Order
  <2>2. CASE k = n
    <3>1. CASE n = 1
      BY <1>9, <1>12, <1>14, <2>1, <2>2, <3>1
    <3>2. CASE n # 1
      <4>1. n - 1 \in 1..(k - 1) /\ n - 1 \in 1..(n - 1) /\ k # 1
        BY <1>1, <2>2, <3>2
      <4> QED
        BY <1>7, <1>9, <1>11, <1>14, <2>1, <2>2, <4>1
    <3> QED
      BY <3>1, <3>2
  <2>3. CASE k # n
    <3>1. n - 1 \in k..(n - 1) /\ n - 1 \in 1..(n - 1) /\ (n - 1) + 1 = n
      BY <1>1, <2>3
    <3> QED
      BY <1>7, <1>9, <1>11, <1>15, <2>1, <2>3, <3>1
  <2> QED
    BY <2>2, <2>3
<1>18. ASSUME NEW i \in 1..(n - 1)
       PROVE  M.next[t[i]] = Nth(M, t, i + 1)
  <2>1. CASE i \in 1..(k - 1) /\ i # k - 1
    <3>1. i \in 1..n /\ i + 1 \in 1..n /\ i + 1 \in 1..(k - 1) /\ i + 1 \in 1..(n - 1) /\ i # k
      BY <1>1, <2>1
    <3>2. M.next[s[i]] = L.next[s[i]]
      BY <1>9, <1>13, <1>15, <2>1, <3>1
    <3> QED
      BY <1>7, <1>11, <1>13, <2>1, <3>1, <3>2
  <2>2. CASE i = k - 1
    <3>1. i \in 1..(k - 1) /\ i \in 1..n /\ k # 1 /\ i # k /\ i + 1 = k
      BY <1>1, <2>2
    <3>2. M.next[s[i]] = after
      BY <1>9, <1>13, <1>14, <1>15, <2>2, <3>1
    <3>3. CASE k = n
      BY <1>7, <1>12, <1>14, <3>1, <3>2, <3>3
    <3>4. CASE k # n
      <4>1. k \in k..(n - 1) /\ k \in 1..(n - 1)
        BY <1>1, <3>4
      <4> QED
        BY <1>7, <1>11, <1>14, <3>1, <3>2, <3>4, <4>1
    <3> QED
      BY <3>3, <3>4
  <2>3. CASE i \in k..(n - 1)
    <3>1. /\ t[i] = s[i + 1] /\ i + 1 \in 1..n /\ i + 1 # k /\ i + 1 # k - 1
          /\ (i + 1) + 1 = i + 2
      BY <1>1, <1>7, <2>3
    <3>2. M.next[s[i + 1]] = Nth(L, s, i + 2)
      BY <1>9, <1>13, <1>15, <3>1
    <3>3. CASE i = n - 1
      <4>1. i + 2 = n + 1 /\ i + 1 = n
        BY <1>1, <3>3
      <4> QED
        BY <1>12, <3>1, <3>2, <4>1
    <3>4. CASE i # n - 1
      <4>1. i + 1 \in k..(n - 1) /\ i + 1 \in 1..(n - 1) /\ i + 2 \in 1..n
        BY <1>1, <2>3, <3>4
      <4>2. t[i + 1] = s[(i + 1) + 1]
        BY <1>7, <4>1
      <4> QED
        BY <1>11, <3>1, <3>2, <4>1, <4>2
    <3> QED
      BY <3>3, <3>4
  <2> QED
    BY <1>1, <2>1, <2>2, <2>3
<1>19. ASSUME NEW i \in 1..(n - 1)
       PROVE  M.prev[t[i]] = Nth(M, t, i - 1)
  <2>1. CASE i \in 1..(k - 1)
    <3>1. i \in 1..n /\ i # k /\ i # k + 1 /\ t[i] = s[i]
      BY <1>1, <1>7, <2>1
    <3>2. M.prev[s[i]] = Nth(L, s, i - 1)
      BY <1>9, <1>13, <1>15, <3>1
    <3>3. CASE i = 1
      BY <1>12, <3>1, <3>2, <3>3
    <3>4. CASE i # 1
      <4>1. i - 1 \in 1..(k - 1) /\ i - 1 \in 1..(n - 1) /\ i - 1 \in 1..n
        BY <1>1, <2>1, <3>4
      <4> QED
        BY <1>7, <1>11, <3>1, <3>2, <4>1
    <3> QED
      BY <3>3, <3>4
  <2>2. CASE i = k
    <3>1. k # n /\ i \in k..(n - 1) /\ k + 1 \in 1..n /\ k + 1 # k
      BY <1>1, <2>2
    <3>2. t[i] = after /\ after = s[k + 1] /\ after # Null /\ after # e
      BY <1>7, <1>13, <1>14, <1>15, <2>2, <3>1
    <3>3. M.prev[t[i]] = before
      BY <1>3, <1>9, <3>2
    <3>4. CASE k = 1
      BY <1>12, <1>14, <2>2, <3>3, <3>4
    <3>5. CASE k # 1
      <4>1. k - 1 \in 1..(k - 1) /\ k - 1 \in 1..(n - 1)
        BY <1>1, <3>5, <3>1
      <4> QED
        BY <1>7, <1>11, <1>14, <2>2, <3>3, <3>5, <4>1
    <3> QED
      BY <3>4, <3>5
  <2>3. CASE i \in (k + 1)..(n - 1)
    <3>1. /\ i \in k..(n - 1) /\ i + 1 \in 1..n /\ i + 1 # k /\ i + 1 # k + 1
          /\ (i + 1) - 1 = i /\ i - 1 \in k..(n - 1) /\ i - 1 \in 1..(n - 1) /\ (i - 1) + 1 = i
          /\ i \in 1..n
      BY <1>1, <2>3
    <3>2. M.prev[s[i + 1]] = s[i]
      BY <1>9, <1>11, <1>13, <1>15, <3>1
    <3> QED
      BY <1>7, <1>11, <3>1, <3>2
  <2> QED
    BY <1>1, <2>1, <2>2, <2>3
<1>20. ASSUME NEW p \in Pointers, \A i \in 1..(n - 1) : t[i] # p
       PROVE  M.next[p] = Null /\ M.prev[p] = Null
  <2>1. CASE p \in {Null, e}
    BY <1>9, <2>1
  <2>2. CASE p \notin {Null, e}
    <3>1. ASSUME NEW i \in 1..n PROVE s[i] # p
      <4>1. CASE i = k
        BY <2>2, <4>1
      <4>2. CASE i \in 1..(k - 1)
        BY <1>7, <1>20, <4>2
      <4>3. CASE i \in (k + 1)..n
        <5>1. i - 1 \in k..(n - 1) /\ (i - 1) + 1 = i
          BY <1>1, <4>3
        <5> QED
          BY <1>7, <1>20, <5>1
      <4> QED
        BY <1>1, <4>1, <4>2, <4>3
    <3>2. L.next[p] = Null /\ L.prev[p] = Null
      BY <3>1 DEF Order
    <3>3. p # after /\ p # before
      BY <1>14, <2>2, <3>1
    <3> QED
      BY <1>9, <2>2, <3>2, <3>3
  <2> QED
    BY <2>1, <2>2
<1>21. Order(M, t)
  <2>1. \A i, j \in 1..(n - 1) : t[i] = t[j] => i = j
    BY <1>8
  <2> HIDE DEF n
  <2> QED
    BY <1>6, <1>9, <1>10, <1>16, <1>17, <1>18, <1>19, <1>20, <2>1 DEF Order
<1> QED
  BY <1>21 DEF M, t

\* The facts of an order that the later steps use.
LEMMA OrderFacts ==
    ASSUME NEW L, NEW s, Order(L, s)
    PROVE  /\ L \in Lists /\ L.size \in 0..MaxItems /\ L.size \in Nat
           /\ s \in [1..L.size -> Elements]
           /\ LinkedIn(L) = {s[i] : i \in 1..L.size}
           /\ LinkedIn(L) \subseteq Elements
           /\ L.size = 0 <=> LinkedIn(L) = {}
           /\ \A i, j \in 1..L.size : s[i] = s[j] => i = j
           /\ L.head = Nth(L, s, 1) /\ L.tail = Nth(L, s, L.size)
<1>1. /\ LinkedIn(L) = {s[i] : i \in 1..L.size} /\ LinkedIn(L) \subseteq Elements
      /\ (L.size = 0 <=> LinkedIn(L) = {})
  BY LinkedIsOrder, Zenon
<1>2. L.size \in 0..MaxItems /\ L.size \in Nat
  BY BoundsAssumption DEF Order, Lists
<1> QED
  BY <1>1, <1>2 DEF Order

\* An insertion adds its element, behind the head, and at the end if it is told to.
LEMMA InsertMoves ==
    ASSUME NEW L, NEW s, Order(L, s), NEW e, NEW new \in Elements, new \notin LinkedIn(L),
           L.size = 0 \/ e \in LinkedIn(L)
    PROVE  LET M == insert_next(L, e, new)
           IN  /\ M \in Lists
               /\ LinkedIn(M) = LinkedIn(L) \cup {new}
               /\ L.size # 0 => M.head = L.head
               /\ \E t \in [1..M.size -> Elements] :
                    /\ Order(M, t)
                    /\ Increasing(L, s) /\ (L.size = 0 \/ e = L.tail) /\ (\A d \in LinkedIn(L) : d < new)
                         => Increasing(M, t)
<1> DEFINE M == insert_next(L, e, new)
<1>1. /\ L.size \in Nat /\ s \in [1..L.size -> Elements]
      /\ LinkedIn(L) = {s[i] : i \in 1..L.size}
      /\ L.size = 0 <=> LinkedIn(L) = {}
      /\ \A i, j \in 1..L.size : s[i] = s[j] => i = j
  BY OrderFacts, Zenon
<1>2. CASE L.size = 0
  <2> DEFINE t == [i \in 1..1 |-> new]
  <2>1. Order(M, t)
    BY <1>2, InsertFirst
  <2>2. M.size = 1
    BY <1>2 DEF insert_next, Order, Lists
  <2> HIDE DEF M, t
  <2>3. M \in Lists /\ t \in [1..M.size -> Elements] /\ LinkedIn(M) = {t[i] : i \in 1..M.size}
    BY <2>1, OrderFacts
  <2>4. Increasing(M, t)
    BY <2>2 DEF Increasing, t
  <2>5. LinkedIn(M) = LinkedIn(L) \cup {new}
    BY <1>1, <1>2, <2>2, <2>3 DEF t
  <2>6. \E u \in [1..M.size -> Elements] :
                    /\ Order(M, u)
                    /\ Increasing(L, s) /\ (L.size = 0 \/ e = L.tail) /\ (\A d \in LinkedIn(L) : d < new)
                         => Increasing(M, u)
    BY <2>1, <2>3, <2>4
  <2> QED
    BY <1>2, <2>3, <2>5, <2>6 DEF M
<1>3. CASE L.size # 0
  <2>1. PICK k \in 1..L.size : e = s[k]
    BY <1>1, <1>3
  <2> DEFINE t == Inserted(L, s, k, new)
  <2>2. Order(M, t)
    BY <1>1, <2>1, InsertBehind
  <2>3. M.size = L.size + 1 /\ M.head = L.head
    BY <1>3 DEF insert_next, Order, Lists
  <2> HIDE DEF M, t
  <2>4. M \in Lists /\ t \in [1..M.size -> Elements] /\ LinkedIn(M) = {t[i] : i \in 1..M.size}
    BY <2>2, OrderFacts
  <2>5. /\ \A i \in 1..k : i \in 1..(L.size + 1) /\ t[i] = s[i]
        /\ t[k + 1] = new /\ k + 1 \in 1..(L.size + 1)
        /\ \A i \in (k + 1)..L.size : i + 1 \in 1..(L.size + 1) /\ t[i + 1] = s[i]
        /\ \A i \in 1..(L.size + 1) : \/ i \in 1..k
                                      \/ i = k + 1
                                      \/ i - 1 \in (k + 1)..L.size /\ (i - 1) + 1 = i
    <3>1. \A i \in 1..(L.size + 1) :
             t[i] = IF i <= k THEN s[i] ELSE IF i = k + 1 THEN new ELSE s[i - 1]
      BY DEF t, Inserted
    <3> QED
      BY <1>1, <3>1
  <2>6. LinkedIn(M) = LinkedIn(L) \cup {new}
    <3>1. LinkedIn(M) \subseteq LinkedIn(L) \cup {new}
      <4> SUFFICES ASSUME NEW i \in 1..(L.size + 1) PROVE t[i] \in LinkedIn(L) \cup {new}
        BY <2>3, <2>4
      <4>1. CASE i \in 1..k
        BY <1>1, <2>5, <4>1
      <4>2. CASE i = k + 1
        BY <2>5, <4>2
      <4>3. CASE i - 1 \in (k + 1)..L.size /\ (i - 1) + 1 = i
        <5>1. i - 1 \in 1..L.size /\ t[i] = s[i - 1]
          BY <1>1, <2>5, <4>3
        <5> QED
          BY <1>1, <5>1
      <4> QED
        BY <2>5, <4>1, <4>2, <4>3
    <3>2. new \in LinkedIn(M)
      BY <2>3, <2>4, <2>5
    <3>3. ASSUME NEW i \in 1..L.size PROVE s[i] \in LinkedIn(M)
      <4>1. i \in 1..k \/ i \in (k + 1)..L.size
        BY <1>1
      <4>2. CASE i \in 1..k
        BY <2>3, <2>4, <2>5, <4>2
      <4>3. CASE i \in (k + 1)..L.size
        BY <2>3, <2>4, <2>5, <4>3
      <4> QED
        BY <4>1, <4>2, <4>3
    <3> QED
      BY <1>1, <3>1, <3>2, <3>3
  <2>7. ASSUME Increasing(L, s), e = L.tail, \A d \in LinkedIn(L) : d < new
        PROVE  Increasing(M, t)
    <3>1. k = L.size
      <4>1. L.tail = s[L.size] /\ L.size \in 1..L.size
        BY <1>1, <1>3 DEF Order, Nth
      <4> QED
        BY <1>1, <2>1, <2>7, <4>1
    <3>2. \A i \in 1..(L.size + 1) : (i \in 1..k /\ t[i] = s[i]) \/ (i = k + 1 /\ t[i] = new)
      <4> SUFFICES ASSUME NEW i \in 1..(L.size + 1)
                   PROVE  (i \in 1..k /\ t[i] = s[i]) \/ (i = k + 1 /\ t[i] = new)
        OBVIOUS
      <4>1. i \in 1..k \/ i = k + 1
        BY <1>1, <3>1
      <4>2. CASE i \in 1..k
        BY <2>5, <4>2
      <4>3. CASE i = k + 1
        BY <2>5, <4>3
      <4> QED
        BY <4>1, <4>2, <4>3
    <3>3. \A i \in 1..k : s[i] < new
      BY <1>1, <2>7, <3>1
    <3>4. \A i, j \in 1..k : i < j => s[i] < s[j]
      BY <2>7, <3>1 DEF Increasing
    <3> QED
      BY <1>1, <2>3, <3>1, <3>2, <3>3, <3>4 DEF Increasing
  <2>8. \E u \in [1..M.size -> Elements] :
                    /\ Order(M, u)
                    /\ Increasing(L, s) /\ (L.size = 0 \/ e = L.tail) /\ (\A d \in LinkedIn(L) : d < new)
                         => Increasing(M, u)
    BY <1>3, <2>2, <2>4, <2>7
  <2> QED
    BY <2>3, <2>4, <2>6, <2>8 DEF M
<1> QED
  BY <1>2, <1>3

\* A removal takes its element, and leaves the head unless that is the one.
LEMMA RemoveMoves ==
    ASSUME NEW L, NEW s, Order(L, s), NEW e \in LinkedIn(L)
    PROVE  LET M == remove(L, e)
           IN  /\ M \in Lists
               /\ LinkedIn(M) = LinkedIn(L) \ {e}
               /\ M.head = L.head \/ e = L.head
               /\ \E t \in [1..M.size -> Elements] :
                    Order(M, t) /\ (Increasing(L, s) => Increasing(M, t))
<1> DEFINE M == remove(L, e)
<1>1. /\ L.size \in Nat /\ s \in [1..L.size -> Elements]
      /\ LinkedIn(L) = {s[i] : i \in 1..L.size}
      /\ \A i, j \in 1..L.size : s[i] = s[j] => i = j
  BY OrderFacts, Zenon
<1>2. PICK k \in 1..L.size : e = s[k]
  BY <1>1
<1> DEFINE t == Removed(L, s, k)
<1>3. Order(M, t)
  BY <1>2, RemoveAny
<1>4. M.size = L.size - 1 /\ (M.head = L.head \/ e = L.head)
  BY DEF remove, Order, Lists
<1> HIDE DEF M, t
<1>5. M \in Lists /\ t \in [1..M.size -> Elements] /\ LinkedIn(M) = {t[i] : i \in 1..M.size}
  BY <1>3, OrderFacts
<1>6. /\ \A i \in 1..(k - 1) : i \in 1..(L.size - 1) /\ t[i] = s[i]
      /\ \A i \in (k + 1)..L.size : i - 1 \in 1..(L.size - 1) /\ t[i - 1] = s[i]
      /\ \A i \in 1..(L.size - 1) : \/ i \in 1..(k - 1)
                                    \/ i + 1 \in (k + 1)..L.size /\ (i + 1) - 1 = i
  <2>1. \A i \in 1..(L.size - 1) : t[i] = IF i < k THEN s[i] ELSE s[i + 1]
    BY DEF t, Removed
  <2> QED
    BY <1>1, <2>1
<1>7. \A i \in 1..(L.size - 1) : \E j \in 1..L.size : /\ t[i] = s[j] /\ j # k
                                                      /\ j = IF i < k THEN i ELSE i + 1
  <2> SUFFICES ASSUME NEW i \in 1..(L.size - 1)
               PROVE  \E j \in 1..L.size : /\ t[i] = s[j] /\ j # k
                                           /\ j = IF i < k THEN i ELSE i + 1
    OBVIOUS
  <2>1. CASE i < k
    <3>1. i \in 1..(k - 1) /\ i \in 1..L.size /\ i # k
      BY <1>1, <2>1
    <3> QED
      BY <1>6, <2>1, <3>1
  <2>2. CASE ~(i < k)
    <3>1. i + 1 \in (k + 1)..L.size /\ i + 1 \in 1..L.size /\ i + 1 # k /\ (i + 1) - 1 = i
      BY <1>1, <2>2
    <3> QED
      BY <1>6, <2>2, <3>1
  <2> QED
    BY <2>1, <2>2
<1>8. LinkedIn(M) = LinkedIn(L) \ {e}
  <2>1. LinkedIn(M) \subseteq LinkedIn(L) \ {e}
    BY <1>1, <1>2, <1>4, <1>5, <1>7
  <2>2. ASSUME NEW i \in 1..L.size, i # k PROVE s[i] \in LinkedIn(M)
    <3>1. i \in 1..(k - 1) \/ i \in (k + 1)..L.size
      BY <1>1, <2>2
    <3>2. CASE i \in 1..(k - 1)
      BY <1>4, <1>5, <1>6, <3>2
    <3>3. CASE i \in (k + 1)..L.size
      BY <1>4, <1>5, <1>6, <3>3
    <3> QED
      BY <3>1, <3>2, <3>3
  <2> QED
    BY <1>1, <1>2, <2>1, <2>2
<1>9. ASSUME Increasing(L, s) PROVE Increasing(M, t)
  <2> SUFFICES ASSUME NEW i \in 1..(L.size - 1), NEW j \in 1..(L.size - 1), i < j
               PROVE  t[i] < t[j]
    BY <1>4 DEF Increasing
  <2>1. PICK a \in 1..L.size : t[i] = s[a] /\ a = IF i < k THEN i ELSE i + 1
    BY <1>7
  <2>2. PICK b \in 1..L.size : t[j] = s[b] /\ b = IF j < k THEN j ELSE j + 1
    BY <1>7
  <2>3. a < b
    BY <1>1, <2>1, <2>2
  <2> QED
    BY <1>9, <2>1, <2>2, <2>3 DEF Increasing
<1> QED
  BY <1>3, <1>4, <1>5, <1>8, <1>9 DEF M

\* A search follows the links: from the head it finds the first item of the
\* nickname, if there is one.
LEMMA SearchFinds ==
    ASSUME NEW L, NEW s, Order(L, s), NEW e \in Pointers, NEW n
    PROVE  LET hit == search(L, e, n)
           IN  /\ hit \in Pointers
               /\ e = Null => hit = Null
               /\ hit # Null => nick[hit] = n /\ L.size # 0
               /\ e = L.head =>
                    /\ hit # Null => hit \in LinkedIn(L)
                    /\ hit = Null => \A d \in LinkedIn(L) : nick[d] # n
                    /\ hit # Null /\ Increasing(L, s) => \A d \in LinkedIn(L) : nick[d] = n => hit <= d
<1> DEFINE way == Way(L.next, e)
           hits == {i \in DOMAIN way : way[i] # Null /\ nick[way[i]] = n}
           hit == search(L, e, n)
<1>1. /\ L \in Lists /\ L.size \in 0..MaxItems /\ L.size \in Nat /\ MaxItems \in Nat
      /\ s \in [1..L.size -> Elements]
      /\ LinkedIn(L) = {s[i] : i \in 1..L.size}
      /\ LinkedIn(L) \subseteq Elements
      /\ L.size = 0 <=> LinkedIn(L) = {}
      /\ L.head = Nth(L, s, 1)
  BY OrderFacts, BoundsAssumption
<1>2. ASSUME e \notin LinkedIn(L) PROVE way = [i \in 0..MaxItems |-> IF i = 0 THEN e ELSE Null]
  <2> DEFINE g == [i \in 0..MaxItems |-> IF i = 0 THEN e ELSE Null]
  <2>1. L.next \in [Pointers -> Pointers] /\ Null \in Pointers
    BY <1>1 DEF Lists, Pointers
  <2>2. L.next[e] = Null /\ L.next[Null] = Null
    <3>1. Null \notin LinkedIn(L)
      BY <1>1 DEF Elements, Null
    <3> QED
      BY <1>1, <1>2, <2>1, <3>1 DEF Order
  <2>3. g \in [0..MaxItems -> Pointers] /\ g[0] = e
    BY <1>1, <2>1
  <2>4. \A i \in 1..MaxItems : g[i] = L.next[g[i - 1]]
    BY <1>1, <2>2
  <2> HIDE DEF g
  <2>5. Way(L.next, e) = g
    BY <2>1, <2>3, <2>4, WayIs
  <2> QED
    BY <2>5 DEF g
<1>3. ASSUME NEW k \in 1..(L.size + 1), e = Nth(L, s, k)
      PROVE  way = [i \in 0..MaxItems |-> Nth(L, s, k + i)]
  <2>1. Way(L.next, Nth(L, s, k)) = [i \in 0..MaxItems |-> Nth(L, s, k + i)]
    BY WayAhead
  <2> QED
    BY <1>3, <2>1
<1>4. way \in [0..MaxItems -> Pointers]
  <2>1. CASE e \notin LinkedIn(L)
    BY <1>2, <2>1 DEF Pointers
  <2>2. CASE e \in LinkedIn(L)
    <3>1. PICK k \in 1..L.size : e = s[k]
      BY <1>1, <2>2
    <3>2. e = Nth(L, s, k) /\ k \in 1..(L.size + 1)
      BY <1>1, <3>1 DEF Nth
    <3>3. way = [i \in 0..MaxItems |-> Nth(L, s, k + i)]
      BY <1>3, <3>2
    <3>4. \A i \in 0..MaxItems : Nth(L, s, k + i) \in Pointers
      BY <1>1 DEF Nth, Pointers
    <3> HIDE DEF way
    <3> QED
      BY <3>3, <3>4
  <2> QED
    BY <2>1, <2>2
<1>5. hit = IF L.size = 0 \/ hits = {} THEN Null ELSE way[Min(hits)]
  BY DEF search
<1> HIDE DEF way, hit
<1>6. hits \in SUBSET (0..MaxItems)
  BY <1>4
<1>7. ASSUME hits # {}
      PROVE  Min(hits) \in hits /\ \A j \in hits : Min(hits) <= j
  <2> HIDE DEF hits
  <2> QED
    BY <1>1, <1>6, <1>7, FirstPlace
<1>8. hit \in Pointers /\ (hit # Null => nick[hit] = n /\ L.size # 0 /\ hits # {} /\ hit = way[Min(hits)])
  <2>1. CASE L.size = 0 \/ hits = {}
    BY <1>5, <2>1 DEF Pointers
  <2>2. CASE ~(L.size = 0 \/ hits = {})
    <3>1. hit = way[Min(hits)] /\ Min(hits) \in hits
      BY <1>5, <1>7, <2>2
    <3> QED
      BY <1>4, <2>2, <3>1
  <2> QED
    BY <2>1, <2>2
<1>9. ASSUME e = Null PROVE hit = Null
  <2>1. e \notin LinkedIn(L)
    BY <1>1, <1>9 DEF Elements, Null
  <2>2. hits = {}
    BY <1>2, <1>9, <2>1
  <2> QED
    BY <1>5, <2>2
<1>10. ASSUME e = L.head
       PROVE  /\ hit # Null => hit \in LinkedIn(L)
              /\ hit = Null => \A d \in LinkedIn(L) : nick[d] # n
              /\ hit # Null /\ Increasing(L, s) => \A d \in LinkedIn(L) : nick[d] = n => hit <= d
  <2>1. way = [i \in 0..MaxItems |-> Nth(L, s, 1 + i)]
    BY <1>1, <1>3, <1>10
  <2>2. ASSUME NEW d \in LinkedIn(L), nick[d] = n
        PROVE  \E i \in hits : d = s[1 + i] /\ 1 + i \in 1..L.size
    <3>1. PICK k \in 1..L.size : d = s[k]
      BY <1>1
    <3>2. k - 1 \in 0..MaxItems /\ 1 + (k - 1) = k
      BY <1>1
    <3>3. way[k - 1] = d /\ d # Null
      BY <1>1, <2>1, <3>1, <3>2 DEF Nth, Elements, Null
    <3>4. k - 1 \in hits
      BY <1>4, <2>2, <3>2, <3>3
    <3> QED
      BY <3>1, <3>2, <3>4
  <2>3. ASSUME hit # Null
        PROVE  /\ Min(hits) \in hits /\ 1 + Min(hits) \in 1..L.size /\ hit = s[1 + Min(hits)]
               /\ \A j \in hits : Min(hits) <= j
    <3>1. Min(hits) \in hits /\ \A j \in hits : Min(hits) <= j
      BY <1>7, <1>8, <2>3
    <3>2. Min(hits) \in 0..MaxItems /\ way[Min(hits)] = hit
      BY <1>6, <1>8, <2>3, <3>1
    <3>3. hit = Nth(L, s, 1 + Min(hits))
      BY <2>1, <3>2
    <3> QED
      BY <2>3, <3>1, <3>3 DEF Nth
  <2>4. hit # Null => hit \in LinkedIn(L)
    BY <1>1, <2>3
  <2>5. hit = Null => \A d \in LinkedIn(L) : nick[d] # n
    <3> SUFFICES ASSUME hit = Null, NEW d \in LinkedIn(L), nick[d] = n PROVE FALSE
      OBVIOUS
    <3>1. hits # {} /\ L.size # 0
      BY <1>1, <2>2
    <3>2. way[Min(hits)] # Null
      BY <1>7, <3>1
    <3> QED
      BY <1>5, <3>1, <3>2
  <2>6. ASSUME hit # Null, Increasing(L, s), NEW d \in LinkedIn(L), nick[d] = n PROVE hit <= d
    <3>1. PICK i \in hits : d = s[1 + i] /\ 1 + i \in 1..L.size
      BY <2>2, <2>6
    <3>2. Min(hits) <= i /\ 1 + Min(hits) \in 1..L.size /\ hit = s[1 + Min(hits)] /\ Min(hits) \in hits
      BY <2>3, <2>6, <3>1
    <3>3. i \in Nat /\ Min(hits) \in Nat
      BY <1>1, <1>6, <3>1, <3>2
    <3>4. s[1 + i] \in Nat /\ s[1 + Min(hits)] \in Nat
      BY <1>1, <3>1, <3>2 DEF Elements
    <3>5. CASE Min(hits) = i
      BY <3>1, <3>2, <3>4, <3>5
    <3>6. CASE Min(hits) # i
      <4>1. 1 + Min(hits) < 1 + i
        BY <3>2, <3>3, <3>6
      <4>2. s[1 + Min(hits)] < s[1 + i]
        BY <2>6, <3>1, <3>2, <4>1 DEF Increasing
      <4> QED
        BY <3>1, <3>2, <3>4, <4>2
    <3> QED
      BY <3>5, <3>6
  <2> QED
    BY <2>4, <2>5, <2>6
<1> QED
  BY <1>8, <1>9, <1>10 DEF hit

-----------------------------------------------------------------------------
(* What the steps do to the list. *)

\* The ends of the list are elements of it.
LEMMA Ends ==
    ASSUME ListInv
    PROVE  /\ Linked = LinkedIn(list) /\ Linked \subseteq Elements
           /\ list.size = 0 => Linked = {} /\ list.head = Null
           /\ list.size # 0 => list.head \in Linked /\ list.tail \in Linked
           /\ Null \notin Linked
<1>1. Linked = LinkedIn(list)
  BY DEF Linked, LinkedIn
<1>2. PICK s : Order(list, s)
  BY DEF ListInv, Shape
<1> DEFINE L == list
<1> HIDE DEF L
<1>3. Order(L, s)
  BY <1>2 DEF L
<1>4. /\ L.size \in Nat /\ LinkedIn(L) = {s[i] : i \in 1..L.size}
      /\ LinkedIn(L) \subseteq Elements
      /\ (L.size = 0 <=> LinkedIn(L) = {})
      /\ L.head = Nth(L, s, 1) /\ L.tail = Nth(L, s, L.size)
  BY <1>3, OrderFacts
<1>5. L.size = 0 => LinkedIn(L) = {} /\ L.head = Null
  BY <1>4 DEF Nth
<1>6. L.size # 0 => L.head \in LinkedIn(L) /\ L.tail \in LinkedIn(L)
  <2> SUFFICES ASSUME L.size # 0 PROVE L.head \in LinkedIn(L) /\ L.tail \in LinkedIn(L)
    OBVIOUS
  <2>1. 1 \in 1..L.size /\ L.size \in 1..L.size
    BY <1>4
  <2> QED
    BY <1>4, <2>1 DEF Nth
<1>7. Null \notin LinkedIn(L)
  BY <1>4 DEF Elements, Null
<1> QED
  BY <1>1, <1>4, <1>5, <1>6, <1>7 DEF L

\* A step that leaves the list alone.
LEMMA ShapeStays ==
    ASSUME Shape, list' = list, overlapped => overlapped'
    PROVE  Shape'
<1>1. PICK s \in [1..list.size -> Elements] : Order(list, s) /\ (~overlapped => Increasing(list, s))
  BY DEF Shape
<1>2. Order(list', s) /\ (~overlapped' => Increasing(list', s)) /\ s \in [1..list'.size -> Elements]
  BY <1>1
<1> QED
  BY <1>2 DEF Shape

\* A step that gives the list another order.
LEMMA ShapeMoves ==
    ASSUME overlapped' = overlapped, NEW M, list' = M, NEW t \in [1..M.size -> Elements],
           Order(M, t), ~overlapped => Increasing(M, t)
    PROVE  Shape'
<1>1. Order(list', t) /\ (~overlapped' => Increasing(list', t)) /\ t \in [1..list'.size -> Elements]
  OBVIOUS
<1> QED
  BY <1>1 DEF Shape

\* An insertion is behind an element of the list, and of an element that was
\* nowhere yet.
LEMMA InsertLinks ==
    ASSUME ListInv, NEW w \in Workers, InsertNext(w)
    PROVE  /\ Shape'
           /\ ~broken' =>
                \/ list' = list /\ refused' = refused \cup {arg[w].item}
                   /\ list.size # 0 /\ arg[w].elem = Null
                \/ /\ Linked' = Linked \cup {arg[w].item} /\ refused' = refused
                   /\ list.size # 0 => list'.head = list.head
<1> DEFINE e == arg[w].elem
           new == arg[w].item
<1>1. ~broken /\ pc[w] = "insert" /\ overlapped' = overlapped
  BY DEF InsertNext, Goto
<1>2. CASE list.size # 0 /\ e = Null /\ refused' = refused \cup {new} /\ UNCHANGED <<list, broken>>
  <2>1. Shape'
    BY <1>1, <1>2, ShapeStays DEF ListInv
  <2> QED
    BY <1>2, <2>1
<1>3. CASE /\ list.size = 0 \/ e # Null
           /\ broken' = (list.size # 0 /\ e \in freed)
           /\ list' = IF broken' THEN list ELSE insert_next(list, e, new)
           /\ UNCHANGED refused
  <2>1. CASE broken'
    <3>1. list' = list
      BY <1>3, <2>1
    <3>2. Shape'
      BY <1>1, <3>1, ShapeStays DEF ListInv
    <3> QED
      BY <2>1, <3>2
  <2>2. CASE ~broken'
    <3>1. list.size = 0 \/ (e # Null /\ e \notin freed)
      BY <1>3, <2>2
    <3>2. Accounts /\ Holds(w)
      BY <1>1 DEF ListInv
    <3>3. list.size = 0 \/ e \in Linked
      BY <1>1, <3>1, <3>2 DEF Holds
    <3>4. new \in 1..Len(nick) /\ new \notin Linked
      BY <1>1, <3>2 DEF Accounts
    <3>5. new \in Elements
      <4>1. new \in Pointers /\ Len(nick) \in Nat
        BY DEF ListInv, TypeOK, Args
      <4> QED
        BY <3>4, <4>1 DEF Pointers, Null
    <3>6. ASSUME ~overlapped PROVE (list.size = 0 \/ e = list.tail) /\ \A d \in Linked : d < new
      <4>1. Fresh(w)
        BY <1>1, <3>6 DEF ListInv, Alone
      <4>2. e = list.tail /\ new = Len(nick)
        BY <1>1, <4>1 DEF Fresh
      <4>3. Linked \subseteq 1..Len(nick) /\ Len(nick) \in Nat
        BY <3>2 DEF Accounts, ListInv, TypeOK
      <4>4. \A d \in Linked : d < new
        <5> SUFFICES ASSUME NEW d \in Linked PROVE d < new
          OBVIOUS
        <5>1. d \in 1..Len(nick) /\ d # Len(nick)
          BY <3>4, <4>2, <4>3
        <5> QED
          BY <4>2, <4>3, <5>1
      <4> QED
        BY <4>2, <4>4
    <3>7. PICK s \in [1..list.size -> Elements] : Order(list, s) /\ (~overlapped => Increasing(list, s))
      BY DEF ListInv, Shape
    <3>8. Linked = LinkedIn(list)
      BY Ends
    <3> DEFINE L == list
               M == insert_next(L, e, new)
    <3>9. list' = M
      BY <1>3, <2>2
    <3> HIDE DEF L, e, new
    <3>10. Order(L, s) /\ (~overlapped => Increasing(L, s)) /\ new \notin LinkedIn(L)
           /\ (L.size = 0 \/ e \in LinkedIn(L))
           /\ (~overlapped => (L.size = 0 \/ e = L.tail) /\ \A d \in LinkedIn(L) : d < new)
      BY <3>3, <3>4, <3>6, <3>7, <3>8 DEF L
    <3>11. /\ M \in Lists
           /\ LinkedIn(M) = LinkedIn(L) \cup {new}
           /\ L.size # 0 => M.head = L.head
           /\ \E t \in [1..M.size -> Elements] :
                /\ Order(M, t)
                /\ Increasing(L, s) /\ (L.size = 0 \/ e = L.tail) /\ (\A d \in LinkedIn(L) : d < new)
                     => Increasing(M, t)
      BY <3>5, <3>10, InsertMoves
    <3> HIDE DEF M
    <3>12. PICK t \in [1..M.size -> Elements] : Order(M, t) /\ (~overlapped => Increasing(M, t))
      BY <3>10, <3>11
    <3>13. Shape'
      BY <1>1, <3>9, <3>12, ShapeMoves
    <3>14. Linked' = LinkedIn(M)
      BY <3>9 DEF Linked, LinkedIn
    <3> QED
      BY <1>3, <3>8, <3>9, <3>11, <3>13, <3>14 DEF L, e, new
  <2> QED
    BY <2>1, <2>2
<1>4. \/ list.size # 0 /\ e = Null /\ refused' = refused \cup {new} /\ UNCHANGED <<list, broken>>
      \/ /\ list.size = 0 \/ e # Null
         /\ broken' = (list.size # 0 /\ e \in freed)
         /\ list' = IF broken' THEN list ELSE insert_next(list, e, new)
         /\ UNCHANGED refused
  BY DEF InsertNext
<1> QED
  BY <1>2, <1>3, <1>4

\* An element of the list is removed, and the others keep their order.
LEMMA RemoveLinks ==
    ASSUME ListInv, NEW e \in Linked, list' = remove(list, e), overlapped' = overlapped
    PROVE  Shape' /\ Linked' = Linked \ {e} /\ (list'.head = list.head \/ e = list.head)
<1>1. PICK s \in [1..list.size -> Elements] : Order(list, s) /\ (~overlapped => Increasing(list, s))
  BY DEF ListInv, Shape
<1>2. Linked = LinkedIn(list)
  BY Ends
<1> DEFINE L == list
           M == remove(L, e)
<1> HIDE DEF L
<1>3. Order(L, s) /\ (~overlapped => Increasing(L, s)) /\ e \in LinkedIn(L) /\ list' = M
  BY <1>1, <1>2 DEF L
<1>4. /\ LinkedIn(M) = LinkedIn(L) \ {e}
      /\ M.head = L.head \/ e = L.head
      /\ \E t \in [1..M.size -> Elements] :
           Order(M, t) /\ (Increasing(L, s) => Increasing(M, t))
  BY <1>3, RemoveMoves
<1> HIDE DEF M
<1>5. PICK t \in [1..M.size -> Elements] : Order(M, t) /\ (~overlapped => Increasing(M, t))
  BY <1>3, <1>4
<1>6. Shape'
  BY <1>3, <1>5, ShapeMoves
<1>7. Linked' = LinkedIn(M)
  BY <1>3 DEF Linked, LinkedIn
<1> QED
  BY <1>2, <1>3, <1>4, <1>6, <1>7 DEF L

\* A handler removes an element that is in the list, or the use of a freed one
\* breaks the execution.
LEMMA RemoveStep ==
    ASSUME ListInv, NEW w \in Workers, Remove(w)
    PROVE  /\ Shape'
           /\ ~broken' =>
                \/ list.size = 0 /\ list' = list /\ freed' = freed /\ dropped' = dropped
                   /\ Return(w, "remove")
                \/ /\ arg[w].elem \in Linked /\ arg[w].elem \notin freed
                   /\ Linked' = Linked \ {arg[w].elem}
                   /\ freed' = freed \cup {arg[w].elem}
                   /\ list'.head = list.head \/ arg[w].elem = list.head
                   /\ \/ Goto(w, "remove", "call") /\ arg' = arg /\ dropped' = dropped
                      \/ Return(w, "remove") /\ dropped' = dropped \cup {arg[w].elem}
<1> DEFINE e == arg[w].elem
<1>1. pc[w] = "remove" /\ overlapped' = overlapped /\ ~broken
  BY DEF Remove, Return, Goto
<1>2. CASE list.size = 0
  <2>1. Return(w, "remove") /\ UNCHANGED <<list, freed, dropped, broken>>
    BY <1>2 DEF Remove
  <2>2. Shape'
    BY <1>1, <2>1, ShapeStays DEF ListInv
  <2> QED
    BY <1>2, <2>1, <2>2
<1>3. CASE list.size # 0
  <2>1. /\ broken' = (e \in freed)
        /\ list' = IF broken' THEN list ELSE remove(list, e)
        /\ freed' = freed \cup {e}
        /\ \/ Goto(w, "remove", "call") /\ UNCHANGED <<arg, dropped>>
           \/ Return(w, "remove") /\ dropped' = dropped \cup {e}
    BY <1>3 DEF Remove
  <2>2. CASE broken'
    <3>1. list' = list
      BY <2>1, <2>2
    <3>2. Shape'
      BY <1>1, <3>1, ShapeStays DEF ListInv
    <3> QED
      BY <2>2, <3>2
  <2>3. CASE ~broken'
    <3>1. list' = remove(list, e) /\ e \notin freed
      BY <2>1, <2>3
    <3>2. e \in Linked
      <4>1. Holds(w)
        BY <1>1 DEF ListInv
      <4> QED
        BY <1>1, <3>1, <4>1 DEF Holds
    <3>3. Shape' /\ Linked' = Linked \ {e} /\ (list'.head = list.head \/ e = list.head)
      BY <1>1, <3>1, <3>2, RemoveLinks
    <3> QED
      BY <2>1, <3>1, <3>2, <3>3
  <2> QED
    BY <2>2, <2>3
<1> QED
  BY <1>2, <1>3

\* destroyCallbackDList removes the last element.
LEMMA DestroyStep ==
    ASSUME ListInv, DestroyTail
    PROVE  /\ Shape'
           /\ list.tail \in Linked
           /\ freed' = freed \cup {list.tail} /\ dropped' = dropped \cup {list.tail}
           /\ ~broken' => Linked' = Linked \ {list.tail} /\ list.tail \notin freed
<1>1. ~broken /\ overlapped' = overlapped /\ list.size > 0
  BY DEF DestroyTail
<1>2. list.tail \in Linked /\ list.tail # Null
  <2>1. list.size # 0
    BY <1>1 DEF ListInv, TypeOK, Lists
  <2> QED
    BY <2>1, Ends
<1>3. /\ broken' = (list.tail \in freed)
      /\ list' = IF broken' THEN list ELSE remove(list, list.tail)
      /\ freed' = freed \cup {list.tail} /\ dropped' = dropped \cup {list.tail}
  BY <1>2 DEF DestroyTail
<1>4. CASE broken'
  <2>1. list' = list
    BY <1>3, <1>4
  <2>2. Shape'
    BY <1>1, <2>1, ShapeStays DEF ListInv
  <2> QED
    BY <1>2, <1>3, <1>4, <2>2
<1>5. CASE ~broken'
  <2>1. list' = remove(list, list.tail) /\ list.tail \notin freed
    BY <1>3, <1>5
  <2>2. Shape' /\ Linked' = Linked \ {list.tail}
    BY <1>1, <1>2, <2>1, RemoveLinks
  <2> QED
    BY <1>2, <1>3, <2>1, <2>2
<1> QED
  BY <1>4, <1>5

\* The actions that leave the list alone.
Quiet == \/ \E w \in Workers : Whois(w) \/ Search(w) \/ Call(w) \/ Handle(w)
         \/ \E w \in Workers, n \in Nicks : Register(w, n)
         \/ ServerAnswers
         \/ \E n \in Nicks : NoSuchNick(n)
         \/ Close

\* None of them ends an overlap.
LEMMA QuietStays ==
    ASSUME TypeOK, Quiet
    PROVE  list' = list /\ freed' = freed /\ refused' = refused /\ dropped' = dropped
           /\ (overlapped => overlapped')
<1>1. \A w \in Workers : Whois(w) \/ Search(w) \/ Call(w) =>
        list' = list /\ freed' = freed /\ refused' = refused /\ dropped' = dropped
        /\ (overlapped => overlapped')
  BY DEF Whois, Search, Call, outcome
<1>2. \A w \in Workers : Handle(w) =>
        list' = list /\ freed' = freed /\ refused' = refused /\ dropped' = dropped
        /\ (overlapped => overlapped')
  BY DEF Handle, Start, outcome
<1>3. \A w \in Workers, n \in Nicks : Register(w, n) =>
        list' = list /\ freed' = freed /\ refused' = refused /\ dropped' = dropped
        /\ (overlapped => overlapped')
  BY DEF Register, Start, outcome
<1>4. ServerAnswers \/ (\E n \in Nicks : NoSuchNick(n)) \/ Close =>
        list' = list /\ freed' = freed /\ refused' = refused /\ dropped' = dropped
        /\ (overlapped => overlapped')
  <2>1. ServerAnswers => UNCHANGED <<list, freed, refused, dropped, overlapped>>
    BY DEF ServerAnswers, Answer, outcome
  <2>2. \A n \in Nicks : NoSuchNick(n) => UNCHANGED <<list, freed, refused, dropped, overlapped>>
    BY DEF NoSuchNick, outcome
  <2>3. Close => UNCHANGED <<list, freed, refused, dropped, overlapped>>
    BY DEF Close, outcome
  <2> QED
    BY <2>1, <2>2, <2>3
<1> QED
  BY <1>1, <1>2, <1>3, <1>4, Zenon DEF Quiet

LEMMA ShapeStep ==
    ASSUME ListInv, [Next]_vars
    PROVE  Shape'
<1>1. CASE UNCHANGED vars
  BY <1>1, ShapeStays DEF vars, ListInv
<1>2. CASE Quiet
  BY <1>2, QuietStays, ShapeStays DEF ListInv
<1>3. CASE \E w \in Workers : InsertNext(w)
  BY <1>3, InsertLinks
<1>4. CASE \E w \in Workers : Remove(w)
  BY <1>4, RemoveStep
<1>5. CASE DestroyTail
  BY <1>5, DestroyStep
<1> QED
  BY <1>1, <1>2, <1>3, <1>4, <1>5 DEF Next, Handler, Quiet

-----------------------------------------------------------------------------
(* The types. *)

\* The locals of the threads.
LEMMA ArgsChange ==
    ASSUME NEW a \in [Workers -> Args], NEW w \in Workers, NEW p \in Pointers, NEW i \in Pointers,
           NEW m \in [nick : Nicks, found : BOOLEAN]
    PROVE  /\ [a EXCEPT ![w].elem = p] \in [Workers -> Args]
           /\ [a EXCEPT ![w].elem = p, ![w].item = i] \in [Workers -> Args]
           /\ [a EXCEPT ![w] = NoArg] \in [Workers -> Args]
           /\ [a EXCEPT ![w].elem = p, ![w].answer = <<m>>] \in [Workers -> Args]
<1>1. a[w] = [elem |-> a[w].elem, item |-> a[w].item, answer |-> a[w].answer]
      /\ a[w].elem \in Pointers /\ a[w].item \in Pointers
      /\ a[w].answer \in {<<>>} \cup {<<x>> : x \in [nick : Nicks, found : BOOLEAN]}
  BY DEF Args
<1>2. [elem |-> p, item |-> a[w].item, answer |-> a[w].answer] \in Args
  BY <1>1 DEF Args
<1>3. [elem |-> p, item |-> i, answer |-> a[w].answer] \in Args
  BY <1>1 DEF Args
<1>4. NoArg \in Args
  BY DEF NoArg, Args, Pointers
<1>5. [elem |-> p, item |-> a[w].item, answer |-> <<m>>] \in Args
  BY <1>1 DEF Args
<1>6. [a EXCEPT ![w].elem = p] \in [Workers -> Args]
  BY <1>1, <1>2
<1>7. [a EXCEPT ![w].elem = p, ![w].item = i] \in [Workers -> Args]
  BY <1>1, <1>3
<1>8. [a EXCEPT ![w].elem = p, ![w].answer = <<m>>] \in [Workers -> Args]
  BY <1>1, <1>5
<1> QED
  BY <1>4, <1>6, <1>7, <1>8

\* The list is checked in ShapeStep.
LEMMA TypeStep ==
    ASSUME ListInv, [Next]_vars
    PROVE  TypeOK'
<1> DEFINE Answers == [nick : Nicks, found : BOOLEAN]
           Labels == {"idle", "insert", "whois", "search", "remove", "call"}
<1>0. list' \in Lists
  BY ShapeStep DEF Shape, Order
<1>1. TypeOK /\ Len(nick) \in Nat /\ Null \in Pointers /\ Elements \subseteq Pointers
      /\ list.head \in Pointers /\ list.tail \in Pointers /\ NoArg \in Args
  BY DEF ListInv, TypeOK, Pointers, Elements, Lists, NoArg, Args
<1>2. ASSUME NEW w \in Workers, pc[w] = "insert", ~broken
      PROVE  arg[w].item \in Elements
  <2>1. arg[w].item \in 1..Len(nick) /\ arg[w].item \in Pointers
    BY <1>2 DEF ListInv, Accounts, TypeOK, Args
  <2> QED
    BY <1>1, <2>1 DEF Pointers, Null
<1>3. ASSUME NEW w \in Workers, NEW n \in Nicks, Register(w, n)
      PROVE  TypeOK'
  <2>1. Len(nick) + 1 \in Pointers
    BY <1>1, <1>3, BoundsAssumption DEF Register, Pointers, Elements
  <2>2. nick' \in Seq(Nicks)
    BY <1>1, <1>3 DEF Register, TypeOK
  <2>3. pc' \in [Workers -> Labels]
    BY <1>1, <1>3 DEF Register, Start, Goto, TypeOK
  <2>4. arg' \in [Workers -> Args]
    <3>1. arg' = [arg EXCEPT ![w].elem = list.tail, ![w].item = Len(nick) + 1]
      BY <1>3 DEF Register
    <3>2. arg \in [Workers -> Args]
      BY <1>1 DEF TypeOK
    <3>3. \E m \in Answers : TRUE
      <4>1. [nick |-> n, found |-> TRUE] \in Answers
        OBVIOUS
      <4> QED
        BY <4>1
    <3> QED
      BY <1>1, <2>1, <3>1, <3>2, <3>3, ArgsChange
  <2>5. overlapped' \in BOOLEAN
    BY <1>3 DEF Register, Start
  <2> QED
    BY <1>0, <1>1, <1>3, <2>2, <2>3, <2>4, <2>5 DEF Register, outcome, TypeOK
<1>4. ASSUME NEW w \in Workers, InsertNext(w)
      PROVE  TypeOK'
  <2>1. ~broken /\ pc[w] = "insert" /\ pc' = [pc EXCEPT ![w] = "whois"]
    BY <1>4 DEF InsertNext, Goto
  <2>2. refused' \subseteq Elements
    BY <1>1, <1>2, <1>4, <2>1 DEF InsertNext, TypeOK
  <2>3. pc' \in [Workers -> Labels]
    BY <1>1, <2>1 DEF TypeOK
  <2>4. broken' \in BOOLEAN
    BY <1>1, <1>4 DEF InsertNext, TypeOK
  <2> QED
    BY <1>0, <1>1, <1>4, <2>2, <2>3, <2>4 DEF InsertNext, outcome, TypeOK
<1>5. ASSUME NEW w \in Workers, Whois(w)
      PROVE  TypeOK'
  <2>1. ~broken /\ pc[w] = "whois" /\ pc' = [pc EXCEPT ![w] = "idle"]
    BY <1>5 DEF Whois, Goto
  <2>2. nick[arg[w].item] \in Nicks
    <3>1. arg[w].item \in 1..Len(nick)
      BY <2>1 DEF ListInv, Accounts
    <3> QED
      BY <1>1, <3>1 DEF TypeOK
  <2>3. asked' \in Seq(Nicks)
    BY <1>1, <1>5, <2>2 DEF Whois, TypeOK
  <2>4. pc' \in [Workers -> Labels] /\ arg' \in [Workers -> Args]
    BY <1>1, <1>5, <2>1 DEF Whois, TypeOK
  <2>5. broken' \in BOOLEAN
    BY <1>5 DEF Whois
  <2> QED
    BY <1>0, <1>1, <1>5, <2>3, <2>4, <2>5 DEF Whois, outcome, TypeOK
<1>6. ASSUME NEW found \in BOOLEAN, Answer(found)
      PROVE  TypeOK'
  <2>1. Head(asked) \in Nicks /\ Tail(asked) \in Seq(Nicks)
    BY <1>1, <1>6 DEF Answer, TypeOK
  <2>2. answers' \in Seq(Answers)
    BY <1>1, <1>6, <2>1 DEF Answer, TypeOK
  <2> QED
    BY <1>0, <1>1, <1>6, <2>1, <2>2 DEF Answer, outcome, TypeOK
<1>7. ASSUME NEW n \in Nicks, NoSuchNick(n)
      PROVE  TypeOK'
  <2>1. answers' \in Seq(Answers)
    BY <1>1, <1>7 DEF NoSuchNick, TypeOK
  <2>2. noNick' \in 0..MaxNoNick
    BY <1>1, <1>7, BoundsAssumption DEF NoSuchNick, TypeOK
  <2> QED
    BY <1>0, <1>1, <1>7, <2>1, <2>2 DEF NoSuchNick, outcome, TypeOK
<1>8. ASSUME NEW w \in Workers, Handle(w)
      PROVE  TypeOK'
  <2>1. Head(answers) \in Answers /\ Tail(answers) \in Seq(Answers)
    <3>1. answers \in Seq(Answers) /\ answers # <<>>
      BY <1>1, <1>8 DEF Handle, TypeOK
    <3> HIDE DEF Answers
    <3> QED
      BY <3>1
  <2>2. pc' \in [Workers -> Labels]
    BY <1>1, <1>8 DEF Handle, Start, Goto, TypeOK
  <2>3. arg' \in [Workers -> Args]
    <3>1. arg' = [arg EXCEPT ![w].elem = list.head, ![w].answer = <<Head(answers)>>]
      BY <1>8 DEF Handle
    <3>2. arg \in [Workers -> Args]
      BY <1>1 DEF TypeOK
    <3> QED
      BY <1>1, <2>1, <3>1, <3>2, ArgsChange
  <2>4. overlapped' \in BOOLEAN
    BY <1>8 DEF Handle, Start
  <2> QED
    BY <1>0, <1>1, <1>8, <2>1, <2>2, <2>3, <2>4 DEF Handle, outcome, TypeOK
<1>9. ASSUME NEW w \in Workers, Search(w)
      PROVE  TypeOK'
  <2> DEFINE hit == search(list, arg[w].elem, arg[w].answer[1].nick)
  <2>1. hit \in Pointers
    <3>1. PICK s : Order(list, s)
      BY DEF ListInv, Shape
    <3>2. arg[w].elem \in Pointers
      BY <1>1 DEF TypeOK, Args
    <3> QED
      BY <3>1, <3>2, SearchFinds
  <2> HIDE DEF hit
  <2>2. \/ Return(w, "search")
        \/ Goto(w, "search", "remove") /\ arg' = [arg EXCEPT ![w].elem = hit]
    BY <1>9 DEF Search, hit
  <2>3. pc' \in [Workers -> Labels]
    BY <1>1, <2>2 DEF Return, Goto, TypeOK
  <2>4. arg' \in [Workers -> Args]
    <3>1. CASE Return(w, "search")
      BY <1>1, <3>1 DEF Return, TypeOK
    <3>2. CASE arg' = [arg EXCEPT ![w].elem = hit]
      <4>1. arg \in [Workers -> Args] /\ arg[w].item \in Pointers
        BY <1>1 DEF TypeOK, Args
      <4>2. arg[w] = [elem |-> arg[w].elem, item |-> arg[w].item, answer |-> arg[w].answer]
        BY <1>1 DEF TypeOK, Args
      <4>3. [elem |-> hit, item |-> arg[w].item, answer |-> arg[w].answer] \in Args
        BY <2>1, <4>1 DEF Args
      <4> QED
        BY <3>2, <4>1, <4>2, <4>3
    <3> QED
      BY <2>2, <3>1, <3>2
  <2>5. broken' \in BOOLEAN
    BY <1>9 DEF Search
  <2> QED
    BY <1>0, <1>1, <1>9, <2>3, <2>4, <2>5 DEF Search, outcome, TypeOK
<1>10. ASSUME NEW w \in Workers, Remove(w)
       PROVE  TypeOK'
  <2>1. \/ Return(w, "remove")
        \/ Goto(w, "remove", "call") /\ arg' = arg
    BY <1>10 DEF Remove
  <2>2. pc' \in [Workers -> Labels] /\ arg' \in [Workers -> Args]
    BY <1>1, <2>1 DEF Return, Goto, TypeOK
  <2>3. arg[w].elem \in Elements
    <3>1. pc[w] = "remove" /\ ~broken
      BY <1>10, <2>1 DEF Return, Goto
    <3>2. Holds(w)
      BY <3>1 DEF ListInv
    <3>3. Linked \subseteq Elements /\ freed \subseteq Elements
      BY <1>1, Ends DEF TypeOK
    <3> QED
      BY <3>1, <3>2, <3>3 DEF Holds
  <2>4. freed' \subseteq Elements /\ dropped' \subseteq Elements
    BY <1>1, <1>10, <2>3 DEF Remove, TypeOK
  <2>5. broken' \in BOOLEAN
    <3>1. CASE list.size = 0
      BY <1>1, <1>10, <3>1, Zenon DEF Remove, TypeOK
    <3>2. CASE list.size # 0
      BY <1>10, <3>2 DEF Remove
    <3> QED
      BY <3>1, <3>2
  <2> QED
    BY <1>0, <1>1, <1>10, <2>2, <2>4, <2>5 DEF Remove, TypeOK
<1>11. ASSUME NEW w \in Workers, Call(w)
       PROVE  TypeOK'
  <2>1. ~broken /\ pc[w] = "call" /\ pc' = [pc EXCEPT ![w] = "idle"]
        /\ arg' = [arg EXCEPT ![w] = NoArg]
    BY <1>11 DEF Call, Return, Goto
  <2>2. pc' \in [Workers -> Labels] /\ arg' \in [Workers -> Args]
    BY <1>1, <2>1 DEF TypeOK
  <2>3. arg[w].elem \in Elements
    <3>1. arg[w].elem \in Calling
      BY <2>1 DEF Calling, At
    <3>2. Calling \subseteq freed
      BY <2>1 DEF ListInv, Accounts
    <3> QED
      BY <1>1, <3>1, <3>2 DEF TypeOK
  <2> QED
    BY <1>0, <1>1, <1>11, <2>2, <2>3 DEF Call, TypeOK
<1>12. CASE Close
  BY <1>0, <1>1, <1>12 DEF Close, outcome, TypeOK
<1>13. CASE DestroyTail
  <2>1. list.tail \in Elements
    BY <1>13, DestroyStep, Ends
  <2>2. freed' \subseteq Elements /\ dropped' \subseteq Elements
    BY <1>1, <1>13, <2>1, DestroyStep DEF TypeOK
  <2>3. broken' \in BOOLEAN
    BY <1>13 DEF DestroyTail
  <2> QED
    BY <1>0, <1>1, <1>13, <2>2, <2>3 DEF DestroyTail, TypeOK
<1>14. CASE UNCHANGED vars
  BY <1>1, <1>14 DEF vars, outcome, TypeOK
<1> QED
  BY <1>3, <1>4, <1>5, <1>6, <1>7, <1>8, <1>9, <1>10, <1>11, <1>12, <1>13, <1>14
     DEF Next, Handler, ServerAnswers

-----------------------------------------------------------------------------
(* One thread alone. *)

\* destroyCallbackDList runs after the threads are joined: none of them starts again.
LEMMA RestingStep ==
    ASSUME ListInv, [Next]_vars
    PROVE  Resting'
<1>1. Resting /\ TypeOK
  BY DEF ListInv
<1>2. ASSUME NEW w \in Workers, Handler(w) \/ \E n \in Nicks : Register(w, n)
      PROVE  ~closing /\ closing' = closing
  <2>1. CASE InsertNext(w) \/ Whois(w) \/ Search(w) \/ Remove(w) \/ Call(w)
    <3>1. pc[w] # "idle" /\ closing' = closing
      BY <2>1 DEF InsertNext, Whois, Search, Remove, Call, Return, Goto
    <3> QED
      BY <1>1, <3>1 DEF Resting
  <2>2. CASE Handle(w)
    BY <2>2 DEF Handle, Start
  <2>3. ASSUME NEW n \in Nicks, Register(w, n)
        PROVE  ~closing /\ closing' = closing
    BY <2>3 DEF Register, Start
  <2> QED
    BY <1>2, <2>1, <2>2, <2>3 DEF Handler
<1>3. CASE ServerAnswers \/ \E n \in Nicks : NoSuchNick(n)
  BY <1>1, <1>3 DEF ServerAnswers, Answer, NoSuchNick, Resting
<1>4. CASE Close
  BY <1>4 DEF Close, Resting
<1>5. CASE DestroyTail
  BY <1>1, <1>5 DEF DestroyTail, Resting
<1>6. CASE UNCHANGED vars
  BY <1>1, <1>6 DEF vars, Resting
<1>7. CASE \E w \in Workers : Handler(w) \/ \E n \in Nicks : Register(w, n)
  BY <1>2, <1>7 DEF Resting
<1> QED
  BY <1>3, <1>4, <1>5, <1>6, <1>7 DEF Next

\* The elements of the list are not freed; the removed ones are.
LEMMA NotFreed ==
    ASSUME ListInv, ~broken
    PROVE  /\ Linked \cap freed = {} /\ refused \cap freed = {}
           /\ ran \cup dropped \subseteq freed
<1>1. Accounts
  BY DEF ListInv
<1> QED
  BY <1>1 DEF Accounts

\* A thread that is alone uses what it read while it is true.
LEMMA SafeStep ==
    ASSUME ListInv, [Next]_vars
    PROVE  OneThreadIsSafe'
<1> SUFFICES ASSUME ~overlapped' PROVE ~broken' /\ refused' = {}
  BY Zenon DEF OneThreadIsSafe
<1>1. ASSUME ~overlapped PROVE ~broken /\ refused = {} /\ Alone
  BY <1>1 DEF ListInv, OneThreadIsSafe
<1>2. ASSUME NEW w \in Workers, InsertNext(w)
      PROVE  ~broken' /\ refused' = {}
  <2>1. ~overlapped /\ pc[w] = "insert"
    BY <1>2 DEF InsertNext, Goto
  <2>2. ~broken /\ refused = {} /\ arg[w].elem = list.tail
    BY <1>1, <2>1 DEF Alone, Fresh
  <2>3. list.size # 0 => arg[w].elem # Null /\ arg[w].elem \notin freed
    BY <2>2, Ends, NotFreed
  <2> QED
    BY <1>2, <2>2, <2>3 DEF InsertNext
<1>3. ASSUME NEW w \in Workers, Whois(w)
      PROVE  ~broken' /\ refused' = {}
  <2>1. ~overlapped /\ pc[w] = "whois"
    BY <1>3 DEF Whois, Goto
  <2>2. ~broken /\ refused = {} /\ arg[w].item \in Linked \cup refused
    BY <1>1, <2>1 DEF Alone, Fresh
  <2>3. arg[w].item \notin ran \cup dropped
    BY <2>2, NotFreed
  <2> QED
    BY <1>3, <2>2, <2>3 DEF Whois
<1>4. ASSUME NEW w \in Workers, Search(w)
      PROVE  ~broken' /\ refused' = {}
  <2>1. ~overlapped /\ pc[w] = "search"
    BY <1>4 DEF Search, Goto
  <2>2. ~broken /\ refused = {} /\ arg[w].elem = list.head
    BY <1>1, <2>1 DEF Alone, Fresh
  <2>3. list.size # 0 => arg[w].elem \notin freed
    BY <2>2, Ends, NotFreed
  <2> QED
    BY <1>4, <2>2, <2>3 DEF Search
<1>5. ASSUME NEW w \in Workers, Remove(w)
      PROVE  ~broken' /\ refused' = {}
  <2>1. ~overlapped /\ pc[w] = "remove" /\ refused' = refused
    BY <1>5 DEF Remove
  <2>2. ~broken /\ refused = {} /\ arg[w].elem \in Linked
    BY <1>1, <2>1 DEF Alone, Fresh
  <2>3. arg[w].elem \notin freed
    BY <2>2, NotFreed
  <2>4. CASE list.size = 0
    BY <1>5, <2>1, <2>2, <2>4, Zenon DEF Remove
  <2>5. CASE list.size # 0
    BY <1>5, <2>1, <2>2, <2>3, <2>5 DEF Remove
  <2> QED
    BY <2>4, <2>5
<1>6. CASE DestroyTail
  <2>1. ~overlapped /\ refused' = refused
    BY <1>6 DEF DestroyTail
  <2>2. ~broken /\ refused = {}
    BY <1>1, <2>1
  <2>3. list.tail \notin freed
    BY <1>6, <2>2, DestroyStep, NotFreed
  <2> QED
    BY <1>6, <2>1, <2>2, <2>3 DEF DestroyTail
<1>7. ASSUME NEW w \in Workers, Call(w) \/ Handle(w) \/ \E n \in Nicks : Register(w, n)
      PROVE  ~broken' /\ refused' = {}
  <2>1. ~overlapped /\ broken' = broken /\ refused' = refused
    <3>1. CASE Call(w)
      BY <3>1 DEF Call
    <3>2. CASE Handle(w)
      BY <3>2 DEF Handle, Start
    <3>3. CASE \E n \in Nicks : Register(w, n)
      BY <3>3 DEF Register, Start
    <3> QED
      BY <1>7, <3>1, <3>2, <3>3
  <2> QED
    BY <1>1, <2>1, Zenon
<1>8. CASE ServerAnswers \/ (\E n \in Nicks : NoSuchNick(n)) \/ Close \/ UNCHANGED vars
  <2>1. overlapped' = overlapped /\ broken' = broken /\ refused' = refused
    <3>1. ServerAnswers => UNCHANGED <<refused, broken, overlapped>>
      BY DEF ServerAnswers, Answer
    <3>2. (\E n \in Nicks : NoSuchNick(n)) => UNCHANGED <<refused, broken, overlapped>>
      BY DEF NoSuchNick
    <3>3. Close => UNCHANGED <<refused, broken, overlapped>>
      BY DEF Close
    <3>4. UNCHANGED vars => UNCHANGED <<refused, broken, overlapped>>
      BY DEF vars
    <3> QED
      BY <1>8, <3>1, <3>2, <3>3, <3>4
  <2> QED
    BY <1>1, <2>1, Zenon
<1> QED
  BY <1>2, <1>3, <1>4, <1>5, <1>6, <1>7, <1>8 DEF Next, Handler

\* Only one thread is at work, and what it holds is fresh.
LEMMA AloneThere ==
    ASSUME NEW w \in Workers, \A v \in Workers \ {w} : pc'[v] = "idle", Fresh(w)'
    PROVE  Alone'
<1>1. \A v \in Workers \ {w} : Fresh(v)'
  BY DEF Fresh
<1> QED
  BY <1>1, Zenon DEF Alone

\* A thread that starts alone, or goes on alone, stays so.
LEMMA AloneStep ==
    ASSUME ListInv, [Next]_vars, ~broken', ~overlapped'
    PROVE  Alone'
<1>1. ~overlapped /\ ~broken /\ Alone /\ TypeOK
  <2>1. ~overlapped
    BY DEF ListInv, TypeOK, Next, vars, Handler, ServerAnswers, InsertNext, Whois, Search, Remove,
           Call, Handle, Register, Start, Answer, NoSuchNick, Close, DestroyTail
  <2> QED
    BY <2>1 DEF ListInv, OneThreadIsSafe
<1>2. ASSUME NEW w \in Workers, NEW b \in {"insert", "search"}, Start(w, b)
      PROVE  /\ \A v \in Workers \ {w} : pc'[v] = "idle"
             /\ pc'[w] = b
  BY <1>1, <1>2 DEF Start, Goto, TypeOK
<1>3. ASSUME NEW w \in Workers, NEW a \in {"insert", "whois", "search", "remove", "call"}, NEW b,
             Goto(w, a, b)
      PROVE  /\ \A v \in Workers \ {w} : pc'[v] = "idle"
             /\ pc'[w] = b
  BY <1>1, <1>3 DEF Goto, TypeOK, Alone
<1>4. ASSUME NEW w \in Workers, NEW n \in Nicks, Register(w, n)
      PROVE  Alone'
  <2>1. /\ Start(w, "insert") /\ list' = list
        /\ Len(nick') = Len(nick) + 1
        /\ arg' = [arg EXCEPT ![w].elem = list.tail, ![w].item = Len(nick) + 1]
    BY <1>1, <1>4 DEF Register, TypeOK
  <2>2. arg'[w].elem = list'.tail /\ arg'[w].item = Len(nick')
    BY <1>1, <2>1 DEF TypeOK, Args
  <2>3. pc'[w] = "insert"
    BY <1>2, <2>1
  <2>4. Fresh(w)'
    BY <2>2, <2>3 DEF Fresh
  <2> QED
    BY <1>2, <2>1, <2>4, AloneThere
<1>5. ASSUME NEW w \in Workers, InsertNext(w)
      PROVE  Alone'
  <2>1. Goto(w, "insert", "whois") /\ arg' = arg
    BY <1>5 DEF InsertNext
  <2>2. arg'[w].item \in Linked' \cup refused'
    BY <1>5, <2>1, InsertLinks
  <2>3. pc'[w] = "whois"
    BY <1>3, <2>1
  <2>4. Fresh(w)'
    BY <2>2, <2>3 DEF Fresh
  <2> QED
    BY <1>3, <2>1, <2>4, AloneThere
<1>6. ASSUME NEW w \in Workers, NEW a \in {"whois", "search", "remove", "call"},
             Goto(w, a, "idle") \/ Goto(w, a, "call")
      PROVE  Alone'
  <2>1. pc'[w] \in {"idle", "call"} /\ \A v \in Workers \ {w} : pc'[v] = "idle"
    BY <1>3, <1>6
  <2>2. Fresh(w)'
    BY <2>1 DEF Fresh
  <2> QED
    BY <2>1, <2>2, AloneThere
<1>7. ASSUME NEW w \in Workers, Handle(w)
      PROVE  Alone'
  <2>1. /\ Start(w, "search") /\ list' = list
        /\ arg' = [arg EXCEPT ![w].elem = list.head, ![w].answer = <<Head(answers)>>]
    BY <1>7 DEF Handle
  <2>2. arg'[w].elem = list'.head
    BY <1>1, <2>1 DEF TypeOK, Args
  <2>3. pc'[w] = "search"
    BY <1>2, <2>1
  <2>4. Fresh(w)'
    BY <2>2, <2>3 DEF Fresh
  <2> QED
    BY <1>2, <2>1, <2>4, AloneThere
<1>8. ASSUME NEW w \in Workers, Search(w)
      PROVE  Alone'
  <2> DEFINE n == arg[w].answer[1].nick
             hit == search(list, arg[w].elem, n)
  <2>1. CASE hit = Null
    <3>1. Goto(w, "search", "idle")
      BY <1>8, <2>1 DEF Search, Return
    <3> QED
      BY <1>6, <3>1
  <2>2. CASE hit # Null
    <3>1. /\ Goto(w, "search", "remove") /\ arg' = [arg EXCEPT ![w].elem = hit]
          /\ list' = list /\ nick' = nick
      BY <1>8, <2>2 DEF Search
    <3>2. arg[w].elem = list.head /\ arg[w].elem \in Pointers
      BY <1>1, <3>1 DEF Goto, Alone, Fresh, TypeOK, Args
    <3>3. PICK s : Order(list, s) /\ Increasing(list, s)
      BY <1>1 DEF ListInv, Shape
    <3>4. hit \in Linked /\ nick[hit] = n /\ \A d \in Linked : nick[d] = n => hit <= d
      BY <2>2, <3>2, <3>3, SearchFinds, Ends
    <3> HIDE DEF hit, n
    <3>5. arg'[w].elem = hit
      BY <1>1, <3>1 DEF TypeOK, Args
    <3>6. Linked' = Linked
      BY <3>1 DEF Linked
    <3>7. pc'[w] = "remove"
      BY <1>3, <3>1
    <3>8. Fresh(w)'
      BY <3>1, <3>4, <3>5, <3>6, <3>7 DEF Fresh
    <3> QED
      BY <1>3, <3>1, <3>8, AloneThere
  <2> QED
    BY <2>1, <2>2
<1>9. ASSUME NEW w \in Workers, Whois(w) \/ Remove(w) \/ Call(w)
      PROVE  Alone'
  <2>1. CASE Whois(w)
    BY <1>6, <2>1 DEF Whois
  <2>2. CASE Remove(w)
    <3>1. Goto(w, "remove", "idle") \/ Goto(w, "remove", "call")
      BY <2>2 DEF Remove, Return
    <3> QED
      BY <1>6, <3>1
  <2>3. CASE Call(w)
    BY <1>6, <2>3 DEF Call, Return
  <2> QED
    BY <1>9, <2>1, <2>2, <2>3
<1>10. CASE DestroyTail
  <2>1. \A w \in Workers : pc'[w] = "idle"
    BY <1>10 DEF DestroyTail, ListInv, Resting
  <2> QED
    BY <2>1 DEF Alone, Fresh
<1>11. CASE ServerAnswers \/ (\E n \in Nicks : NoSuchNick(n)) \/ Close \/ UNCHANGED vars
  <2>1. UNCHANGED <<list, refused, nick, pc, arg>>
    BY <1>11 DEF ServerAnswers, Answer, NoSuchNick, Close, vars
  <2>2. Linked' = Linked
    BY <2>1 DEF Linked
  <2> QED
    BY <1>1, <2>1, <2>2 DEF Alone, Fresh
<1> QED
  BY <1>4, <1>5, <1>7, <1>8, <1>9, <1>10, <1>11 DEF Next, Handler

-----------------------------------------------------------------------------
(* The items. *)

\* The number of items is not more than there are elements.
LEMMA ItemsFit ==
    ASSUME ListInv
    PROVE  Len(nick) \in Nat /\ nick \in Seq(Nicks) /\ arg \in [Workers -> Args]
           /\ pc \in [Workers -> {"idle", "insert", "whois", "search", "remove", "call"}]
  BY DEF ListInv, TypeOK

\* Steps of threads that are not at the items.
LEMMA AccountsStay ==
    ASSUME Accounts, UNCHANGED <<Linked, refused, freed, ran, dropped, nick>>,
           \A v \in Workers :
              \/ pc'[v] = pc[v] /\ arg'[v] = arg[v]
              \/ pc[v] \notin {"insert", "call"} /\ pc'[v] \notin {"insert", "call", "whois"}
    PROVE  Accounts'
<1>1. Created' = Created
  BY DEF Created, At
<1>2. Calling' = Calling
  BY DEF Calling, At
<1>3. ASSUME NEW w \in Workers
      PROVE  /\ pc'[w] \in {"insert", "whois"} => arg'[w].item \in 1..Len(nick')
             /\ pc'[w] = "insert" => arg'[w].item \notin Linked' \cup refused' \cup freed'
             /\ pc'[w] = "call" => arg'[w].elem \notin ran' \cup dropped'
  BY DEF Accounts
<1>4. ASSUME NEW w \in Workers, NEW v \in Workers, w # v
      PROVE  /\ pc'[w] = "insert" /\ pc'[v] = "insert" => arg'[w].item # arg'[v].item
             /\ pc'[w] = "call" /\ pc'[v] = "call" => arg'[w].elem # arg'[v].elem
  BY <1>4 DEF Accounts
<1> QED
  BY <1>1, <1>2, <1>3, <1>4 DEF Accounts

\* Every step keeps each item in one place.
LEMMA AccountsStep ==
    ASSUME ListInv, [Next]_vars, ~broken, ~broken'
    PROVE  Accounts'
<1>1. Accounts /\ Len(nick) \in Nat /\ nick \in Seq(Nicks) /\ arg \in [Workers -> Args]
      /\ pc \in [Workers -> {"idle", "insert", "whois", "search", "remove", "call"}]
  BY ItemsFit DEF ListInv
<1>2. list' = list => Linked' = Linked
  BY DEF Linked
<1>3. ASSUME NEW w \in Workers, NEW n \in Nicks, Register(w, n)
      PROVE  Accounts'
  <2> DEFINE k == Len(nick) + 1
  <2>1. /\ pc[w] = "idle" /\ pc' = [pc EXCEPT ![w] = "insert"]
        /\ Len(nick') = k /\ arg'[w].item = k
        /\ \A v \in Workers \ {w} : arg'[v] = arg[v]
        /\ UNCHANGED <<list, refused, freed, ran, dropped>>
    <3>1. arg'[w].item = k
      BY <1>1, <1>3 DEF Register, Args
    <3>2. \A v \in Workers \ {w} : arg'[v] = arg[v]
      BY <1>1, <1>3 DEF Register
    <3> QED
      BY <1>1, <1>3, <3>1, <3>2 DEF Register, Start, Goto, outcome
  <2>2. Linked' = Linked
    BY <1>2, <2>1
  <2>3. pc'[w] = "insert" /\ \A v \in Workers \ {w} : pc'[v] = pc[v]
    BY <1>1, <2>1
  <2>4. Created' = Created \cup {k} /\ Calling' = Calling
    <3>1. Created' = Created \cup {k}
      BY <2>1, <2>3 DEF Created, At
    <3>2. Calling' = Calling
      BY <2>1, <2>3 DEF Calling, At
    <3> QED
      BY <3>1, <3>2
  <2>5. 1..k = (1..Len(nick)) \cup {k} /\ k \notin 1..Len(nick)
    BY <1>1
  <2>6. 1..Len(nick') = Created' \cup Linked' \cup refused' \cup freed'
    BY <1>1, <2>1, <2>2, <2>4, <2>5 DEF Accounts
  <2>7. Linked' \cup refused' \cup freed' \subseteq 1..Len(nick')
    BY <1>1, <2>1, <2>2, <2>5 DEF Accounts
  <2>8. ASSUME NEW v \in Workers
        PROVE  /\ pc'[v] \in {"insert", "whois"} => arg'[v].item \in 1..Len(nick')
               /\ pc'[v] = "insert" => arg'[v].item \notin Linked' \cup refused' \cup freed'
               /\ pc'[v] = "call" => arg'[v].elem \notin ran' \cup dropped'
    <3>1. CASE v = w
      <4>1. k \in 1..Len(nick') /\ k \notin Linked \cup refused \cup freed
        BY <1>1, <2>1, <2>5 DEF Accounts
      <4> QED
        BY <2>1, <2>2, <2>3, <3>1, <4>1
    <3>2. CASE v # w
      BY <1>1, <2>1, <2>2, <2>3, <2>5, <3>2 DEF Accounts
    <3> QED
      BY <3>1, <3>2
  <2>9. ASSUME NEW u \in Workers, NEW v \in Workers, u # v
        PROVE  /\ pc'[u] = "insert" /\ pc'[v] = "insert" => arg'[u].item # arg'[v].item
               /\ pc'[u] = "call" /\ pc'[v] = "call" => arg'[u].elem # arg'[v].elem
    <3>1. \A x \in Workers \ {w} : pc'[x] = "insert" => arg'[x].item \in 1..Len(nick)
      BY <1>1, <2>1, <2>3 DEF Accounts
    <3>2. CASE u # w /\ v # w
      BY <1>1, <2>1, <2>3, <2>9, <3>2 DEF Accounts
    <3>3. CASE u = w \/ v = w
      BY <2>1, <2>3, <2>5, <2>9, <3>1, <3>3
    <3> QED
      BY <3>2, <3>3
  <2> QED
    BY <1>1, <2>1, <2>2, <2>4, <2>6, <2>7, <2>8, <2>9 DEF Accounts
<1>4. ASSUME NEW w \in Workers, InsertNext(w)
      PROVE  Accounts'
  <2> DEFINE k == arg[w].item
  <2>1. /\ pc[w] = "insert" /\ pc'[w] = "whois" /\ \A v \in Workers \ {w} : pc'[v] = pc[v]
        /\ UNCHANGED <<freed, nick, arg, ran, dropped>>
    BY <1>1, <1>4 DEF InsertNext, Goto, outcome
  <2>2. \/ Linked' = Linked /\ refused' = refused \cup {k}
        \/ Linked' = Linked \cup {k} /\ refused' = refused
    BY <1>2, <1>4, InsertLinks
  <2>3. k \in 1..Len(nick) /\ k \notin Linked \cup refused \cup freed
    BY <1>1, <2>1 DEF Accounts
  <2>4. Created' = Created \ {k}
    <3>1. \A v \in Workers \ {w} : pc[v] = "insert" => arg[v].item # k
      BY <1>1, <2>1 DEF Accounts
    <3> QED
      BY <2>1, <3>1 DEF Created, At
  <2>5. Calling' = Calling
    BY <2>1 DEF Calling, At
  <2>6. \A v \in Workers \ {w} : pc[v] = "insert" => arg[v].item # k
    BY <1>1, <2>1 DEF Accounts
  <2>7. 1..Len(nick) = Created' \cup Linked' \cup refused' \cup freed'
    <3>1. k \in Created
      BY <2>1 DEF Created, At
    <3> QED
      BY <1>1, <2>1, <2>2, <2>4, <3>1 DEF Accounts
  <2>8. Linked' \cup refused' \cup freed' \subseteq 1..Len(nick)
    BY <1>1, <2>1, <2>2, <2>3 DEF Accounts
  <2>9. Linked' \cap refused' = {} /\ Linked' \cap freed' = {} /\ refused' \cap freed' = {}
    BY <1>1, <2>1, <2>2, <2>3 DEF Accounts
  <2>10. ASSUME NEW v \in Workers
         PROVE  /\ pc'[v] \in {"insert", "whois"} => arg'[v].item \in 1..Len(nick')
                /\ pc'[v] = "insert" => arg'[v].item \notin Linked' \cup refused' \cup freed'
                /\ pc'[v] = "call" => arg'[v].elem \notin ran' \cup dropped'
    BY <1>1, <2>1, <2>2, <2>3, <2>6 DEF Accounts
  <2>11. \A u, v \in Workers : u # v =>
            /\ pc'[u] = "insert" /\ pc'[v] = "insert" => arg'[u].item # arg'[v].item
            /\ pc'[u] = "call" /\ pc'[v] = "call" => arg'[u].elem # arg'[v].elem
    BY <1>1, <2>1 DEF Accounts
  <2> QED
    BY <1>1, <2>1, <2>5, <2>7, <2>8, <2>9, <2>10, <2>11 DEF Accounts
<1>5. ASSUME NEW w \in Workers, Remove(w)
      PROVE  Accounts'
  <2> DEFINE k == arg[w].elem
  <2>1. /\ pc[w] = "remove" /\ UNCHANGED <<refused, nick, ran>>
        /\ \A v \in Workers \ {w} : pc'[v] = pc[v] /\ arg'[v] = arg[v]
    <3>1. pc[w] = "remove" /\ UNCHANGED <<refused, nick, ran>>
      BY <1>5 DEF Remove
    <3>2. \/ Return(w, "remove")
          \/ Goto(w, "remove", "call") /\ arg' = arg
      BY <1>5 DEF Remove
    <3> QED
      BY <1>1, <3>1, <3>2 DEF Return, Goto
  <2>2. CASE list' = list /\ freed' = freed /\ dropped' = dropped /\ Return(w, "remove")
    <3>1. pc'[w] = "idle"
      BY <1>1, <2>2 DEF Return, Goto
    <3> QED
      BY <1>1, <1>2, <2>1, <2>2, <3>1, AccountsStay
  <2>3. CASE /\ k \in Linked /\ k \notin freed
             /\ Linked' = Linked \ {k}
             /\ freed' = freed \cup {k}
             /\ \/ Goto(w, "remove", "call") /\ arg' = arg /\ dropped' = dropped
                \/ Return(w, "remove") /\ dropped' = dropped \cup {k}
    <3>1. \/ /\ pc'[w] = "call" /\ arg'[w].elem = k /\ dropped' = dropped
             /\ Calling' = Calling \cup {k}
          \/ pc'[w] = "idle" /\ dropped' = dropped \cup {k} /\ Calling' = Calling
      <4>1. CASE Goto(w, "remove", "call") /\ arg' = arg /\ dropped' = dropped
        <5>1. pc'[w] = "call" /\ arg'[w].elem = k
          BY <1>1, <4>1 DEF Goto
        <5>2. Calling' = Calling \cup {k}
          BY <2>1, <5>1 DEF Calling, At
        <5> QED
          BY <4>1, <5>1, <5>2
      <4>2. CASE Return(w, "remove") /\ dropped' = dropped \cup {k}
        <5>1. pc'[w] = "idle"
          BY <1>1, <4>2 DEF Return, Goto
        <5>2. Calling' = Calling
          BY <2>1, <5>1 DEF Calling, At
        <5> QED
          BY <4>2, <5>1, <5>2
      <4> QED
        BY <2>3, <4>1, <4>2
    <3>2. Created' = Created
      BY <2>1, <3>1 DEF Created, At
    <3>3. k \notin Calling \cup ran \cup dropped /\ k \notin refused /\ k \in 1..Len(nick)
      BY <1>1, <2>3 DEF Accounts
    <3>4. freed' = Calling' \cup ran' \cup dropped'
      BY <1>1, <2>1, <2>3, <3>1 DEF Accounts
    <3>5. ran' \cap dropped' = {}
      BY <1>1, <2>1, <3>1, <3>3 DEF Accounts
    <3>6. 1..Len(nick') = Created' \cup Linked' \cup refused' \cup freed'
      BY <1>1, <2>1, <2>3, <3>2 DEF Accounts
    <3>7. Linked' \cup refused' \cup freed' \subseteq 1..Len(nick')
      BY <1>1, <2>1, <2>3, <3>3 DEF Accounts
    <3>8. Linked' \cap refused' = {} /\ Linked' \cap freed' = {} /\ refused' \cap freed' = {}
      BY <1>1, <2>1, <2>3, <3>3 DEF Accounts
    <3>9. ASSUME NEW v \in Workers, v # w
          PROVE  /\ pc'[v] \in {"insert", "whois"} => arg'[v].item \in 1..Len(nick')
                 /\ pc'[v] = "insert" => arg'[v].item \notin Linked' \cup refused' \cup freed'
                 /\ pc'[v] = "call" => arg'[v].elem \notin ran' \cup dropped' \cup {k}
      <4>1. pc[v] = "call" => arg[v].elem \in Calling
        BY DEF Calling, At
      <4> QED
        BY <1>1, <2>1, <2>3, <3>1, <3>3, <3>9, <4>1 DEF Accounts
    <3>10. /\ pc'[w] \notin {"insert", "whois"}
           /\ pc'[w] = "call" => arg'[w].elem = k /\ k \notin ran' \cup dropped'
      BY <2>1, <3>1, <3>3
    <3>11. \A v \in Workers :
              /\ pc'[v] \in {"insert", "whois"} => arg'[v].item \in 1..Len(nick')
              /\ pc'[v] = "insert" => arg'[v].item \notin Linked' \cup refused' \cup freed'
              /\ pc'[v] = "call" => arg'[v].elem \notin ran' \cup dropped'
      BY <3>9, <3>10
    <3>12. \A u, v \in Workers : u # v =>
              /\ pc'[u] = "insert" /\ pc'[v] = "insert" => arg'[u].item # arg'[v].item
              /\ pc'[u] = "call" /\ pc'[v] = "call" => arg'[u].elem # arg'[v].elem
      <4> SUFFICES ASSUME NEW u \in Workers, NEW v \in Workers, u # v
                   PROVE  /\ pc'[u] = "insert" /\ pc'[v] = "insert" => arg'[u].item # arg'[v].item
                          /\ pc'[u] = "call" /\ pc'[v] = "call" => arg'[u].elem # arg'[v].elem
        OBVIOUS
      <4>1. CASE u # w /\ v # w
        BY <1>1, <2>1, <4>1 DEF Accounts
      <4>2. CASE u = w
        BY <3>9, <3>10, <4>2
      <4>3. CASE v = w
        BY <3>9, <3>10, <4>3
      <4> QED
        BY <4>1, <4>2, <4>3
    <3> QED
      BY <3>4, <3>5, <3>6, <3>7, <3>8, <3>11, <3>12 DEF Accounts
  <2> QED
    BY <1>5, <2>2, <2>3, RemoveStep
<1>6. ASSUME NEW w \in Workers, Call(w)
      PROVE  Accounts'
  <2> DEFINE k == arg[w].elem
  <2>1. /\ pc[w] = "call" /\ pc'[w] = "idle" /\ ran' = ran \cup {k}
        /\ \A v \in Workers \ {w} : pc'[v] = pc[v] /\ arg'[v] = arg[v]
        /\ UNCHANGED <<list, refused, freed, nick, dropped>>
    BY <1>1, <1>6 DEF Call, Return, Goto
  <2>2. Linked' = Linked
    BY <1>2, <2>1
  <2>3. Created' = Created
    BY <2>1 DEF Created, At
  <2>4. k \in Calling /\ Calling' = Calling \ {k}
    <3>1. \A v \in Workers \ {w} : pc[v] = "call" => arg[v].elem # k
      BY <1>1, <2>1 DEF Accounts
    <3> QED
      BY <2>1, <3>1 DEF Calling, At
  <2>5. k \notin dropped
    BY <1>1, <2>1 DEF Accounts
  <2>6. freed' = Calling' \cup ran' \cup dropped' /\ ran' \cap dropped' = {}
    BY <1>1, <2>1, <2>4, <2>5 DEF Accounts
  <2>7. \A v \in Workers :
           /\ pc'[v] \in {"insert", "whois"} => arg'[v].item \in 1..Len(nick')
           /\ pc'[v] = "insert" => arg'[v].item \notin Linked' \cup refused' \cup freed'
           /\ pc'[v] = "call" => arg'[v].elem \notin ran' \cup dropped'
    BY <1>1, <2>1, <2>2 DEF Accounts
  <2>8. \A u, v \in Workers : u # v =>
           /\ pc'[u] = "insert" /\ pc'[v] = "insert" => arg'[u].item # arg'[v].item
           /\ pc'[u] = "call" /\ pc'[v] = "call" => arg'[u].elem # arg'[v].elem
    BY <1>1, <2>1 DEF Accounts
  <2> QED
    BY <1>1, <2>1, <2>2, <2>3, <2>6, <2>7, <2>8 DEF Accounts
<1>7. ASSUME NEW w \in Workers, Whois(w) \/ Handle(w) \/ Search(w)
      PROVE  Accounts'
  <2>1. /\ UNCHANGED <<list, refused, freed, nick, ran, dropped>>
        /\ pc[w] \notin {"insert", "call"} /\ pc'[w] \notin {"insert", "call", "whois"}
        /\ \A v \in Workers \ {w} : pc'[v] = pc[v] /\ arg'[v] = arg[v]
    <3>1. CASE Whois(w)
      BY <1>1, <3>1 DEF Whois, Goto, outcome
    <3>2. CASE Handle(w)
      BY <1>1, <3>2 DEF Handle, Start, Goto, outcome
    <3>3. CASE Search(w)
      BY <1>1, <3>3 DEF Search, Return, Goto, outcome
    <3> QED
      BY <1>7, <3>1, <3>2, <3>3
  <2> QED
    BY <1>1, <1>2, <2>1, AccountsStay
<1>8. CASE ServerAnswers \/ (\E n \in Nicks : NoSuchNick(n)) \/ Close \/ UNCHANGED vars
  <2>1. UNCHANGED <<list, refused, freed, nick, ran, dropped, pc, arg>>
    BY <1>8 DEF ServerAnswers, Answer, NoSuchNick, Close, vars, outcome
  <2> QED
    BY <1>1, <1>2, <2>1, AccountsStay
<1>9. CASE DestroyTail
  <2>1. /\ \A w \in Workers : pc[w] = "idle" /\ pc'[w] = "idle"
        /\ UNCHANGED <<refused, nick, ran>>
    BY <1>9 DEF DestroyTail, ListInv, Resting
  <2>2. /\ list.tail \in Linked /\ list.tail \notin freed
        /\ freed' = freed \cup {list.tail} /\ dropped' = dropped \cup {list.tail}
        /\ Linked' = Linked \ {list.tail}
    BY <1>9, DestroyStep
  <2>3. Created = {} /\ Created' = {} /\ Calling = {} /\ Calling' = {}
    BY <2>1 DEF Created, Calling, At
  <2> QED
    BY <1>1, <2>1, <2>2, <2>3 DEF Accounts
<1> QED
  BY <1>3, <1>4, <1>5, <1>6, <1>7, <1>8, <1>9 DEF Next, Handler

\* What was in the list is in it, or freed; the head changes only when it goes.
LEMMA ListGoesOn ==
    ASSUME ListInv, [Next]_vars, ~broken, ~broken'
    PROVE  /\ Linked \cup freed \subseteq Linked' \cup freed' /\ freed \subseteq freed'
           /\ list'.head = list.head \/ list.head = Null \/ list.head \in freed'
           /\ \A i \in 1..Len(nick) : nick'[i] = nick[i]
<1>1. list' = list => Linked' = Linked
  BY DEF Linked
<1>2. CASE (\E w \in Workers, n \in Nicks : Register(w, n))
  <2>1. list' = list /\ freed' = freed
    BY <1>2 DEF Register
  <2>2. \A i \in 1..Len(nick) : nick'[i] = nick[i]
    BY <1>2, ItemsFit DEF Register
  <2> QED
    BY <1>1, <2>1, <2>2
<1>3. CASE Quiet /\ nick' = nick
  <2>1. list' = list /\ freed' = freed
    BY <1>3, QuietStays DEF ListInv
  <2> QED
    BY <1>1, <1>3, <2>1
<1>4. ASSUME NEW w \in Workers, InsertNext(w)
      PROVE  /\ Linked \cup freed \subseteq Linked' \cup freed' /\ freed \subseteq freed'
             /\ list'.head = list.head \/ list.head = Null \/ list.head \in freed'
             /\ nick' = nick
  <2>1. freed' = freed /\ nick' = nick
    BY <1>4 DEF InsertNext
  <2>2. Linked \subseteq Linked' /\ (list'.head = list.head \/ list.head = Null)
    BY <1>1, <1>4, InsertLinks, Ends
  <2> QED
    BY <2>1, <2>2
<1>5. ASSUME NEW w \in Workers, Remove(w)
      PROVE  /\ Linked \cup freed \subseteq Linked' \cup freed' /\ freed \subseteq freed'
             /\ list'.head = list.head \/ list.head = Null \/ list.head \in freed'
             /\ nick' = nick
  <2>1. nick' = nick
    BY <1>5 DEF Remove
  <2>2. \/ list' = list /\ freed' = freed
        \/ /\ Linked' = Linked \ {arg[w].elem} /\ freed' = freed \cup {arg[w].elem}
           /\ list'.head = list.head \/ arg[w].elem = list.head
    BY <1>5, RemoveStep
  <2> QED
    BY <1>1, <2>1, <2>2
<1>6. CASE DestroyTail
  <2>1. /\ freed' = freed \cup {list.tail} /\ Linked' = Linked \ {list.tail} /\ nick' = nick
        /\ list.tail \in Linked
    BY <1>6, DestroyStep DEF DestroyTail
  <2>2. list' = remove(list, list.tail)
    BY <1>6, <2>1, Ends DEF DestroyTail
  <2>3. list'.head = list.head \/ list.tail = list.head
    BY <1>6, <2>1, <2>2, RemoveLinks DEF DestroyTail
  <2> QED
    BY <2>1, <2>3
<1>7. CASE UNCHANGED vars
  BY <1>1, <1>7 DEF vars
<1>8. Quiet /\ ~(\E w \in Workers, n \in Nicks : Register(w, n)) => nick' = nick
  <2>1. \A w \in Workers : Whois(w) \/ Search(w) \/ Call(w) \/ Handle(w) => nick' = nick
    BY DEF Whois, Search, Call, Handle
  <2>2. ServerAnswers \/ (\E n \in Nicks : NoSuchNick(n)) \/ Close => nick' = nick
    BY DEF ServerAnswers, Answer, NoSuchNick, Close
  <2> QED
    BY <2>1, <2>2 DEF Quiet
<1> QED
  BY <1>2, <1>3, <1>4, <1>5, <1>6, <1>7, <1>8 DEF Next, Handler, Quiet

\* A thread that waits keeps a pointer to an element of the list, or to a freed one.
LEMMA HoldsStays ==
    ASSUME ListInv, [Next]_vars, ~broken, ~broken', NEW v \in Workers,
           pc'[v] = pc[v], arg'[v] = arg[v]
    PROVE  Holds(v)'
<1>1. Holds(v) /\ Accounts
  BY DEF ListInv
<1>2. /\ Linked \cup freed \subseteq Linked' \cup freed' /\ freed \subseteq freed'
      /\ list'.head = list.head \/ list.head = Null \/ list.head \in freed'
      /\ \A i \in 1..Len(nick) : nick'[i] = nick[i]
  BY ListGoesOn
<1>3. Linked \cup freed \subseteq 1..Len(nick)
  BY <1>1 DEF Accounts
<1> QED
  BY <1>1, <1>2, <1>3 DEF Holds

LEMMA HoldsStep ==
    ASSUME ListInv, [Next]_vars, ~broken, ~broken', NEW w \in Workers
    PROVE  Holds(w)'
<1>1. arg \in [Workers -> Args] /\ Holds(w)
      /\ pc \in [Workers -> {"idle", "insert", "whois", "search", "remove", "call"}]
  BY ItemsFit DEF ListInv
<1>2. CASE pc'[w] = pc[w] /\ arg'[w] = arg[w]
  BY <1>2, HoldsStays
<1>3. CASE pc'[w] \in {"idle", "whois"}
  BY <1>3 DEF Holds
<1>4. ASSUME NEW n \in Nicks, Register(w, n)
      PROVE  Holds(w)'
  <2>1. pc'[w] = "insert" /\ arg'[w].elem = list.tail /\ list' = list
    BY <1>1, <1>4 DEF Register, Start, Goto, Args
  <2>2. list.tail \in {Null} \cup Linked
    <3>1. CASE list.size = 0
      <4>1. PICK s : Order(list, s)
        BY DEF ListInv, Shape
      <4>2. list.tail = Nth(list, s, list.size)
        BY <4>1 DEF Order
      <4> QED
        BY <3>1, <4>2 DEF Nth
    <3>2. CASE list.size # 0
      BY <3>2, Ends
    <3> QED
      BY <3>1, <3>2
  <2>3. Linked' = Linked
    BY <2>1 DEF Linked
  <2> QED
    BY <2>1, <2>2, <2>3 DEF Holds
<1>5. CASE Handle(w)
  <2>1. pc'[w] = "search" /\ arg'[w].elem = list.head /\ list' = list
        /\ arg'[w].answer = <<Head(answers)>>
    BY <1>1, <1>5 DEF Handle, Start, Goto, Args
  <2>2. <<Head(answers)>> # <<>>
    OBVIOUS
  <2> QED
    BY <2>1, <2>2 DEF Holds
<1>6. CASE Search(w) /\ pc'[w] # "idle"
  <2> DEFINE n == arg[w].answer[1].nick
             hit == search(list, arg[w].elem, n)
  <2>1. hit # Null /\ Goto(w, "search", "remove") /\ arg' = [arg EXCEPT ![w].elem = hit]
    <3>1. hit = Null => Return(w, "search")
      BY <1>6 DEF Search
    <3>2. hit # Null
      BY <1>1, <1>6, <3>1 DEF Return, Goto
    <3> QED
      BY <1>6, <3>2 DEF Search
  <2>2. list' = list /\ freed' = freed /\ nick' = nick /\ broken' = (list.size # 0 /\ arg[w].elem \in freed)
        /\ pc[w] = "search"
    BY <1>6 DEF Search
  <2>3. arg[w].elem \in {Null, list.head} \cup freed /\ arg[w].elem \in Pointers
        /\ arg[w].answer # <<>>
    BY <1>1, <2>2 DEF Holds, Args
  <2>4. PICK s : Order(list, s)
    BY DEF ListInv, Shape
  <2>5. arg[w].elem # Null /\ list.size # 0 /\ nick[hit] = n
    BY <2>1, <2>3, <2>4, SearchFinds
  <2>6. arg[w].elem = list.head
    BY <2>2, <2>3, <2>5
  <2>7. hit \in Linked
    BY <2>1, <2>3, <2>4, <2>6, SearchFinds, Ends
  <2> HIDE DEF hit
  <2>8. arg'[w].elem = hit /\ arg'[w].answer = arg[w].answer /\ pc'[w] = "remove"
    BY <1>1, <2>1 DEF Goto, Args
  <2>9. Linked' = Linked
    BY <2>2 DEF Linked
  <2> QED
    BY <2>2, <2>3, <2>5, <2>7, <2>8, <2>9 DEF Holds
<1>7. CASE Remove(w) /\ pc'[w] # "idle"
  <2>1. Goto(w, "remove", "call") /\ arg' = arg
    BY <1>1, <1>7 DEF Remove, Return, Goto
  <2>2. pc[w] = "remove" /\ pc'[w] = "call"
    BY <1>1, <2>1 DEF Goto
  <2> QED
    BY <1>1, <2>1, <2>2 DEF Holds
<1>8. \/ pc'[w] = pc[w] /\ arg'[w] = arg[w]
      \/ pc'[w] \in {"idle", "whois"}
      \/ \E n \in Nicks : Register(w, n)
      \/ Handle(w)
      \/ Search(w) \/ Remove(w)
  <2>1. CASE \E v \in Workers \ {w} : Handler(v) \/ \E n \in Nicks : Register(v, n)
    <3>1. PICK v \in Workers \ {w} : Handler(v) \/ \E n \in Nicks : Register(v, n)
      BY <2>1
    <3>2. CASE \E n \in Nicks : Register(v, n)
      BY <1>1, <3>2 DEF Register, Start, Goto
    <3>3. CASE InsertNext(v) \/ Whois(v) \/ Call(v)
      BY <1>1, <3>3 DEF InsertNext, Whois, Call, Return, Goto
    <3>4. CASE Search(v)
      BY <1>1, <3>4 DEF Search, Return, Goto
    <3>5. CASE Remove(v)
      BY <1>1, <3>5 DEF Remove, Return, Goto
    <3>6. CASE Handle(v)
      BY <1>1, <3>6 DEF Handle, Start, Goto
    <3> QED
      BY <3>1, <3>2, <3>3, <3>4, <3>5, <3>6 DEF Handler
  <2>2. CASE Whois(w) \/ Call(w) \/ InsertNext(w)
    BY <1>1, <2>2 DEF Whois, Call, InsertNext, Return, Goto
  <2>3. CASE ServerAnswers \/ (\E n \in Nicks : NoSuchNick(n)) \/ Close \/ DestroyTail \/ UNCHANGED vars
    BY <2>3 DEF ServerAnswers, Answer, NoSuchNick, Close, DestroyTail, vars
  <2> QED
    BY <2>1, <2>2, <2>3 DEF Next, Handler
<1> QED
  BY <1>2, <1>3, <1>4, <1>5, <1>6, <1>7, <1>8

-----------------------------------------------------------------------------
(* Counting. *)

\* The places of a sequence whose members are in T.
Places(q, T) == {i \in DOMAIN q : q[i] \in T}

\* A set with one element more.
LEMMA OneMore ==
    ASSUME NEW S, NEW x, IsFiniteSet(S)
    PROVE  /\ IsFiniteSet(S \cup {x}) /\ Cardinality(S) \in Nat
           /\ Cardinality(S \cup {x}) = Cardinality(S) + (IF x \in S THEN 0 ELSE 1)
           /\ IsFiniteSet(S \ {x})
           /\ Cardinality(S \ {x}) = Cardinality(S) - (IF x \in S THEN 1 ELSE 0)
<1>1. IsFiniteSet(S \cup {x}) /\ Cardinality(S \cup {x}) = IF x \in S THEN Cardinality(S) ELSE Cardinality(S) + 1
  BY FS_AddElement, Zenon
<1>2. IsFiniteSet(S \ {x}) /\ Cardinality(S \ {x}) = IF x \in S THEN Cardinality(S) - 1 ELSE Cardinality(S)
  BY FS_RemoveElement, Zenon
<1>3. Cardinality(S) \in Nat
  BY FS_CardinalityType
<1> QED
  BY <1>1, <1>2, <1>3

LEMMA CountAppend ==
    ASSUME NEW S, NEW q \in Seq(S), NEW x \in S, NEW T
    PROVE  /\ IsFiniteSet(Places(q, T)) /\ Cardinality(Places(q, T)) \in Nat
           /\ Cardinality(Places(Append(q, x), T)) \in Nat
           /\ Cardinality(Places(Append(q, x), T))
                = Cardinality(Places(q, T)) + (IF x \in T THEN 1 ELSE 0)
<1>1. DOMAIN q = 1..Len(q) /\ Len(q) \in Nat
  OBVIOUS
<1>2. IsFiniteSet(1..Len(q)) /\ Places(q, T) \subseteq 1..Len(q)
  BY <1>1, FS_Interval DEF Places
<1>3. IsFiniteSet(Places(q, T)) /\ Cardinality(Places(q, T)) \in Nat
  BY <1>2, FS_Subset, FS_CardinalityType
<1>4. /\ DOMAIN Append(q, x) = (1..Len(q)) \cup {Len(q) + 1}
      /\ Append(q, x)[Len(q) + 1] = x
      /\ \A i \in 1..Len(q) : Append(q, x)[i] = q[i]
      /\ Len(q) + 1 \notin 1..Len(q)
  BY <1>1
<1>5. Len(q) + 1 \notin Places(q, T)
  BY <1>2, <1>4
<1>6. CASE x \in T
  <2>1. Places(Append(q, x), T) = Places(q, T) \cup {Len(q) + 1}
    BY <1>1, <1>4, <1>6 DEF Places
  <2> QED
    BY <1>3, <1>5, <1>6, <2>1, OneMore
<1>7. CASE x \notin T
  <2>1. Places(Append(q, x), T) = Places(q, T)
    BY <1>1, <1>4, <1>7 DEF Places
  <2> QED
    BY <1>3, <1>7, <2>1
<1> QED
  BY <1>3, <1>6, <1>7

LEMMA CountTail ==
    ASSUME NEW S, NEW q \in Seq(S), q # <<>>, NEW T
    PROVE  /\ Cardinality(Places(q, T)) \in Nat
           /\ Cardinality(Places(Tail(q), T)) \in Nat
           /\ Cardinality(Places(Tail(q), T))
                = Cardinality(Places(q, T)) - (IF Head(q) \in T THEN 1 ELSE 0)
<1> DEFINE A == Places(Tail(q), T)
           B == Places(q, T) \ {1}
           f == [i \in A |-> i + 1]
<1>1. /\ DOMAIN q = 1..Len(q) /\ Len(q) \in Nat /\ Len(q) # 0 /\ Head(q) = q[1]
      /\ DOMAIN Tail(q) = 1..(Len(q) - 1)
      /\ \A i \in 1..(Len(q) - 1) : Tail(q)[i] = q[i + 1]
  OBVIOUS
<1>2. IsFiniteSet(1..Len(q)) /\ Places(q, T) \subseteq 1..Len(q)
  BY <1>1, FS_Interval DEF Places
<1>3. IsFiniteSet(Places(q, T)) /\ Cardinality(Places(q, T)) \in Nat
  BY <1>2, FS_Subset, FS_CardinalityType
<1>4. A \subseteq Nat /\ \A i \in A : i + 1 \in B
  <2> SUFFICES ASSUME NEW i \in A PROVE i \in Nat /\ i + 1 \in B
    OBVIOUS
  <2>1. i \in 1..(Len(q) - 1) /\ q[i + 1] \in T
    BY <1>1 DEF Places
  <2>2. i \in Nat /\ i + 1 \in 1..Len(q) /\ i + 1 # 1
    BY <1>1, <2>1
  <2> QED
    BY <1>1, <2>1, <2>2 DEF Places
<1>5. \A j \in B : j - 1 \in A /\ (j - 1) + 1 = j
  <2> SUFFICES ASSUME NEW j \in B PROVE j - 1 \in A /\ (j - 1) + 1 = j
    OBVIOUS
  <2>1. j \in 1..Len(q) /\ j # 1 /\ q[j] \in T
    BY <1>1 DEF Places
  <2>2. j - 1 \in 1..(Len(q) - 1) /\ (j - 1) + 1 = j
    BY <1>1, <2>1
  <2> QED
    BY <1>1, <2>1, <2>2 DEF Places
<1> HIDE DEF A, B
<1>6. f \in Bijection(A, B)
  <2>1. f \in [A -> B]
    BY <1>4
  <2>2. \A i, j \in A : f[i] = f[j] => i = j
    BY <1>4
  <2>3. \A j \in B : \E i \in A : f[i] = j
    BY <1>5
  <2> HIDE DEF f
  <2> QED
    BY <2>1, <2>2, <2>3 DEF Bijection, Injection, Surjection, IsInjective
<1>7. IsFiniteSet(B) /\ Cardinality(B) \in Nat
      /\ Cardinality(B) = Cardinality(Places(q, T)) - (IF 1 \in Places(q, T) THEN 1 ELSE 0)
  <2>1. IsFiniteSet(Places(q, T) \ {1})
        /\ Cardinality(Places(q, T) \ {1}) = Cardinality(Places(q, T)) - (IF 1 \in Places(q, T) THEN 1 ELSE 0)
    BY <1>3, OneMore
  <2>2. Cardinality(Places(q, T) \ {1}) \in Nat
    BY <2>1, FS_CardinalityType
  <2> QED
    BY <2>1, <2>2 DEF B
<1>8. Cardinality(A) = Cardinality(B)
  <2>1. ExistsBijection(A, B)
    BY <1>6, Zenon DEF ExistsBijection
  <2>2. IsFiniteSet(A)
    <3>1. IsFiniteSet(1..(Len(q) - 1)) /\ A \subseteq 1..(Len(q) - 1)
      BY <1>1, FS_Interval DEF A, Places
    <3> QED
      BY <3>1, FS_Subset
  <2> QED
    BY <2>1, <2>2, FS_Bijection, Zenon
<1>9. 1 \in Places(q, T) <=> Head(q) \in T
  BY <1>1 DEF Places
<1> QED
  BY <1>3, <1>7, <1>8, <1>9 DEF A

-----------------------------------------------------------------------------
(* An answer for every item of the list. *)

\* The answers for n.
For(n) == {a \in [nick : Nicks, found : BOOLEAN] : a.nick = n}

LEMMA AnswerPlaces ==
    ASSUME NEW q \in Seq([nick : Nicks, found : BOOLEAN]), NEW n
    PROVE  {i \in DOMAIN q : q[i].nick = n} = Places(q, For(n))
<1>1. \A i \in DOMAIN q : q[i] \in [nick : Nicks, found : BOOLEAN]
  <2> DEFINE Ans == [nick : Nicks, found : BOOLEAN]
  <2>1. q \in Seq(Ans)
    OBVIOUS
  <2> HIDE DEF Ans
  <2>2. \A i \in DOMAIN q : q[i] \in Ans
    BY <2>1
  <2> QED
    BY <2>2 DEF Ans
<1> QED
  BY <1>1 DEF Places, For

\* What is counted is finite.
LEMMA CoverSets ==
    ASSUME ListInv, NEW n
    PROVE  /\ IsFiniteSet(Pending(n)) /\ Cardinality(Pending(n)) \in Nat
           /\ IsFiniteSet(Asking(n)) /\ Cardinality(Asking(n)) \in Nat
           /\ IsFiniteSet(Working(n)) /\ Cardinality(Working(n)) \in Nat
           /\ AskedFor(n) = Places(asked, {n}) /\ AnswersFor(n) = Places(answers, For(n))
<1>1. IsFiniteSet(Elements) /\ IsFiniteSet(Workers)
  BY FS_Interval, BoundsAssumption DEF Elements
<1>2. Pending(n) \subseteq Elements
  BY Ends DEF Pending
<1>3. Asking(n) \subseteq Workers /\ Working(n) \subseteq Workers
  BY DEF Asking, At, Working
<1>4. IsFiniteSet(Pending(n)) /\ IsFiniteSet(Asking(n)) /\ IsFiniteSet(Working(n))
  BY <1>1, <1>2, <1>3, FS_Subset
<1>5. AskedFor(n) = Places(asked, {n})
  BY DEF AskedFor, Places
<1>6. AnswersFor(n) = Places(answers, For(n))
  BY AnswerPlaces DEF AnswersFor, ListInv, TypeOK
<1> QED
  BY <1>4, <1>5, <1>6, FS_CardinalityType

\* An empty list asks for nothing.
LEMMA NothingPending ==
    ASSUME ListInv, NEW n, [Next]_vars, Pending(n)' = {}
    PROVE  Covered(n)'
<1>1. IsFiniteSet(Asking(n)') /\ IsFiniteSet(Working(n)')
  <2>1. Asking(n)' \subseteq Workers /\ Working(n)' \subseteq Workers
    BY DEF Asking, At, Working
  <2> QED
    BY <2>1, FS_Subset, BoundsAssumption
<1>2. IsFiniteSet(AskedFor(n)') /\ IsFiniteSet(AnswersFor(n)')
  <2>1. Len(asked') \in Nat /\ Len(answers') \in Nat
        /\ DOMAIN asked' = 1..Len(asked') /\ DOMAIN answers' = 1..Len(answers')
    BY TypeStep DEF TypeOK
  <2>2. AskedFor(n)' \subseteq 1..Len(asked') /\ AnswersFor(n)' \subseteq 1..Len(answers')
    BY <2>1 DEF AskedFor, AnswersFor
  <2>3. IsFiniteSet(1..Len(asked')) /\ IsFiniteSet(1..Len(answers'))
    BY <2>1, FS_Interval
  <2> QED
    BY <2>2, <2>3, FS_Subset
<1>3. /\ Cardinality(Asking(n)') \in Nat /\ Cardinality(Working(n)') \in Nat
      /\ Cardinality(AskedFor(n)') \in Nat /\ Cardinality(AnswersFor(n)') \in Nat
  BY <1>1, <1>2, FS_CardinalityType
<1>4. Cardinality(Pending(n)') = 0
  BY FS_EmptySet
<1> QED
  BY <1>3, <1>4 DEF Covered

\* The steps that neither bring nor take an item or an answer.
LEMMA CoveredStays ==
    ASSUME NEW n, Covered(n), UNCHANGED <<asked, answers>>,
           Pending(n)' = Pending(n), Asking(n)' = Asking(n), Working(n)' = Working(n)
    PROVE  Covered(n)'
<1>1. AskedFor(n)' = AskedFor(n) /\ AnswersFor(n)' = AnswersFor(n)
  BY DEF AskedFor, AnswersFor
<1> QED
  BY <1>1 DEF Covered

LEMMA CoveredStep ==
    ASSUME ListInv, [Next]_vars, ~broken, ~broken', ~closing', NEW n \in Nicks
    PROVE  Covered(n)'
<1> DEFINE p == Cardinality(Pending(n))
           a == Cardinality(AskedFor(n))
           b == Cardinality(AnswersFor(n))
           c == Cardinality(Asking(n))
           d == Cardinality(Working(n))
           Ans == [nick : Nicks, found : BOOLEAN]
<1>1. /\ Accounts /\ nick \in Seq(Nicks) /\ Len(nick) \in Nat /\ arg \in [Workers -> Args]
      /\ pc \in [Workers -> {"idle", "insert", "whois", "search", "remove", "call"}]
      /\ asked \in Seq(Nicks) /\ answers \in Seq(Ans)
  BY DEF ListInv, TypeOK
<1>2. /\ IsFiniteSet(Pending(n)) /\ p \in Nat
      /\ IsFiniteSet(Asking(n)) /\ c \in Nat
      /\ IsFiniteSet(Working(n)) /\ d \in Nat
      /\ AskedFor(n) = Places(asked, {n}) /\ AnswersFor(n) = Places(answers, For(n))
  BY CoverSets
<1>3. a \in Nat /\ b \in Nat
  <2>1. Cardinality(Places(asked, {n})) \in Nat
    BY <1>1, CountAppend
  <2>2. \E x \in Ans : TRUE
    <3>1. [nick |-> n, found |-> TRUE] \in Ans
      OBVIOUS
    <3> QED
      BY <3>1
  <2> HIDE DEF Ans
  <2>3. Cardinality(Places(answers, For(n))) \in Nat
    BY <1>1, <2>2, CountAppend
  <2> QED
    BY <1>2, <2>1, <2>3
<1>4. AskedFor(n)' = Places(asked', {n}) /\ AnswersFor(n)' = Places(answers', For(n))
  <2>1. AskedFor(n)' = Places(asked', {n})
    BY DEF AskedFor, Places
  <2>2. answers' \in Seq(Ans)
    BY TypeStep DEF TypeOK
  <2>3. AnswersFor(n)' = {i \in DOMAIN answers' : answers'[i].nick = n}
    BY DEF AnswersFor
  <2> QED
    BY <2>1, <2>2, <2>3, AnswerPlaces
<1>5. list' = list => Linked' = Linked
  BY DEF Linked
<1>6. list.size = 0 => Pending(n) = {}
  BY Ends DEF Pending
<1>7. ~closing => p <= a + b + c + d
  BY DEF ListInv, Covered
<1>8. ASSUME NEW w \in Workers, NEW m \in Nicks, Register(w, m)
      PROVE  Covered(n)'
  <2>1. /\ pc[w] = "idle" /\ pc'[w] = "insert" /\ ~closing
        /\ \A v \in Workers \ {w} : pc'[v] = pc[v] /\ arg'[v] = arg[v]
        /\ UNCHANGED <<list, asked, answers>>
    BY <1>1, <1>8 DEF Register, Start, Goto
  <2>2. \A i \in 1..Len(nick) : nick'[i] = nick[i]
    BY <1>1, <1>8 DEF Register
  <2>3. Pending(n)' = Pending(n)
    <3>1. Linked' = Linked /\ Linked \subseteq 1..Len(nick)
      BY <1>1, <1>5, <2>1 DEF Accounts
    <3> QED
      BY <2>2, <3>1 DEF Pending
  <2>4. Asking(n)' = Asking(n)
    <3>1. \A v \in At({"whois"}) : arg[v].item \in 1..Len(nick)
      BY <1>1 DEF Accounts, At
    <3>2. At({"whois"})' = At({"whois"}) /\ \A v \in At({"whois"}) : arg'[v] = arg[v]
      BY <2>1 DEF At
    <3> QED
      BY <2>2, <3>1, <3>2 DEF Asking
  <2>5. Working(n)' = Working(n)
    BY <2>1 DEF Working, Counts
  <2>6. Covered(n)
    BY <2>1 DEF ListInv
  <2> QED
    BY <2>1, <2>3, <2>4, <2>5, <2>6, CoveredStays
<1>9. ASSUME NEW w \in Workers, InsertNext(w)
      PROVE  Covered(n)'
  <2> DEFINE k == arg[w].item
  <2>1. /\ pc[w] = "insert" /\ pc'[w] = "whois" /\ closing' = closing
        /\ \A v \in Workers \ {w} : pc'[v] = pc[v]
        /\ UNCHANGED <<nick, arg, asked, answers>>
    BY <1>1, <1>9 DEF InsertNext, Goto
  <2>2. Linked' = Linked \/ Linked' = Linked \cup {k}
    BY <1>5, <1>9, InsertLinks
  <2>3. k \notin Linked /\ w \notin Asking(n)
    BY <1>1, <2>1 DEF Accounts, Asking, At
  <2>4. Working(n)' = Working(n)
    BY <2>1 DEF Working, Counts
  <2>5. AskedFor(n)' = AskedFor(n) /\ AnswersFor(n)' = AnswersFor(n)
    BY <2>1 DEF AskedFor, AnswersFor
  <2>6. CASE nick[k] = n
    <3>1. Asking(n)' = Asking(n) \cup {w}
      BY <2>1, <2>6 DEF Asking, At
    <3>2. Cardinality(Asking(n)') = c + 1
      BY <1>2, <2>3, <3>1, OneMore
    <3>3. Pending(n)' = Pending(n) \/ Pending(n)' = Pending(n) \cup {k}
      BY <2>1, <2>2, <2>6 DEF Pending
    <3>4. Cardinality(Pending(n)') \in Nat /\ Cardinality(Pending(n)') <= p + 1
      <4>1. CASE Pending(n)' = Pending(n)
        BY <1>2, <4>1
      <4>2. CASE Pending(n)' = Pending(n) \cup {k}
        <5>1. k \notin Pending(n)
          BY <2>3 DEF Pending
        <5> QED
          BY <1>2, <4>2, <5>1, OneMore
      <4> QED
        BY <3>3, <4>1, <4>2
    <3> QED
      BY <1>2, <1>3, <1>7, <2>1, <2>4, <2>5, <3>2, <3>4 DEF Covered
  <2>7. CASE nick[k] # n
    <3>1. Asking(n)' = Asking(n) /\ Pending(n)' = Pending(n)
      BY <2>1, <2>2, <2>7 DEF Asking, At, Pending
    <3>2. Covered(n)
      BY <2>1 DEF ListInv
    <3> QED
      BY <2>1, <2>4, <3>1, <3>2, CoveredStays
  <2> QED
    BY <2>6, <2>7
<1>10. ASSUME NEW w \in Workers, Whois(w)
       PROVE  Covered(n)'
  <2> DEFINE m == nick[arg[w].item]
  <2>1. /\ pc[w] = "whois" /\ pc'[w] = "idle" /\ closing' = closing
        /\ \A v \in Workers \ {w} : pc'[v] = pc[v] /\ arg'[v] = arg[v]
        /\ UNCHANGED <<list, nick, answers>> /\ asked' = Append(asked, m)
    BY <1>1, <1>10 DEF Whois, Goto
  <2>2. m \in Nicks
    <3>1. arg[w].item \in 1..Len(nick)
      BY <1>1, <2>1 DEF Accounts
    <3> QED
      BY <1>1, <3>1
  <2>3. Pending(n)' = Pending(n) /\ Working(n)' = Working(n) /\ AnswersFor(n)' = AnswersFor(n)
    BY <1>5, <2>1 DEF Pending, Working, Counts, AnswersFor
  <2>4. Asking(n)' = Asking(n) \ {w} /\ (w \in Asking(n) <=> m = n)
    BY <2>1 DEF Asking, At
  <2> HIDE DEF m
  <2>5. Cardinality(Asking(n)') = c - (IF m = n THEN 1 ELSE 0)
    <3>1. Cardinality(Asking(n) \ {w}) = c - (IF w \in Asking(n) THEN 1 ELSE 0)
      BY <1>2, OneMore
    <3> QED
      BY <2>4, <3>1
  <2>6. Cardinality(AskedFor(n)') = a + (IF m = n THEN 1 ELSE 0)
    <3>1. Cardinality(Places(Append(asked, m), {n}))
            = Cardinality(Places(asked, {n})) + (IF m \in {n} THEN 1 ELSE 0)
      BY <1>1, <2>2, CountAppend
    <3> QED
      BY <1>2, <1>4, <2>1, <3>1
  <2> QED
    BY <1>2, <1>3, <1>7, <2>1, <2>3, <2>5, <2>6 DEF Covered
<1>11. ASSUME NEW found \in BOOLEAN, Answer(found)
       PROVE  Covered(n)'
  <2> DEFINE m == Head(asked)
             x == [nick |-> m, found |-> found]
  <2>1. /\ UNCHANGED <<list, nick, pc, arg, closing>> /\ asked # <<>>
        /\ asked' = Tail(asked) /\ answers' = Append(answers, x)
    BY <1>11 DEF Answer
  <2>2. Pending(n)' = Pending(n) /\ Asking(n)' = Asking(n) /\ Working(n)' = Working(n)
    BY <1>5, <2>1 DEF Pending, Asking, At, Working, Counts
  <2>3. m \in Nicks /\ x \in Ans /\ (x \in For(n) <=> m = n)
    BY <1>1, <2>1 DEF For
  <2> HIDE DEF x, m
  <2>4. Cardinality(AskedFor(n)') = a - (IF m = n THEN 1 ELSE 0)
    BY <1>1, <1>2, <1>4, <2>1, CountTail DEF m
  <2>5. Cardinality(AnswersFor(n)') = b + (IF m = n THEN 1 ELSE 0)
    <3> HIDE DEF Ans
    <3>1. Cardinality(Places(Append(answers, x), For(n)))
            = Cardinality(Places(answers, For(n))) + (IF x \in For(n) THEN 1 ELSE 0)
      BY <1>1, <2>3, CountAppend
    <3> QED
      BY <1>2, <1>4, <2>1, <2>3, <3>1
  <2> QED
    BY <1>2, <1>3, <1>7, <2>1, <2>2, <2>4, <2>5 DEF Covered
<1>12. ASSUME NEW m \in Nicks, NoSuchNick(m)
       PROVE  Covered(n)'
  <2> DEFINE x == [nick |-> m, found |-> FALSE]
  <2>1. /\ UNCHANGED <<list, nick, pc, arg, closing, asked>>
        /\ answers' = Append(answers, x)
    BY <1>12 DEF NoSuchNick
  <2>2. Pending(n)' = Pending(n) /\ Asking(n)' = Asking(n) /\ Working(n)' = Working(n)
        /\ AskedFor(n)' = AskedFor(n)
    BY <1>5, <2>1 DEF Pending, Asking, At, Working, Counts, AskedFor
  <2>3. x \in Ans
    OBVIOUS
  <2> HIDE DEF x
  <2>4. Cardinality(AnswersFor(n)') \in Nat /\ Cardinality(AnswersFor(n)') >= b
    <3> HIDE DEF Ans
    <3>1. Cardinality(Places(Append(answers, x), For(n)))
            = Cardinality(Places(answers, For(n))) + (IF x \in For(n) THEN 1 ELSE 0)
      BY <1>1, <2>3, CountAppend
    <3> QED
      BY <1>2, <1>3, <1>4, <2>1, <3>1
  <2> QED
    BY <1>2, <1>3, <1>7, <2>1, <2>2, <2>4 DEF Covered
<1>13. ASSUME NEW w \in Workers, Handle(w)
       PROVE  Covered(n)'
  <2> DEFINE x == Head(answers)
  <2>1. /\ pc[w] = "idle" /\ pc'[w] = "search" /\ ~closing /\ answers # <<>>
        /\ \A v \in Workers \ {w} : pc'[v] = pc[v] /\ arg'[v] = arg[v]
        /\ UNCHANGED <<list, nick, asked>> /\ answers' = Tail(answers)
    BY <1>1, <1>13 DEF Handle, Start, Goto
  <2>2. arg'[w].elem = list.head /\ arg'[w].answer[1] = x
    <3>1. arg'[w].elem = list.head /\ arg'[w].answer = <<x>>
      BY <1>1, <1>13 DEF Handle, Args
    <3> QED
      BY <3>1
  <2>3. x \in Ans /\ (x \in For(n) <=> x.nick = n)
    <3>1. x \in Ans
      <4> HIDE DEF Ans
      <4> QED
        BY <1>1, <2>1
    <3> QED
      BY <3>1 DEF For
  <2>4. Pending(n)' = Pending(n) /\ Asking(n)' = Asking(n) /\ AskedFor(n)' = AskedFor(n)
    BY <1>5, <2>1 DEF Pending, Asking, At, AskedFor
  <2>5. CASE list.head = Null
    <3>1. list.size = 0
      BY <2>5, Ends
    <3> QED
      BY <1>6, <2>4, <3>1, NothingPending
  <2>6. CASE list.head # Null
    <3>1. Working(n)' = IF x.nick = n THEN Working(n) \cup {w} ELSE Working(n)
      BY <2>1, <2>2, <2>6 DEF Working, Counts
    <3>2. w \notin Working(n)
      BY <2>1 DEF Working, Counts
    <3> HIDE DEF x
    <3>3. Cardinality(Working(n)') = d + (IF x.nick = n THEN 1 ELSE 0)
      BY <1>2, <3>1, <3>2, OneMore
    <3>4. Cardinality(AnswersFor(n)') = b - (IF x.nick = n THEN 1 ELSE 0)
      BY <1>1, <1>2, <1>4, <2>1, <2>3, CountTail DEF x
    <3> QED
      BY <1>2, <1>3, <1>7, <2>1, <2>4, <3>3, <3>4 DEF Covered
  <2> QED
    BY <2>5, <2>6
<1>14. ASSUME NEW w \in Workers, Search(w)
       PROVE  Covered(n)'
  <2> DEFINE m == arg[w].answer[1].nick
             hit == search(list, arg[w].elem, m)
  <2>1. /\ pc[w] = "search" /\ closing' = closing
        /\ UNCHANGED <<list, freed, nick, asked, answers>>
        /\ broken' = (list.size # 0 /\ arg[w].elem \in freed)
    BY <1>14 DEF Search
  <2>2. \A v \in Workers \ {w} : pc'[v] = pc[v] /\ arg'[v] = arg[v]
    BY <1>1, <1>14 DEF Search, Return, Goto
  <2>3. pc'[w] \in {"idle", "remove"}
    BY <1>1, <1>14 DEF Search, Return, Goto
  <2>4. Pending(n)' = Pending(n) /\ Asking(n)' = Asking(n)
    BY <1>5, <2>1, <2>2, <2>3 DEF Pending, Asking, At
  <2>5. Covered(n)
    BY <2>1 DEF ListInv
  <2>6. arg[w].elem \in {Null, list.head} \cup freed /\ arg[w].elem \in Pointers
    BY <1>1, <2>1 DEF ListInv, Holds, Args
  <2>7. PICK s : Order(list, s)
    BY DEF ListInv, Shape
  <2>8. CASE hit # Null
    <3>1. arg[w].elem # Null
      BY <2>6, <2>7, <2>8, SearchFinds
    <3>2. pc'[w] = "remove" /\ arg' = [arg EXCEPT ![w].elem = hit]
      BY <1>1, <1>14, <2>8 DEF Search, Goto
    <3> HIDE DEF hit
    <3>3. arg'[w].answer = arg[w].answer
      BY <1>1, <3>2 DEF Args
    <3>4. Working(n)' = Working(n)
      BY <2>1, <2>2, <3>1, <3>2, <3>3 DEF Working, Counts
    <3> QED
      BY <2>1, <2>4, <2>5, <3>4, CoveredStays
  <2>9. CASE hit = Null
    <3>1. pc'[w] = "idle"
      BY <1>1, <1>14, <2>9 DEF Search, Return, Goto
    <3>2. CASE list.size = 0
      BY <1>6, <2>4, <3>2, NothingPending
    <3>3. CASE list.size # 0 /\ arg[w].elem # Null /\ m = n
      <4>1. arg[w].elem = list.head
        BY <2>1, <2>6, <3>3
      <4>2. \A e \in Linked : nick[e] # m
        BY <2>6, <2>7, <2>9, <4>1, SearchFinds, Ends
      <4>3. Pending(n)' = {}
        BY <2>4, <3>3, <4>2 DEF Pending
      <4> QED
        BY <4>3, NothingPending
    <3>4. CASE arg[w].elem = Null \/ m # n
      <4>1. w \notin Working(n)
        BY <2>1, <3>4 DEF Working, Counts
      <4>2. Working(n)' = Working(n)
        BY <2>2, <3>1, <4>1 DEF Working, Counts
      <4> QED
        BY <2>1, <2>4, <2>5, <4>2, CoveredStays
    <3> QED
      BY <3>2, <3>3, <3>4
  <2> QED
    BY <2>8, <2>9
<1>15. ASSUME NEW w \in Workers, Remove(w)
       PROVE  Covered(n)'
  <2> DEFINE k == arg[w].elem
  <2>1. /\ pc[w] = "remove" /\ closing' = closing /\ UNCHANGED <<nick, asked, answers>>
        /\ pc'[w] \in {"idle", "call"}
        /\ \A v \in Workers \ {w} : pc'[v] = pc[v] /\ arg'[v] = arg[v]
    <3>1. pc[w] = "remove" /\ closing' = closing /\ UNCHANGED <<nick, asked, answers>>
      BY <1>15 DEF Remove
    <3>2. Return(w, "remove") \/ (Goto(w, "remove", "call") /\ arg' = arg)
      BY <1>15 DEF Remove
    <3> QED
      BY <1>1, <3>1, <3>2 DEF Return, Goto
  <2>2. CASE list.size = 0 /\ list' = list
    <3>1. Pending(n)' = {}
      BY <1>5, <1>6, <2>1, <2>2 DEF Pending
    <3> QED
      BY <3>1, NothingPending
  <2>3. CASE k \in Linked /\ Linked' = Linked \ {k}
    <3>1. nick[k] = arg[w].answer[1].nick
      BY <2>1 DEF ListInv, Holds
    <3>2. Working(n)' = Working(n) \ {w} /\ (w \in Working(n) <=> nick[k] = n)
      BY <2>1, <3>1 DEF Working, Counts
    <3>3. Pending(n)' = Pending(n) \ {k} /\ (k \in Pending(n) <=> nick[k] = n)
      BY <2>1, <2>3 DEF Pending
    <3>4. Asking(n)' = Asking(n) /\ AskedFor(n)' = AskedFor(n) /\ AnswersFor(n)' = AnswersFor(n)
      BY <2>1 DEF Asking, At, AskedFor, AnswersFor
    <3> HIDE DEF k
    <3>5. Cardinality(Working(n)') = d - (IF nick[k] = n THEN 1 ELSE 0)
      <4>1. Cardinality(Working(n) \ {w}) = d - (IF w \in Working(n) THEN 1 ELSE 0)
        BY <1>2, OneMore
      <4> QED
        BY <3>2, <4>1
    <3>6. Cardinality(Pending(n)') = p - (IF nick[k] = n THEN 1 ELSE 0)
      <4>1. Cardinality(Pending(n) \ {k}) = p - (IF k \in Pending(n) THEN 1 ELSE 0)
        BY <1>2, OneMore
      <4> QED
        BY <3>3, <4>1
    <3> QED
      BY <1>2, <1>3, <1>7, <2>1, <3>4, <3>5, <3>6 DEF Covered
  <2> QED
    BY <1>15, <2>2, <2>3, RemoveStep
<1>16. ASSUME NEW w \in Workers, Call(w)
       PROVE  Covered(n)'
  <2>1. /\ pc[w] = "call" /\ pc'[w] = "idle" /\ closing' = closing
        /\ \A v \in Workers \ {w} : pc'[v] = pc[v] /\ arg'[v] = arg[v]
        /\ UNCHANGED <<list, nick, asked, answers>>
    BY <1>1, <1>16 DEF Call, Return, Goto
  <2>2. Pending(n)' = Pending(n) /\ Asking(n)' = Asking(n) /\ Working(n)' = Working(n)
    BY <1>5, <2>1 DEF Pending, Asking, At, Working, Counts
  <2>3. Covered(n)
    BY <2>1 DEF ListInv
  <2> QED
    BY <2>1, <2>2, <2>3, CoveredStays
<1>17. CASE Close \/ DestroyTail
  BY <1>17 DEF Close, DestroyTail
<1>18. CASE UNCHANGED vars
  <2>1. UNCHANGED <<list, nick, pc, arg, asked, answers, closing>>
    BY <1>18 DEF vars
  <2>2. Pending(n)' = Pending(n) /\ Asking(n)' = Asking(n) /\ Working(n)' = Working(n)
    BY <1>5, <2>1 DEF Pending, Asking, At, Working, Counts
  <2>3. Covered(n)
    BY <2>1 DEF ListInv
  <2> QED
    BY <2>1, <2>2, <2>3, CoveredStays
<1> QED
  BY <1>8, <1>9, <1>10, <1>11, <1>12, <1>13, <1>14, <1>15, <1>16, <1>17, <1>18
     DEF Next, Handler, ServerAnswers

-----------------------------------------------------------------------------
(* The invariant. *)

\* The use of a freed element is the end of the execution.
LEMMA BrokenStays ==
    ASSUME [Next]_vars, broken
    PROVE  broken'
<1>1. ASSUME NEW w \in Workers, Handler(w) \/ \E n \in Nicks : Register(w, n)
      PROVE  FALSE
  <2>1. CASE InsertNext(w) \/ Whois(w) \/ Call(w) \/ Search(w) \/ Remove(w) \/ Handle(w)
    BY <2>1, Zenon DEF InsertNext, Whois, Call, Search, Remove, Handle, Return, Start, Goto
  <2>2. CASE \E n \in Nicks : Register(w, n)
    BY <2>2, Zenon DEF Register, Start, Goto
  <2> QED
    BY <1>1, <2>1, <2>2, Zenon DEF Handler
<1>2. CASE ServerAnswers \/ (\E n \in Nicks : NoSuchNick(n)) \/ Close \/ DestroyTail
  BY <1>2, Zenon DEF ServerAnswers, Answer, NoSuchNick, Close, DestroyTail
<1>3. CASE UNCHANGED vars
  BY <1>3, Zenon DEF vars
<1> QED
  BY <1>1, <1>2, <1>3, Zenon DEF Next

\* At the start the list is empty and nobody is at work.
LEMMA InvInit == Init => ListInv
<1> SUFFICES ASSUME Init PROVE ListInv
  OBVIOUS
<1>1. list.size = 0 /\ list.head = Null /\ list.tail = Null
      /\ \A p \in Pointers : list.next[p] = Null /\ list.prev[p] = Null
  BY DEF Init, init_CallbackDList
<1>2. TypeOK
  <2>1. list \in Lists
    <3>1. Null \in Pointers /\ 0 \in 0..MaxItems
      BY BoundsAssumption DEF Pointers
    <3> QED
      BY <3>1 DEF Init, init_CallbackDList, Lists
  <2>2. arg \in [Workers -> Args]
    <3>1. NoArg \in Args
      BY DEF NoArg, Args, Pointers
    <3> QED
      BY <3>1 DEF Init
  <2>3. noNick \in 0..MaxNoNick
    BY BoundsAssumption DEF Init
  <2>4. pc \in [Workers -> {"idle", "insert", "whois", "search", "remove", "call"}]
    BY DEF Init
  <2>5. broken \in BOOLEAN /\ overlapped \in BOOLEAN /\ closing \in BOOLEAN
    BY DEF Init
  <2>6. nick \in Seq(Nicks) /\ asked \in Seq(Nicks) /\ answers \in Seq([nick : Nicks, found : BOOLEAN])
    BY DEF Init
  <2> QED
    BY <2>1, <2>2, <2>3, <2>4, <2>5, <2>6 DEF Init, TypeOK
<1>3. Shape
  <2> DEFINE s == [i \in 1..0 |-> Null]
  <2>1. s \in [1..list.size -> Elements]
    BY <1>1
  <2>2. Order(list, s) /\ Increasing(list, s)
    BY <1>1, <1>2, <2>1 DEF TypeOK, Order, Increasing, Nth
  <2> QED
    BY <2>1, <2>2 DEF Shape
<1>4. Linked = {}
  <2>1. PICK s : Order(list, s)
    BY <1>3 DEF Shape
  <2>2. LinkedIn(list) = {}
    BY <1>1, <2>1, LinkedIsOrder
  <2> QED
    BY <2>2 DEF Linked, LinkedIn
<1>5. /\ \A w \in Workers : pc[w] = "idle"
      /\ freed = {} /\ refused = {} /\ ran = {} /\ dropped = {} /\ nick = <<>> /\ asked = <<>>
      /\ answers = <<>> /\ ~broken /\ ~closing
  BY DEF Init
<1>6. Resting /\ OneThreadIsSafe
  BY <1>5 DEF Resting, OneThreadIsSafe
<1>7. Accounts
  <2>1. Created = {} /\ Calling = {}
    BY <1>5 DEF Created, Calling, At
  <2>2. 1..Len(nick) = {}
    BY <1>5
  <2> QED
    BY <1>4, <1>5, <2>1, <2>2 DEF Accounts
<1>8. \A w \in Workers : Holds(w)
  BY <1>5 DEF Holds
<1>9. ASSUME NEW n \in Nicks PROVE Covered(n)
  <2>1. Pending(n) = {} /\ AskedFor(n) = {} /\ AnswersFor(n) = {} /\ Asking(n) = {} /\ Working(n) = {}
    BY <1>4, <1>5 DEF Pending, AskedFor, AnswersFor, Asking, At, Working, Counts
  <2>2. Cardinality({}) = 0
    BY FS_EmptySet
  <2> QED
    BY <2>1, <2>2 DEF Covered
<1>10. Alone
  BY <1>5 DEF Alone, Fresh
<1> QED
  BY <1>2, <1>3, <1>6, <1>7, <1>8, <1>9, <1>10 DEF ListInv

\* Every step keeps it.
LEMMA InvStep == ListInv /\ [Next]_vars => ListInv'
<1> SUFFICES ASSUME ListInv, [Next]_vars PROVE ListInv'
  OBVIOUS
<1>1. TypeOK' /\ Shape' /\ Resting' /\ OneThreadIsSafe'
  BY TypeStep, ShapeStep, RestingStep, SafeStep
<1>2. ASSUME ~broken'
      PROVE  /\ Accounts'
             /\ \A w \in Workers : Holds(w)'
             /\ ~closing' => \A n \in Nicks : Covered(n)'
             /\ ~overlapped' => Alone'
  <2>1. ~broken
    BY <1>2, BrokenStays
  <2> QED
    BY <1>2, <2>1, AccountsStep, HoldsStep, CoveredStep, AloneStep
<1> QED
  BY <1>1, <1>2 DEF ListInv

LEMMA InvAlways == Spec => []ListInv
  BY InvInit, InvStep, PTL DEF Spec
-----------------------------------------------------------------------------
(* The properties. *)

\* Two sets that have nothing in common.
LEMMA JoinCount ==
    ASSUME NEW S, NEW T, IsFiniteSet(S), IsFiniteSet(T), S \cap T = {}
    PROVE  IsFiniteSet(S \cup T) /\ Cardinality(S \cup T) = Cardinality(S) + Cardinality(T)
<1>1. IsFiniteSet(S \cup T)
      /\ Cardinality(S \cup T) = Cardinality(S) + Cardinality(T) - Cardinality(S \cap T)
  BY FS_Union
<1>2. Cardinality(S \cap T) = 0
  BY FS_EmptySet
<1>3. Cardinality(S) \in Nat /\ Cardinality(T) \in Nat
  BY FS_CardinalityType
<1> QED
  BY <1>1, <1>2, <1>3

\* The list, the queues and the locals of the handlers keep their types.
THEOREM TypeCorrect == Spec => []TypeOK
<1>1. ListInv => TypeOK
  BY DEF ListInv
<1> QED
  BY <1>1, InvAlways, PTL

\* Until a freed element is used, the list of callbacklist.c is one double linked
\* list of as many elements as its size says, whatever the threads insert between
\* the reading of list.tail or list.head and the lock.
THEOREM WellFormedAlways == Spec => []WellFormed
<1>1. ListInv => WellFormed
  <2> SUFFICES ASSUME ListInv, ~broken
               PROVE  LET ahead == Way(list.next, list.head)
                          back == Way(list.prev, list.tail)
                      IN  /\ \A i \in 0..MaxItems : (ahead[i] # Null) <=> (i < list.size)
                          /\ \A i \in 0..MaxItems : i < list.size => back[i] = ahead[list.size - 1 - i]
                          /\ back[list.size] = Null
                          /\ Cardinality(Linked) = list.size
                          /\ Linked \cap freed = {}
    BY DEF WellFormed
  <2>1. PICK s : Order(list, s)
    BY DEF ListInv, Shape
  <2> DEFINE L == list
  <2> HIDE DEF L
  <2>2. /\ Order(L, s) /\ L.size \in 0..MaxItems /\ L.size \in Nat /\ MaxItems \in Nat
        /\ s \in [1..L.size -> Elements]
        /\ LinkedIn(L) = {s[i] : i \in 1..L.size}
        /\ \A i, j \in 1..L.size : s[i] = s[j] => i = j
        /\ L.head = Nth(L, s, 1)
    <3>1. Order(L, s)
      BY <2>1 DEF L
    <3> QED
      BY <3>1, OrderFacts, BoundsAssumption
  <2>3. Way(L.next, L.head) = [i \in 0..MaxItems |-> Nth(L, s, 1 + i)]
    <3>1. 1 \in 1..(L.size + 1)
      BY <2>2
    <3> QED
      BY <2>2, <3>1, WayAhead
  <2>4. Way(L.prev, L.tail) = [i \in 0..MaxItems |-> Nth(L, s, L.size - i)]
    BY <2>2, WayBack
  <2> DEFINE ahead == Way(L.next, L.head)
             back == Way(L.prev, L.tail)
  <2>5. /\ \A i \in 0..MaxItems : ahead[i] = Nth(L, s, 1 + i)
        /\ \A i \in 0..MaxItems : back[i] = Nth(L, s, L.size - i)
    BY <2>3, <2>4
  <2> HIDE DEF ahead, back
  <2>6. \A i \in 0..MaxItems : (ahead[i] # Null) <=> (i < L.size)
    <3> SUFFICES ASSUME NEW i \in 0..MaxItems PROVE (ahead[i] # Null) <=> (i < L.size)
      OBVIOUS
    <3>1. CASE i < L.size
      <4>1. 1 + i \in 1..L.size
        BY <2>2, <3>1
      <4>2. s[1 + i] # Null
        BY <2>2, <4>1 DEF Elements, Null
      <4> QED
        BY <2>5, <3>1, <4>1, <4>2 DEF Nth
    <3>2. CASE ~(i < L.size)
      <4>1. 1 + i \notin 1..L.size
        BY <2>2, <3>2
      <4> QED
        BY <2>5, <3>2, <4>1 DEF Nth
    <3> QED
      BY <3>1, <3>2
  <2>7. \A i \in 0..MaxItems : i < L.size => back[i] = ahead[L.size - 1 - i]
    <3> SUFFICES ASSUME NEW i \in 0..MaxItems, i < L.size PROVE back[i] = ahead[L.size - 1 - i]
      OBVIOUS
    <3>1. L.size - 1 - i \in 0..MaxItems /\ 1 + (L.size - 1 - i) = L.size - i
      BY <2>2
    <3> QED
      BY <2>5, <3>1
  <2>8. back[L.size] = Null
    <3>1. L.size - L.size = 0 /\ 0 \notin 1..L.size
      BY <2>2
    <3> QED
      BY <2>2, <2>5, <3>1 DEF Nth
  <2>9. Cardinality(Linked) = L.size
    <3>1. Cardinality({s[i] : i \in 1..L.size}) = L.size
      BY <2>2, OrderFits
    <3>2. Linked = LinkedIn(L)
      BY Ends DEF L
    <3> QED
      BY <2>2, <3>1, <3>2
  <2>10. Linked \cap freed = {}
    BY NotFreed
  <2> QED
    BY <2>6, <2>7, <2>8, <2>9, <2>10 DEF L, ahead, back
<1> QED
  BY <1>1, InvAlways, PTL

\* Until a freed element is used, each callback item is in one place: no item is
\* lost, called twice, or called and destroyed by the handlers of 311 and 401.
THEOREM ItemsAccountedForAlways == Spec => []ItemsAccountedFor
<1>1. ListInv => ItemsAccountedFor
  <2> SUFFICES ASSUME ListInv, ~broken
               PROVE  /\ 1..Len(nick) = UNION {Created, Linked, refused, Calling, ran, dropped}
                      /\ Len(nick) = Cardinality(Created) + list.size + Cardinality(refused)
                                       + Cardinality(Calling) + Cardinality(ran) + Cardinality(dropped)
    BY DEF ItemsAccountedFor, Created, Calling
  <2>1. Accounts /\ Len(nick) \in Nat
    BY DEF ListInv, TypeOK
  <2>2. 1..Len(nick) = Created \cup Linked \cup refused \cup freed
        /\ freed = Calling \cup ran \cup dropped
    BY <2>1 DEF Accounts
  <2>3. 1..Len(nick) = UNION {Created, Linked, refused, Calling, ran, dropped}
    BY <2>2
  <2>4. IsFiniteSet(1..Len(nick)) /\ Cardinality(1..Len(nick)) = Len(nick)
    BY <2>1, FS_Interval
  <2>5. /\ IsFiniteSet(Created) /\ IsFiniteSet(Linked) /\ IsFiniteSet(refused)
        /\ IsFiniteSet(Calling) /\ IsFiniteSet(ran) /\ IsFiniteSet(dropped)
    <3>1. /\ Created \in SUBSET (1..Len(nick)) /\ Linked \in SUBSET (1..Len(nick))
          /\ refused \in SUBSET (1..Len(nick)) /\ Calling \in SUBSET (1..Len(nick))
          /\ ran \in SUBSET (1..Len(nick)) /\ dropped \in SUBSET (1..Len(nick))
      BY <2>2
    <3> QED
      BY <2>4, <3>1, FS_Subset
  <2>6. /\ Created \cap Linked = {} /\ Created \cap refused = {} /\ Created \cap freed = {}
        /\ Linked \cap refused = {} /\ Linked \cap freed = {} /\ refused \cap freed = {}
        /\ Calling \cap ran = {} /\ Calling \cap dropped = {} /\ ran \cap dropped = {}
    <3>1. Created \cap (Linked \cup refused \cup freed) = {}
      BY <2>1 DEF Accounts, Created, At
    <3>2. Calling \cap (ran \cup dropped) = {}
      BY <2>1 DEF Accounts, Calling, At
    <3> QED
      BY <2>1, <3>1, <3>2 DEF Accounts
  <2> DEFINE A == Created \cup Linked
             B == A \cup refused
             C == B \cup Calling
             D == C \cup ran
             E == D \cup dropped
  <2>7. IsFiniteSet(A) /\ Cardinality(A) = Cardinality(Created) + Cardinality(Linked)
    BY <2>5, <2>6, JoinCount
  <2>8. IsFiniteSet(B) /\ Cardinality(B) = Cardinality(A) + Cardinality(refused)
    <3>1. A \cap refused = {}
      BY <2>6
    <3> HIDE DEF A
    <3> QED
      BY <2>5, <2>7, <3>1, JoinCount
  <2>9. IsFiniteSet(C) /\ Cardinality(C) = Cardinality(B) + Cardinality(Calling)
    <3>1. B \cap Calling = {}
      BY <2>2, <2>6
    <3> HIDE DEF B
    <3> QED
      BY <2>5, <2>8, <3>1, JoinCount
  <2>10. IsFiniteSet(D) /\ Cardinality(D) = Cardinality(C) + Cardinality(ran)
    <3>1. C \cap ran = {}
      BY <2>2, <2>6
    <3> HIDE DEF C
    <3> QED
      BY <2>5, <2>9, <3>1, JoinCount
  <2>11. IsFiniteSet(E) /\ Cardinality(E) = Cardinality(D) + Cardinality(dropped)
    <3>1. D \cap dropped = {}
      BY <2>2, <2>6
    <3> HIDE DEF D
    <3> QED
      BY <2>5, <2>10, <3>1, JoinCount
  <2>12. E = 1..Len(nick)
    BY <2>2
  <2>13. Cardinality(Linked) = list.size
    <3>1. PICK s : Order(list, s)
      BY DEF ListInv, Shape
    <3>2. /\ list.size \in Nat /\ s \in [1..list.size -> Elements]
          /\ LinkedIn(list) = {s[i] : i \in 1..list.size}
          /\ \A i, j \in 1..list.size : s[i] = s[j] => i = j
      BY <3>1, OrderFacts
    <3>3. Cardinality({s[i] : i \in 1..list.size}) = list.size
      BY <3>2, OrderFits
    <3> QED
      BY <3>2, <3>3, Ends
  <2>14. /\ Cardinality(Created) \in Nat /\ Cardinality(Linked) \in Nat /\ Cardinality(refused) \in Nat
         /\ Cardinality(Calling) \in Nat /\ Cardinality(ran) \in Nat /\ Cardinality(dropped) \in Nat
    BY <2>5, FS_CardinalityType
  <2> HIDE DEF A, B, C, D, E
  <2> QED
    BY <2>1, <2>3, <2>4, <2>7, <2>8, <2>9, <2>10, <2>11, <2>12, <2>13, <2>14
<1> QED
  BY <1>1, InvAlways, PTL

\* Until a freed element is used, every item in the list has a WHOIS, an answer or
\* a handler of hCallback or hWhoisFailed to come for its nickname.
THEOREM AnswersCoverAlways == Spec => []AnswersCover
<1>1. ListInv => AnswersCover
  <2> SUFFICES ASSUME ListInv, ~broken, ~closing, NEW n \in Nicks
               PROVE  Cardinality(Pending(n))
                        <= Cardinality(AskedFor(n)) + Cardinality(AnswersFor(n)) + Cardinality(Asking(n))
                           + Cardinality({w \in At({"search", "remove"}) : arg[w].answer[1].nick = n})
    BY DEF AnswersCover, Pending, AskedFor, AnswersFor, Asking
  <2> DEFINE W == {w \in At({"search", "remove"}) : arg[w].answer[1].nick = n}
  <2>1. Covered(n)
    BY DEF ListInv
  <2>2. /\ Cardinality(Pending(n)) \in Nat /\ Cardinality(Asking(n)) \in Nat
        /\ Cardinality(Working(n)) \in Nat
        /\ AskedFor(n) = Places(asked, {n}) /\ AnswersFor(n) = Places(answers, For(n))
    BY CoverSets
  <2>3. Cardinality(AskedFor(n)) \in Nat /\ Cardinality(AnswersFor(n)) \in Nat
    <3>1. Len(asked) \in Nat /\ Len(answers) \in Nat
          /\ DOMAIN asked = 1..Len(asked) /\ DOMAIN answers = 1..Len(answers)
      BY DEF ListInv, TypeOK
    <3>2. AskedFor(n) \subseteq 1..Len(asked) /\ AnswersFor(n) \subseteq 1..Len(answers)
      BY <3>1 DEF AskedFor, AnswersFor
    <3>3. IsFiniteSet(1..Len(asked)) /\ IsFiniteSet(1..Len(answers))
      BY <3>1, FS_Interval
    <3> QED
      BY <3>2, <3>3, FS_Subset, FS_CardinalityType
  <2>4. IsFiniteSet(W) /\ Working(n) \subseteq W
    <3>1. W \subseteq Workers /\ Working(n) \subseteq W
      BY DEF At, Working, Counts
    <3> QED
      BY <3>1, FS_Subset, BoundsAssumption
  <2> HIDE DEF W
  <2>5. Cardinality(W) \in Nat /\ Cardinality(Working(n)) <= Cardinality(W)
    BY <2>4, FS_Subset, FS_CardinalityType
  <2> QED
    BY <2>1, <2>2, <2>3, <2>5 DEF Covered, W
<1> QED
  BY <1>1, InvAlways, PTL

\* With one execution thread at a time no freed element of the list is used, and
\* insert_next_CallbackDList refuses no item.
THEOREM OneThreadIsSafeAlways == Spec => []OneThreadIsSafe
<1>1. ListInv => OneThreadIsSafe
  BY DEF ListInv
<1> QED
  BY <1>1, InvAlways, PTL

\* With one execution thread at a time searchNicknameFromCallbackDList gives the
\* answers for a nickname its items in the order in which the commands came.
THEOREM OldestFirstAlways == Spec => OldestFirst
<1> DEFINE Oldest == ~overlapped /\ ~closing =>
              \A e \in freed' \ freed, d \in Linked : nick[d] = nick[e] => e <= d
<1>1. ListInv /\ [Next]_vars => Oldest
  <2> SUFFICES ASSUME ListInv, [Next]_vars, ~overlapped, ~closing,
                      NEW e \in freed' \ freed, NEW d \in Linked, nick[d] = nick[e]
               PROVE  e <= d
    OBVIOUS
  <2>1. CASE \E w \in Workers : Remove(w)
    <3>1. PICK w \in Workers : Remove(w)
      BY <2>1
    <3>2. pc[w] = "remove" /\ e = arg[w].elem
      BY <3>1 DEF Remove
    <3>3. Fresh(w)
      BY DEF ListInv, OneThreadIsSafe, Alone
    <3> QED
      BY <3>2, <3>3 DEF Fresh
  <2>2. CASE Quiet
    BY <2>2, QuietStays DEF ListInv
  <2>3. CASE \E w \in Workers : InsertNext(w)
    BY <2>3 DEF InsertNext
  <2>4. CASE DestroyTail
    BY <2>4 DEF DestroyTail
  <2>5. CASE UNCHANGED vars
    BY <2>5 DEF vars
  <2> QED
    BY <2>1, <2>2, <2>3, <2>4, <2>5 DEF Next, Handler, Quiet
<1>2. ListInv /\ [Next]_vars => [Oldest]_vars
  BY <1>1
<1> QED
  BY <1>2, InvAlways, PTL DEF Spec, OldestFirst
=============================================================================
