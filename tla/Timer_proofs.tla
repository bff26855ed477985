---------------------------- MODULE Timer_proofs ----------------------------
(***************************************************************************)
(* Theorems about the timers of an event loop, for every number of timers, *)
(* every set of delays and every bound on the clock: the two containers of *)
(* timer_t agree and are in order, wait() never outlasts the earliest      *)
(* timer, intervals do not drift, and a cancelled timer is not called.     *)
(***************************************************************************)
EXTENDS Timer, TLAPS

Elems(s) == {s[i] : i \in 1..Len(s)}

(* The order of the multiset, and that no id is in it twice.               *)
Sorted(s) == \A i, j \in 1..Len(s) : i < j => s[i].expire <= s[j].expire
Distinct(s) == \A i, j \in 1..Len(s) : s[i].id = s[j].id => i = j

(* multiset::emplace, by position ...                                      *)
LEMMA PutPositions ==
    ASSUME NEW s \in Seq(Task), NEW t \in Task, NEW k \in 0..Len(s)
    PROVE  /\ Put(s, k, t) \in Seq(Task) /\ Len(Put(s, k, t)) = Len(s) + 1
           /\ Put(s, k, t)[k + 1] = t
           /\ \A i \in 1..k : Put(s, k, t)[i] = s[i]
           /\ \A i \in (k + 2)..(Len(s) + 1) : Put(s, k, t)[i] = s[i - 1]
<1> DEFINE a == SubSeq(s, 1, k)
           b == SubSeq(s, k + 1, Len(s))
           c == a \o <<t>>
<1>1. /\ a \in Seq(Task) /\ Len(a) = k /\ \A i \in 1..k : a[i] = s[i]
  OBVIOUS
<1>2. /\ b \in Seq(Task) /\ Len(b) = Len(s) - k /\ \A i \in 1..(Len(s) - k) : b[i] = s[k + i]
  OBVIOUS
<1>3. c \in Seq(Task) /\ Len(c) = k + 1 /\ c[k + 1] = t /\ \A i \in 1..k : c[i] = s[i]
  <2> HIDE DEF a
  <2> QED  BY <1>1
<1>4. Put(s, k, t) = c \o b
  BY DEF Put
<1> HIDE DEF b, c
<1>5. /\ c \o b \in Seq(Task) /\ Len(c \o b) = Len(s) + 1
      /\ \A i \in 1..(k + 1) : (c \o b)[i] = c[i]
      /\ \A i \in (k + 2)..(Len(s) + 1) : (c \o b)[i] = b[i - (k + 1)]
  BY <1>2, <1>3
<1>6. \A i \in (k + 2)..(Len(s) + 1) :
         i - (k + 1) \in 1..(Len(s) - k) /\ k + (i - (k + 1)) = i - 1
  OBVIOUS
<1>7. \A i \in (k + 2)..(Len(s) + 1) : (c \o b)[i] = s[i - 1]
  <2> SUFFICES ASSUME NEW i \in (k + 2)..(Len(s) + 1) PROVE (c \o b)[i] = s[i - 1]
    OBVIOUS
  <2>1. b[i - (k + 1)] = s[k + (i - (k + 1))]
    BY <1>2, <1>6
  <2> QED
    BY <1>5, <1>6, <2>1
<1>8. \A i \in 1..k : i \in 1..(k + 1)
  OBVIOUS
<1>9. k + 1 \in 1..(k + 1)
  OBVIOUS
<1> QED
  BY <1>3, <1>4, <1>5, <1>7, <1>8, <1>9

(* ... and multiset::erase.                                                *)
LEMMA ErasePositions ==
    ASSUME NEW s \in Seq(Task), NEW k \in 1..Len(s)
    PROVE  /\ Erase(s, k) \in Seq(Task) /\ Len(Erase(s, k)) = Len(s) - 1
           /\ \A i \in 1..(k - 1) : Erase(s, k)[i] = s[i]
           /\ \A i \in k..(Len(s) - 1) : Erase(s, k)[i] = s[i + 1]
<1> DEFINE a == SubSeq(s, 1, k - 1)
           b == SubSeq(s, k + 1, Len(s))
<1>1. a \in Seq(Task) /\ Len(a) = k - 1 /\ \A i \in 1..(k - 1) : a[i] = s[i]
  OBVIOUS
<1>2. b \in Seq(Task) /\ Len(b) = Len(s) - k /\ \A i \in 1..(Len(s) - k) : b[i] = s[k + i]
  OBVIOUS
<1>3. Erase(s, k) = a \o b
  BY DEF Erase
<1> HIDE DEF a, b
<1>4. /\ a \o b \in Seq(Task) /\ Len(a \o b) = Len(s) - 1
      /\ \A i \in 1..(k - 1) : (a \o b)[i] = a[i]
      /\ \A i \in k..(Len(s) - 1) : (a \o b)[i] = b[i - (k - 1)]
  <2>1. /\ a \o b \in Seq(Task) /\ Len(a \o b) = Len(a) + Len(b)
        /\ \A i \in 1..Len(a) : (a \o b)[i] = a[i]
        /\ \A i \in (Len(a) + 1)..(Len(a) + Len(b)) : (a \o b)[i] = b[i - Len(a)]
    <3>1. a \in Seq(Task) /\ b \in Seq(Task)
      BY <1>1, <1>2
    <3> QED
      BY <3>1
  <2>2. Len(a) + Len(b) = Len(s) - 1 /\ Len(a) + 1 = k
    BY <1>1, <1>2
  <2> QED
    BY <1>1, <2>1, <2>2
<1>5. \A i \in k..(Len(s) - 1) :
         i - (k - 1) \in 1..(Len(s) - k) /\ k + (i - (k - 1)) = i + 1
  OBVIOUS
<1> QED
  <2>1. \A i \in k..(Len(s) - 1) : b[i - (k - 1)] = s[i + 1]
    BY <1>2, <1>5
  <2> QED
    BY <1>1, <1>3, <1>4, <2>1

(* What emplace() at the upper bound does to a multiset that is in order   *)
(* and has no task with that id ...                                        *)
LEMMA PutInOrder ==
    ASSUME NEW s \in Seq(Task), NEW t \in Task, NEW k \in 0..Len(s),
           Sorted(s), Distinct(s), UpperBound(s, k, t), t.id \notin IdsOf(s)
    PROVE  LET r == Put(s, k, t)
           IN  /\ r \in Seq(Task) /\ Sorted(r) /\ Distinct(r)
               /\ Elems(r) = Elems(s) \cup {t} /\ IdsOf(r) = IdsOf(s) \cup {t.id}
<1> DEFINE r == Put(s, k, t)
<1>1. /\ r \in Seq(Task) /\ Len(r) = Len(s) + 1 /\ r[k + 1] = t
      /\ \A i \in 1..k : r[i] = s[i]
      /\ \A i \in (k + 2)..(Len(s) + 1) : r[i] = s[i - 1]
  BY PutPositions
<1> HIDE DEF r
<1>t. Len(s) \in Nat /\ t.expire \in Nat /\ \A i \in 1..Len(s) : s[i].expire \in Nat
  <2>1. \A x \in Task : x.expire \in Nat
    BY DEF Task
  <2>2. \A i \in 1..Len(s) : s[i] \in Task
    OBVIOUS
  <2> QED
    BY <2>1, <2>2
<1>2. \A i \in 1..Len(r) : \/ i \in 1..k /\ r[i] = s[i]
                           \/ i = k + 1 /\ r[i] = t
                           \/ i \in (k + 2)..(Len(s) + 1) /\ r[i] = s[i - 1] /\ i - 1 \in (k + 1)..Len(s)
  BY <1>1, <1>t
<1>3. Sorted(r)
  <2> SUFFICES ASSUME NEW i \in 1..Len(r), NEW j \in 1..Len(r), i < j
               PROVE  r[i].expire <= r[j].expire
    BY DEF Sorted
  <2>1. CASE i \in 1..k /\ j \in 1..k
    <3>1. i \in 1..Len(s) /\ j \in 1..Len(s) /\ r[i] = s[i] /\ r[j] = s[j]
      BY <1>1, <1>t, <2>1
    <3> QED
      BY <3>1 DEF Sorted
  <2>2. CASE i \in 1..k /\ j = k + 1
    BY <1>1, <2>2 DEF UpperBound
  <2>3. CASE i \in 1..k /\ j \in (k + 2)..(Len(s) + 1)
    <3>1. /\ i \in 1..Len(s) /\ j - 1 \in 1..Len(s) /\ i < j - 1
          /\ r[i] = s[i] /\ r[j] = s[j - 1]
      BY <1>1, <1>t, <2>3
    <3> QED
      BY <3>1 DEF Sorted
  <2>4. CASE i = k + 1 /\ j \in (k + 2)..(Len(s) + 1)
    <3>1. j - 1 \in (k + 1)..Len(s) /\ r[j] = s[j - 1]
      BY <1>1, <2>4
    <3>2. s[j - 1].expire > t.expire
      BY <3>1 DEF UpperBound
    <3> QED
      <4>1. r[i] = t /\ j - 1 \in 1..Len(s)
        BY <1>1, <1>t, <2>4, <3>1
      <4> QED
        BY <1>t, <3>1, <3>2, <4>1
  <2>5. CASE i \in (k + 2)..(Len(s) + 1) /\ j \in (k + 2)..(Len(s) + 1)
    <3>1. /\ i - 1 \in 1..Len(s) /\ j - 1 \in 1..Len(s) /\ i - 1 < j - 1
          /\ r[i] = s[i - 1] /\ r[j] = s[j - 1]
      BY <1>1, <1>t, <2>5
    <3> QED
      BY <3>1 DEF Sorted
  <2> QED
    BY <1>2, <2>1, <2>2, <2>3, <2>4, <2>5
<1>4. Distinct(r)
  <2>1. \A i \in 1..Len(s) : s[i].id # t.id
    BY DEF IdsOf
  <2> QED
    <3> SUFFICES ASSUME NEW i \in 1..Len(r), NEW j \in 1..Len(r), r[i].id = r[j].id
                 PROVE  i = j
      BY DEF Distinct
    <3> DEFINE of(n) == IF n <= k THEN n ELSE n - 1
    <3>1. \A n \in 1..Len(r) : n # k + 1 => of(n) \in 1..Len(s) /\ r[n] = s[of(n)]
      BY <1>2, <1>t
    <3>2. CASE i = k + 1 \/ j = k + 1
      <4>1. r[k + 1].id = t.id
        BY <1>1
      <4>2. \A n \in 1..Len(r) : n # k + 1 => r[n].id # t.id
        BY <2>1, <3>1
      <4> QED
        BY <3>2, <4>1, <4>2
    <3>3. CASE i # k + 1 /\ j # k + 1
      <4>1. of(i) = of(j)
        BY <3>1, <3>3 DEF Distinct
      <4> QED
        BY <1>1, <1>t, <3>3, <4>1
    <3> QED
      BY <3>2, <3>3
<1>5. /\ \A i \in 1..Len(s) : \E j \in 1..Len(r) : r[j] = s[i]
      /\ k + 1 \in 1..Len(r)
  <2>1. ASSUME NEW i \in 1..Len(s) PROVE \E j \in 1..Len(r) : r[j] = s[i]
    <3>1. CASE i \in 1..k
      BY <1>1, <1>t, <3>1
    <3>2. CASE i \in (k + 1)..Len(s)
      <4>1. i + 1 \in (k + 2)..(Len(s) + 1) /\ i + 1 \in 1..Len(r) /\ (i + 1) - 1 = i
        BY <1>1, <1>t, <3>2
      <4> QED
        BY <1>1, <4>1
    <3> QED
      BY <1>t, <3>1, <3>2
  <2> QED
    BY <1>1, <1>t, <2>1
<1>6. \A j \in 1..Len(r) : r[j] = t \/ \E i \in 1..Len(s) : r[j] = s[i]
  <2>1. \A i \in 1..k : i \in 1..Len(s)
    BY <1>t
  <2>2. \A i \in (k + 1)..Len(s) : i \in 1..Len(s)
    BY <1>t
  <2> QED
    BY <1>2, <2>1, <2>2
<1>7. Elems(r) = Elems(s) \cup {t}
  <2>1. Elems(r) \subseteq Elems(s) \cup {t}
    BY <1>6 DEF Elems
  <2>2. t \in Elems(r) /\ Elems(s) \subseteq Elems(r)
    BY <1>1, <1>5 DEF Elems
  <2> QED
    BY <2>1, <2>2
<1>8. IdsOf(r) = IdsOf(s) \cup {t.id}
  <2>1. ASSUME NEW i \in 1..Len(s) PROVE s[i].id \in IdsOf(r)
    BY <1>5 DEF IdsOf
  <2>2. t.id \in IdsOf(r)
    BY <1>1, <1>5 DEF IdsOf
  <2>3. ASSUME NEW j \in 1..Len(r) PROVE r[j].id \in IdsOf(s) \cup {t.id}
    BY <1>6 DEF IdsOf
  <2> QED
    BY <2>1, <2>2, <2>3 DEF IdsOf
<1> QED
  BY <1>1, <1>3, <1>4, <1>7, <1>8 DEF r

(* ... and what erase() of one element leaves.                             *)
LEMMA EraseInOrder ==
    ASSUME NEW s \in Seq(Task), NEW k \in 1..Len(s), Sorted(s), Distinct(s)
    PROVE  LET r == Erase(s, k)
           IN  /\ r \in Seq(Task) /\ Sorted(r) /\ Distinct(r)
               /\ Elems(r) \subseteq Elems(s) /\ IdsOf(r) = IdsOf(s) \ {s[k].id}
<1> DEFINE r == Erase(s, k)
<1>1. /\ r \in Seq(Task) /\ Len(r) = Len(s) - 1
      /\ \A i \in 1..(k - 1) : r[i] = s[i]
      /\ \A i \in k..(Len(s) - 1) : r[i] = s[i + 1]
  BY ErasePositions
<1> HIDE DEF r
<1>t. Len(s) \in Nat
  OBVIOUS
<1> DEFINE at(i) == IF i < k THEN i ELSE i + 1
<1>2. \A i \in 1..Len(r) : at(i) \in 1..Len(s) /\ at(i) # k /\ r[i] = s[at(i)]
  BY <1>1, <1>t
<1>3. \A i, j \in 1..Len(r) : (i < j => at(i) < at(j)) /\ (at(i) = at(j) => i = j)
  BY <1>1, <1>t
<1>4. ASSUME NEW i \in 1..Len(s), i # k PROVE \E j \in 1..Len(r) : r[j] = s[i]
  <2>1. CASE i < k
    BY <1>1, <1>t, <2>1
  <2>2. CASE i > k
    <3>1. i - 1 \in k..(Len(s) - 1) /\ i - 1 \in 1..Len(r) /\ (i - 1) + 1 = i
      BY <1>1, <1>t, <2>2
    <3> QED
      BY <1>1, <3>1
  <2> QED
    BY <1>4, <2>1, <2>2
<1> HIDE DEF at
<1>5. Sorted(r) /\ Distinct(r)
  BY <1>2, <1>3 DEF Sorted, Distinct
<1>6. Elems(r) \subseteq Elems(s)
  BY <1>2 DEF Elems
<1>7. IdsOf(r) = IdsOf(s) \ {s[k].id}
  <2>1. ASSUME NEW i \in 1..Len(r) PROVE r[i].id \in IdsOf(s) \ {s[k].id}
    BY <1>2 DEF IdsOf, Distinct
  <2>2. ASSUME NEW i \in 1..Len(s), s[i].id # s[k].id PROVE s[i].id \in IdsOf(r)
    BY <1>4, <2>2 DEF IdsOf
  <2> QED
    BY <2>1, <2>2 DEF IdsOf
<1> QED
  BY <1>1, <1>5, <1>6, <1>7 DEF r

(* begin() is the earliest, and taking it off is erase() at 1.             *)
LEMMA TailInOrder ==
    ASSUME NEW s \in Seq(Task), s # <<>>, Sorted(s), Distinct(s)
    PROVE  /\ Tail(s) \in Seq(Task) /\ Sorted(Tail(s)) /\ Distinct(Tail(s))
           /\ Elems(Tail(s)) \subseteq Elems(s) /\ IdsOf(Tail(s)) = IdsOf(s) \ {Head(s).id}
           /\ Head(s) \in Elems(s) /\ Head(s).id \in IdsOf(s)
<1>1. /\ Len(s) \in Nat /\ 1 \in 1..Len(s) /\ Head(s) = s[1]
      /\ Tail(s) \in Seq(Task) /\ Len(Tail(s)) = Len(s) - 1
      /\ \A i \in 1..(Len(s) - 1) : Tail(s)[i] = s[i + 1]
  OBVIOUS
<1>2. Tail(s) = Erase(s, 1)
  <2>1. /\ Erase(s, 1) \in Seq(Task) /\ Len(Erase(s, 1)) = Len(s) - 1
        /\ \A i \in 1..(Len(s) - 1) : Erase(s, 1)[i] = s[i + 1]
    BY <1>1, ErasePositions
  <2> QED
    BY <1>1, <2>1
<1> QED
  <2>1. LET r == Erase(s, 1)
        IN  /\ r \in Seq(Task) /\ Sorted(r) /\ Distinct(r)
            /\ Elems(r) \subseteq Elems(s) /\ IdsOf(r) = IdsOf(s) \ {s[1].id}
    BY <1>1, EraseInOrder
  <2>2. Head(s) \in Elems(s) /\ Head(s).id \in IdsOf(s)
    BY <1>1 DEF Elems, IdsOf
  <2> QED
    BY <1>1, <1>2, <2>1, <2>2

-----------------------------------------------------------------------------
(* The functors of add_timer() on their way to the loop.                   *)
Adds == {a \in 1..Len(queue) : queue[a].op = "add"}

(* An id is in one place at a time: on its way, in the containers, or with *)
(* tick() while its callback runs; a cancelled one is nowhere.             *)
IdsOnce ==
    /\ SetMapAgree
    /\ \A a \in Adds : /\ queue[a].task.id < next_id
                       /\ queue[a].task.id \notin timer_map \cup cancelled
                       /\ pc = "cb" => queue[a].task.id # cur.id
    /\ \A a, b \in Adds : queue[a].task.id = queue[b].task.id => a = b
    /\ \A i \in timer_map \cup cancelled : i < next_id
    /\ timer_map \cap cancelled = {}
    /\ pc = "cb" => cur.id < next_id /\ cur.id \notin timer_map \cup cancelled

(* The time of the next call of a task, in the containers, on its way to   *)
(* them or, after `fires' has counted the call, in tick().                 *)
OnTime(t) == t.expire = base[t.id] + fires[t.id] * t.interval

DriftInv ==
    /\ \A t \in Elems(timer_set) : OnTime(t)
    /\ \A a \in Adds : fires[queue[a].task.id] = 0 /\ queue[a].task.expire = base[queue[a].task.id]
    /\ pc = "cb" => cur.expire + cur.interval = base[cur.id] + fires[cur.id] * cur.interval
    /\ pc = "cb" => cur.expire <= now
    /\ \A i \in Ids : i >= next_id => fires[i] = 0

WaitInv ==
    /\ tnow <= now
    /\ pc = "wait" => \A t \in Elems(timer_set) :
          deadline >= 0 /\ (deadline <= now \/ deadline <= t.expire)

TimerInv == TypeOK /\ IdsOnce /\ Sorted(timer_set) /\ WaitInv /\ DriftInv

(* What the two operations on the containers do.                           *)
LEMMA AddEffect ==
    ASSUME TypeOK, NEW t \in Task, add_timer_in_loop(t)
    PROVE  /\ timer_set' \in Seq(Task) /\ timer_map' \subseteq Ids
           /\ timer_map' = timer_map \cup {t.id}
           /\ SetMapAgree /\ Sorted(timer_set) /\ t.id \notin timer_map =>
                 /\ SetMapAgree' /\ Sorted(timer_set')
                 /\ Elems(timer_set') = Elems(timer_set) \cup {t}
<1>1. PICK k \in 0..Len(timer_set) :
          UpperBound(timer_set, k, t) /\ timer_set' = Put(timer_set, k, t)
  BY DEF add_timer_in_loop
<1>2. timer_set \in Seq(Task) /\ timer_map \subseteq Ids /\ t.id \in Ids
  BY DEF TypeOK, Task
<1>3. timer_set' \in Seq(Task)
  BY <1>1, <1>2, PutPositions
<1>4. timer_map' = timer_map \cup {t.id}
  BY DEF add_timer_in_loop
<1>5. ASSUME SetMapAgree, Sorted(timer_set), t.id \notin timer_map
      PROVE  /\ SetMapAgree' /\ Sorted(timer_set')
             /\ Elems(timer_set') = Elems(timer_set) \cup {t}
  <2>1. Distinct(timer_set) /\ t.id \notin IdsOf(timer_set)
    BY <1>5 DEF SetMapAgree, Distinct
  <2>2. LET r == Put(timer_set, k, t)
        IN  /\ r \in Seq(Task) /\ Sorted(r) /\ Distinct(r)
            /\ Elems(r) = Elems(timer_set) \cup {t} /\ IdsOf(r) = IdsOf(timer_set) \cup {t.id}
    BY <1>1, <1>2, <1>5, <2>1, PutInOrder
  <2> QED
    BY <1>1, <1>4, <1>5, <2>2 DEF SetMapAgree, Distinct
<1> QED
  BY <1>2, <1>3, <1>4, <1>5

(* cancel_timer_in_loop() takes one element out of both containers, or     *)
(* none.                                                                   *)
LEMMA CancelEffect ==
    ASSUME TypeOK, NEW i \in Ids, cancel_timer_in_loop(i)
    PROVE  /\ timer_set' \in Seq(Task) /\ timer_map' \subseteq timer_map
           /\ object' \subseteq Ids /\ asked' \subseteq Ids /\ cancelled' \subseteq Ids
           /\ SetMapAgree /\ Sorted(timer_set) =>
                 /\ SetMapAgree' /\ Sorted(timer_set')
                 /\ Elems(timer_set') \subseteq Elems(timer_set)
                 /\ timer_map' = timer_map \ {i}
                 /\ cancelled' = cancelled \cup (timer_map \cap {i})
<1>0. timer_set \in Seq(Task) /\ object \subseteq Ids /\ asked \subseteq Ids /\ cancelled \subseteq Ids
  BY DEF TypeOK
<1>1. asked' \subseteq Ids
  BY <1>0 DEF cancel_timer_in_loop
<1>2. CASE /\ i \in timer_map /\ object' = object \ {i} /\ timer_map' = timer_map \ {i}
           /\ \E k \in 1..Len(timer_set) :
                 timer_set[k].id = i /\ timer_set' = Erase(timer_set, k)
           /\ cancelled' = cancelled \cup {i}
  <2>1. PICK k \in 1..Len(timer_set) : timer_set[k].id = i /\ timer_set' = Erase(timer_set, k)
    BY <1>2
  <2>2. timer_set' \in Seq(Task)
    BY <1>0, <2>1, ErasePositions
  <2>3. ASSUME SetMapAgree, Sorted(timer_set)
        PROVE  /\ SetMapAgree' /\ Sorted(timer_set')
               /\ Elems(timer_set') \subseteq Elems(timer_set)
    <3>1. Distinct(timer_set)
      BY <2>3 DEF SetMapAgree, Distinct
    <3>2. LET r == Erase(timer_set, k)
          IN  /\ r \in Seq(Task) /\ Sorted(r) /\ Distinct(r)
              /\ Elems(r) \subseteq Elems(timer_set)
              /\ IdsOf(r) = IdsOf(timer_set) \ {timer_set[k].id}
      BY <1>0, <2>1, <2>3, <3>1, EraseInOrder
    <3> QED
      BY <1>2, <2>1, <2>3, <3>2 DEF SetMapAgree, Distinct
  <2> QED
    BY <1>0, <1>1, <1>2, <2>2, <2>3
<1>3. CASE /\ i \notin timer_map \cap IdsOf(timer_set)
           /\ UNCHANGED <<timer_set, timer_map, object, cancelled>>
  <2>1. SetMapAgree => i \notin timer_map /\ SetMapAgree'
    BY <1>3 DEF SetMapAgree, IdsOf
  <2> QED
    BY <1>0, <1>1, <1>3, <2>1
<1> QED
  BY <1>2, <1>3 DEF cancel_timer_in_loop

(* What a step of add_timer() by any thread creates.                       *)
LEMMA NewTaskType ==
    ASSUME TypeOK, NEW d \in Delays, NEW interval \in {0, d}, next_id <= MaxTimers
    PROVE  /\ NewTask(d, interval) \in Task /\ NewTask(d, interval).id = next_id
           /\ NewTask(d, interval).expire \in Nat /\ next_id \in Ids
           /\ next_id + 1 \in 1..(MaxTimers + 1)
BY TimerAssumption DEF TypeOK, NewTask, Task, Ids

(* The task tick() adds again for an interval timer.                       *)
Again == [cur EXCEPT !.expire = @ + cur.interval]

(* The next turn of an interval timer is a timer again.                    *)
LEMMA AgainType ==
    ASSUME TypeOK
    PROVE  /\ Again \in Task /\ [cur EXCEPT !.expire = @ + cur.interval] \in Task
           /\ Again.id = cur.id /\ Again.interval = cur.interval
           /\ Again.expire = cur.expire + cur.interval
<1>1. cur \in Task
  BY DEF TypeOK
<1>2. cur.expire + cur.interval \in Nat
  BY <1>1 DEF Task
<1> QED
  BY <1>1, <1>2 DEF Again, Task

Item == [op : {"add"}, task : Task] \cup [op : {"cancel"}, id : Ids]

(* Every step keeps the types.                                             *)
LEMMA TimerTypeNext == TypeOK /\ [Next]_vars => TypeOK'
<1> SUFFICES ASSUME TypeOK, [Next]_vars PROVE TypeOK'
  OBVIOUS
<1> USE TimerAssumption
<1>0. queue \in Seq(Item) /\ now \in Nat /\ next_id \in Nat
  BY DEF TypeOK, Item
<1>1. ASSUME NEW d \in Delays, NEW interval \in {0, d}, AddInLoop(d, interval) PROVE TypeOK'
  <2> DEFINE t == NewTask(d, interval)
  <2>1. /\ t \in Task /\ t.id \in Ids /\ t.expire \in Nat /\ next_id + 1 \in 1..(MaxTimers + 1)
    BY <1>1, NewTaskType DEF AddInLoop, Create
  <2>2. add_timer_in_loop(t) /\ Create(t) /\ result' = [result EXCEPT ![t.id] = t.id]
    BY <1>1 DEF AddInLoop
  <2> HIDE DEF t
  <2>3. timer_set' \in Seq(Task) /\ timer_map' \subseteq Ids
    BY <2>1, <2>2, AddEffect
  <2>4. /\ object' \subseteq Ids /\ base' \in [Ids -> Nat] /\ next_id' \in 1..(MaxTimers + 1)
        /\ result' \in [Ids -> Ids \cup {0, -1}]
    BY <2>1, <2>2 DEF Create, TypeOK
  <2> QED
    BY <1>1, <2>3, <2>4 DEF AddInLoop, TypeOK
<1>2. ASSUME NEW d \in Delays, NEW interval \in {0, d}, AddFromOther(d, interval) PROVE TypeOK'
  <2> DEFINE t == NewTask(d, interval)
  <2>1. /\ t \in Task /\ t.id \in Ids /\ t.expire \in Nat /\ next_id + 1 \in 1..(MaxTimers + 1)
    BY <1>2, NewTaskType DEF AddFromOther, Create
  <2>2. /\ Create(t) /\ queue' = Append(queue, [op |-> "add", task |-> t])
        /\ returning' = returning \cup {t.id}
    BY <1>2 DEF AddFromOther
  <2> HIDE DEF t
  <2>3. queue' \in Seq(Item)
    <3>1. [op |-> "add", task |-> t] \in Item
      BY <2>1 DEF Item
    <3> QED
      BY <1>0, <2>2, <3>1
  <2>4. /\ object' \subseteq Ids /\ base' \in [Ids -> Nat] /\ next_id' \in 1..(MaxTimers + 1)
        /\ returning' \subseteq Ids
    BY <2>1, <2>2 DEF Create, TypeOK
  <2> QED
    BY <1>2, <2>3, <2>4 DEF AddFromOther, TypeOK, Item
<1>3. ASSUME NEW i \in Ids, ReturnId(i) PROVE TypeOK'
  BY <1>3 DEF ReturnId, TypeOK
<1>4. ASSUME NEW i \in Ids, CancelInLoop(i) PROVE TypeOK'
  <2>1. /\ timer_set' \in Seq(Task) /\ timer_map' \subseteq timer_map
        /\ object' \subseteq Ids /\ asked' \subseteq Ids /\ cancelled' \subseteq Ids
    BY <1>4, CancelEffect DEF CancelInLoop
  <2> QED
    BY <1>4, <2>1 DEF CancelInLoop, TypeOK
<1>5. ASSUME NEW i \in Ids, CancelFromOther(i) PROVE TypeOK'
  <2>1. queue' \in Seq(Item)
    <3>1. [op |-> "cancel", id |-> i] \in Item
      BY DEF Item
    <3> QED
      BY <1>0, <1>5, <3>1 DEF CancelFromOther
  <2> QED
    BY <1>5, <2>1 DEF CancelFromOther, TypeOK, Item
<1>6. queue # <<>> => Head(queue) \in Item /\ Tail(queue) \in Seq(Item)
  BY <1>0
<1>7. CASE RunAdd
  <2>1. Head(queue).task \in Task
    BY <1>6, <1>7 DEF RunAdd, Item
  <2>2. timer_set' \in Seq(Task) /\ timer_map' \subseteq Ids
    BY <1>7, <2>1, AddEffect DEF RunAdd
  <2> QED
    BY <1>6, <1>7, <2>2 DEF RunAdd, TypeOK, Item
<1>8. CASE RunCancel
  <2>1. Head(queue).id \in Ids
    BY <1>6, <1>8 DEF RunCancel, Item
  <2>2. /\ timer_set' \in Seq(Task) /\ timer_map' \subseteq timer_map
        /\ object' \subseteq Ids /\ asked' \subseteq Ids /\ cancelled' \subseteq Ids
    BY <1>8, <2>1, CancelEffect DEF RunCancel
  <2> QED
    BY <1>6, <1>8, <2>2 DEF RunCancel, TypeOK, Item
<1>9. CASE Block
  <2>1. timer_set # <<>> => Head(timer_set) \in Task
    BY DEF TypeOK
  <2>2. timer_set # <<>> => Head(timer_set).expire \in Nat
    BY <2>1 DEF Task
  <2>3. deadline' \in Int
    BY <1>0, <1>9, <2>2 DEF Block, timeout
  <2> QED
    BY <1>9, <2>3 DEF Block, TypeOK
<1>10. CASE WakeByFunctor \/ WakeByEvent \/ TickStart \/ TickDone \/ Clock
  <2>1. CASE WakeByFunctor \/ WakeByEvent
    BY <2>1 DEF WakeByFunctor, WakeByEvent, TypeOK
  <2>2. CASE TickStart \/ TickDone
    BY <2>2 DEF TickStart, TickDone, TypeOK
  <2>3. CASE Clock
    BY <2>3 DEF Clock, TypeOK
  <2> QED
    BY <1>10, <2>1, <2>2, <2>3
<1>11. CASE Fire
  <2>1. cur' \in Task /\ timer_set' \in Seq(Task)
    BY <1>11 DEF Fire, TypeOK
  <2>2. cur'.id \in Ids
    BY <2>1 DEF Task
  <2> QED
    BY <1>11, <2>1, <2>2 DEF Fire, TypeOK
<1>12. CASE EndCallback
  <2>1. timer_set' \in Seq(Task) /\ timer_map' \subseteq Ids
    <3>1. CASE cur.interval > 0
      BY <1>12, <3>1, AgainType, AddEffect DEF EndCallback
    <3>2. CASE ~(cur.interval > 0)
      BY <1>12, <3>2 DEF EndCallback, TypeOK
    <3> QED
      BY <3>1, <3>2
  <2> QED
    BY <1>12, <2>1 DEF EndCallback, TypeOK
<1>13. CASE UNCHANGED vars
  BY <1>13 DEF vars, TypeOK
<1> QED
  BY <1>1, <1>2, <1>3, <1>4, <1>5, <1>7, <1>8, <1>9, <1>10, <1>11, <1>12, <1>13
  DEF Next, LoopStep, Callers

(* Ids are handed on, never copied; timer_set stays in order; the deadline *)
(* of a wait() in progress is that of the earliest timer.                  *)
LEMMA OrderNext ==
    TypeOK /\ IdsOnce /\ Sorted(timer_set) /\ WaitInv /\ [Next]_vars
        => IdsOnce' /\ Sorted(timer_set)' /\ WaitInv'
<1> SUFFICES ASSUME TypeOK, IdsOnce, Sorted(timer_set), WaitInv, [Next]_vars
             PROVE  IdsOnce' /\ Sorted(timer_set)' /\ WaitInv'
  OBVIOUS
<1> USE TimerAssumption
<1>0. /\ SetMapAgree /\ timer_set \in Seq(Task) /\ queue \in Seq(Item)
      /\ now \in Nat /\ tnow \in Nat /\ next_id \in Nat /\ timer_map \subseteq Ids
      /\ cancelled \subseteq Ids /\ cur \in Task /\ cur.id \in Nat
      /\ \A i \in timer_map \cup cancelled : i \in Nat
  <2>1. /\ SetMapAgree /\ timer_set \in Seq(Task) /\ queue \in Seq(Item)
        /\ now \in Nat /\ tnow \in Nat /\ next_id \in Nat /\ timer_map \subseteq Ids
        /\ cancelled \subseteq Ids /\ cur \in Task
    BY DEF IdsOnce, TypeOK, Item
  <2>2. Ids \subseteq Nat /\ cur.id \in Ids
    BY <2>1 DEF Ids, Task
  <2> QED
    BY <2>1, <2>2
<1>i. \A a \in Adds : a \in 1..Len(queue) /\ queue[a].task \in Task /\ queue[a].task.id \in Nat
  <2>1. \A x \in Item : x.op = "add" => x.task \in Task
    BY DEF Item
  <2>2. \A x \in Task : x.id \in Nat
    BY DEF Task, Ids
  <2> QED
    BY <1>0, <2>1, <2>2 DEF Adds
(* The queue after one more functor, and after the first one is run.       *)
<1>a. ASSUME NEW x \in Item, queue' = Append(queue, x)
      PROVE  \A a \in Adds' : \/ a \in Adds /\ queue'[a] = queue[a]
                              \/ a = Len(queue) + 1 /\ queue'[a] = x /\ x.op = "add"
  BY <1>0, <1>a DEF Adds
<1>b. ASSUME queue # <<>>, queue' = Tail(queue)
      PROVE  /\ \A a \in Adds' : a + 1 \in Adds /\ a + 1 # 1 /\ queue'[a] = queue[a + 1]
             /\ \A a, b \in Adds' : a + 1 = b + 1 => a = b
             /\ Head(queue) = queue[1] /\ Head(queue) \in Item
             /\ Head(queue).op = "add" => 1 \in Adds
  <2>1. /\ Len(queue) \in Nat /\ Len(queue) > 0 /\ Len(Tail(queue)) = Len(queue) - 1
        /\ \A a \in 1..Len(Tail(queue)) : Tail(queue)[a] = queue[a + 1]
        /\ Head(queue) = queue[1] /\ Head(queue) \in Item
    BY <1>0, <1>b
  <2> QED
    BY <1>b, <2>1 DEF Adds
(* Steps that only move the thread, the clock or the history.              *)
<1>c. ASSUME UNCHANGED <<timer_set, timer_map, cancelled, queue, next_id, cur>>,
             pc' = "cb" => pc = "cb"
      PROVE  IdsOnce' /\ Sorted(timer_set)'
  BY <1>c DEF IdsOnce, SetMapAgree, Sorted, Adds
<1>1. ASSUME NEW d \in Delays, NEW interval \in {0, d}, AddInLoop(d, interval)
      PROVE  IdsOnce' /\ Sorted(timer_set)' /\ WaitInv'
  <2> DEFINE t == NewTask(d, interval)
  <2>1. t \in Task /\ t.id = next_id
    BY <1>1, NewTaskType DEF AddInLoop, Create
  <2>2. /\ add_timer_in_loop(t) /\ next_id' = next_id + 1
        /\ UNCHANGED <<pc, now, tnow, cur, queue, cancelled>> /\ pc \in {"user", "cb"}
    BY <1>1 DEF AddInLoop, Create
  <2> HIDE DEF t
  <2>3. t.id \notin timer_map /\ t.id \notin cancelled
    BY <1>0, <2>1 DEF IdsOnce
  <2>4. SetMapAgree' /\ Sorted(timer_set') /\ timer_map' = timer_map \cup {t.id}
    BY <1>0, <2>1, <2>2, <2>3, AddEffect
  <2>5. Adds' = Adds /\ \A a \in Adds : queue'[a] = queue[a]
    BY <2>2 DEF Adds
  <2>6. IdsOnce'
    <3>1. \A a \in Adds' : /\ queue'[a].task.id < next_id'
                           /\ queue'[a].task.id \notin timer_map' \cup cancelled'
                           /\ pc' = "cb" => queue'[a].task.id # cur'.id
      BY <1>0, <1>i, <2>1, <2>2, <2>4, <2>5 DEF IdsOnce
    <3>2. \A a, b \in Adds' : queue'[a].task.id = queue'[b].task.id => a = b
      BY <2>5 DEF IdsOnce
    <3>3. \A i \in timer_map' \cup cancelled' : i < next_id'
      BY <1>0, <2>1, <2>2, <2>4 DEF IdsOnce
    <3>4. /\ timer_map' \cap cancelled' = {}
          /\ pc' = "cb" => cur'.id < next_id' /\ cur'.id \notin timer_map' \cup cancelled'
      BY <1>0, <2>1, <2>2, <2>3, <2>4 DEF IdsOnce
    <3> QED
      BY <2>4, <3>1, <3>2, <3>3, <3>4 DEF IdsOnce
  <2> QED
    BY <2>2, <2>4, <2>6 DEF WaitInv
<1>2. ASSUME NEW d \in Delays, NEW interval \in {0, d}, AddFromOther(d, interval)
      PROVE  IdsOnce' /\ Sorted(timer_set)' /\ WaitInv'
  <2> DEFINE t == NewTask(d, interval)
             x == [op |-> "add", task |-> t]
  <2>1. t \in Task /\ t.id = next_id
    BY <1>2, NewTaskType DEF AddFromOther, Create
  <2>2. /\ queue' = Append(queue, x) /\ next_id' = next_id + 1
        /\ UNCHANGED <<pc, now, tnow, deadline, cur, timer_set, timer_map, cancelled>>
    BY <1>2 DEF AddFromOther, Create
  <2>3. x \in Item /\ x.task.id = next_id
    BY <2>1 DEF Item
  <2> HIDE DEF x
  <2>4. \A a \in Adds' : \/ a \in Adds /\ queue'[a] = queue[a]
                         \/ a = Len(queue) + 1 /\ queue'[a].task.id = next_id
    BY <1>a, <2>2, <2>3
  <2>5. IdsOnce'
    <3>1. SetMapAgree'
      BY <1>0, <2>2 DEF SetMapAgree
    <3>2. \A a \in Adds' : /\ queue'[a].task.id < next_id'
                           /\ queue'[a].task.id \notin timer_map' \cup cancelled'
                           /\ pc' = "cb" => queue'[a].task.id # cur'.id
      BY <1>0, <1>i, <2>2, <2>4 DEF IdsOnce
    <3>3. \A a, b \in Adds' : queue'[a].task.id = queue'[b].task.id => a = b
      <4>1. \A a \in Adds : queue[a].task.id < next_id /\ queue[a].task.id # next_id
        BY <1>0, <1>i DEF IdsOnce
      <4>2. \A a, b \in Adds : queue[a].task.id = queue[b].task.id => a = b
        BY DEF IdsOnce
      <4> QED
        BY <2>4, <4>1, <4>2
    <3>4. /\ \A i \in timer_map' \cup cancelled' : i < next_id'
          /\ timer_map' \cap cancelled' = {}
          /\ pc' = "cb" => cur'.id < next_id' /\ cur'.id \notin timer_map' \cup cancelled'
      BY <1>0, <2>2 DEF IdsOnce
    <3> QED
      BY <3>1, <3>2, <3>3, <3>4 DEF IdsOnce
  <2> QED
    BY <2>2, <2>5 DEF WaitInv, Sorted
<1>3. ASSUME NEW i \in Ids, ReturnId(i)
      PROVE  IdsOnce' /\ Sorted(timer_set)' /\ WaitInv'
  BY <1>3, <1>c DEF ReturnId, WaitInv
<1>4. ASSUME NEW i \in Ids, cancel_timer_in_loop(i), UNCHANGED <<next_id, cur, pc, now, tnow>>,
             pc # "wait",
             \/ queue' = queue
             \/ queue # <<>> /\ queue' = Tail(queue)
      PROVE  IdsOnce' /\ Sorted(timer_set)' /\ WaitInv'
  <2>1. /\ SetMapAgree' /\ Sorted(timer_set')
        /\ timer_map' = timer_map \ {i}
        /\ cancelled' = cancelled \cup (timer_map \cap {i})
    BY <1>0, <1>4, CancelEffect
  <2>2. /\ \A a \in Adds' : \E b \in Adds : queue'[a] = queue[b]
        /\ \A a, b \in Adds' : queue'[a].task.id = queue'[b].task.id => a = b
    <3>1. CASE queue' = queue
      BY <3>1 DEF Adds, IdsOnce
    <3>2. CASE queue # <<>> /\ queue' = Tail(queue)
      <4>1. /\ \A a \in Adds' : a + 1 \in Adds /\ queue'[a] = queue[a + 1]
            /\ \A a, b \in Adds' : a + 1 = b + 1 => a = b
        BY <1>b, <3>2
      <4>2. \A a, b \in Adds : queue[a].task.id = queue[b].task.id => a = b
        BY DEF IdsOnce
      <4> QED
        BY <4>1, <4>2
    <3> QED
      BY <1>4, <3>1, <3>2
  <2>3. IdsOnce'
    BY <1>0, <1>4, <2>1, <2>2 DEF IdsOnce
  <2> QED
    BY <1>4, <2>1, <2>3 DEF WaitInv
<1>5. ASSUME NEW i \in Ids, CancelInLoop(i)
      PROVE  IdsOnce' /\ Sorted(timer_set)' /\ WaitInv'
  BY <1>4, <1>5 DEF CancelInLoop
<1>6. ASSUME NEW i \in Ids, CancelFromOther(i)
      PROVE  IdsOnce' /\ Sorted(timer_set)' /\ WaitInv'
  <2> DEFINE x == [op |-> "cancel", id |-> i]
  <2>1. /\ queue' = Append(queue, x) /\ x \in Item /\ x.op # "add"
        /\ UNCHANGED <<pc, now, tnow, deadline, cur, next_id, timer_set, timer_map, cancelled>>
    BY <1>6 DEF CancelFromOther, Item
  <2>2. \A a \in Adds' : a \in Adds /\ queue'[a] = queue[a]
    BY <1>a, <2>1
  <2>3. IdsOnce'
    BY <2>1, <2>2 DEF IdsOnce, SetMapAgree
  <2> QED
    BY <2>1, <2>3 DEF WaitInv, Sorted
<1>7. CASE RunAdd
  <2> DEFINE t == Head(queue).task
  <2>1. /\ queue # <<>> /\ queue' = Tail(queue) /\ Head(queue).op = "add" /\ add_timer_in_loop(t)
        /\ UNCHANGED <<pc, now, tnow, cur, next_id, cancelled>> /\ pc = "user"
    BY <1>7 DEF RunAdd
  <2>2. 1 \in Adds /\ t = queue[1].task /\ t \in Task
    BY <1>b, <1>i, <2>1
  <2>3. t.id < next_id /\ t.id \notin timer_map /\ t.id \notin cancelled
    BY <2>2 DEF IdsOnce
  <2> HIDE DEF t
  <2>4. SetMapAgree' /\ Sorted(timer_set') /\ timer_map' = timer_map \cup {t.id}
    BY <1>0, <2>1, <2>2, <2>3, AddEffect
  <2>5. \A a \in Adds' : /\ queue'[a].task.id < next_id
                         /\ queue'[a].task.id \notin timer_map' \cup cancelled
    <3>1. \A a \in Adds' : a + 1 \in Adds /\ a + 1 # 1 /\ queue'[a] = queue[a + 1]
      BY <1>b, <2>1
    <3>2. \A a \in Adds : a # 1 => queue[a].task.id # t.id
      BY <2>2 DEF IdsOnce
    <3> QED
      BY <2>4, <3>1, <3>2 DEF IdsOnce
  <2>6. \A a, b \in Adds' : queue'[a].task.id = queue'[b].task.id => a = b
    <3>1. /\ \A a \in Adds' : a + 1 \in Adds /\ queue'[a] = queue[a + 1]
          /\ \A a, b \in Adds' : a + 1 = b + 1 => a = b
      BY <1>b, <2>1
    <3>2. \A a, b \in Adds : queue[a].task.id = queue[b].task.id => a = b
      BY DEF IdsOnce
    <3> QED
      BY <3>1, <3>2
  <2>7. IdsOnce'
    BY <2>1, <2>3, <2>4, <2>5, <2>6 DEF IdsOnce
  <2> QED
    BY <2>1, <2>4, <2>7 DEF WaitInv
<1>8. CASE RunCancel
  <2>1. Head(queue).id \in Ids
    BY <1>b, <1>8 DEF RunCancel, Item
  <2> QED
    BY <1>4, <1>8, <2>1 DEF RunCancel
<1>9. CASE Block
  <2>1. UNCHANGED <<timer_set, now, tnow>> /\ deadline' = IF timeout < 0 THEN -1 ELSE now + timeout
    BY <1>9 DEF Block
  <2>2. ASSUME NEW t \in Elems(timer_set)
        PROVE  deadline' >= 0 /\ (deadline' <= now \/ deadline' <= t.expire)
    <3>1. PICK i \in 1..Len(timer_set) : t = timer_set[i]
      BY DEF Elems
    <3>2. timer_set # <<>> /\ Head(timer_set) = timer_set[1] /\ 1 \in 1..Len(timer_set)
      BY <1>0, <3>1
    <3>3. timer_set[1].expire <= timer_set[i].expire
      <4>1. CASE i = 1
        <5>1. timer_set[1] \in Task
          BY <1>0, <3>2
        <5> QED
          BY <4>1, <5>1 DEF Task
      <4>2. CASE i # 1
        BY <3>2, <4>2 DEF Sorted
      <4> QED
        BY <4>1, <4>2
    <3>4. timer_set[1] \in Task /\ timer_set[i] \in Task
      BY <1>0, <3>2
    <3>5. timer_set[1].expire \in Nat /\ timer_set[i].expire \in Nat
      BY <3>4 DEF Task
    <3> QED
      BY <1>0, <2>1, <3>1, <3>2, <3>3, <3>5 DEF timeout
  <2> QED
    BY <1>9, <1>c, <2>1, <2>2 DEF Block, WaitInv
<1>10. CASE WakeByFunctor \/ WakeByEvent \/ TickStart \/ TickDone
  BY <1>0, <1>10, <1>c DEF WakeByFunctor, WakeByEvent, TickStart, TickDone, WaitInv
<1>11. CASE Clock
  <2>1. /\ UNCHANGED <<timer_set, timer_map, cancelled, queue, next_id, cur, pc, tnow, deadline>>
        /\ now' = now + 1
    BY <1>11 DEF Clock
  <2>2. deadline \in Int
    BY DEF TypeOK
  <2>3. WaitInv'
    BY <1>0, <2>1, <2>2 DEF WaitInv
  <2> QED
    BY <1>c, <2>1, <2>3
<1>12. CASE Fire
  <2>1. /\ pc = "tick" /\ pc' = "cb" /\ timer_set # <<>> /\ cur' = Head(timer_set)
        /\ timer_set' = Tail(timer_set) /\ timer_map' = timer_map \ {cur'.id}
        /\ UNCHANGED <<now, tnow, queue, next_id, cancelled>>
    BY <1>12 DEF Fire
  <2>2. /\ Sorted(timer_set') /\ Distinct(timer_set')
        /\ IdsOf(timer_set') = IdsOf(timer_set) \ {cur'.id} /\ cur'.id \in IdsOf(timer_set)
    BY <1>0, <2>1, TailInOrder DEF SetMapAgree, Distinct
  <2>3. SetMapAgree' /\ cur'.id \in timer_map
    BY <1>0, <2>1, <2>2 DEF SetMapAgree, Distinct
  <2>4. Adds' = Adds /\ \A a \in Adds : queue'[a] = queue[a]
    BY <2>1 DEF Adds
  <2>5. IdsOnce'
    BY <2>1, <2>3, <2>4 DEF IdsOnce
  <2> QED
    BY <2>1, <2>2, <2>5 DEF WaitInv
<1>13. CASE EndCallback
  <2>1. /\ pc = "cb" /\ pc' = "tick" /\ UNCHANGED <<now, tnow, cur, queue, next_id, cancelled>>
        /\ IF cur.interval > 0 THEN add_timer_in_loop(Again)
                               ELSE UNCHANGED <<timer_set, timer_map>>
    BY <1>13 DEF EndCallback, Again
  <2>2. Again \in Task /\ Again.id = cur.id
    BY AgainType
  <2>3. CASE cur.interval > 0
    <3>1. cur.id \notin timer_map /\ cur.id \notin cancelled /\ cur.id < next_id
      BY <2>1 DEF IdsOnce
    <3>2. SetMapAgree' /\ Sorted(timer_set') /\ timer_map' = timer_map \cup {cur.id}
      BY <1>0, <2>1, <2>2, <2>3, <3>1, AddEffect
    <3>3. Adds' = Adds /\ \A a \in Adds : queue'[a] = queue[a]
      BY <2>1 DEF Adds
    <3>4. IdsOnce'
      BY <2>1, <3>1, <3>2, <3>3 DEF IdsOnce
    <3> QED
      BY <2>1, <3>2, <3>4 DEF WaitInv
  <2>4. CASE ~(cur.interval > 0)
    BY <1>c, <2>1, <2>4 DEF WaitInv
  <2> QED
    BY <2>3, <2>4
<1>14. CASE UNCHANGED vars
  BY <1>14, <1>c DEF vars, WaitInv
<1> QED
  BY <1>1, <1>2, <1>3, <1>5, <1>6, <1>7, <1>8, <1>9, <1>10, <1>11, <1>12, <1>13, <1>14
  DEF Next, LoopStep, Callers

(* One more interval, as arithmetic.                                       *)
LEMMA NextTurn == \A b, f, k \in Nat : b + (f + 1) * k = (b + f * k) + k /\ b <= b + f * k
<1>1. \A f, k \in Nat : (f + 1) * k = f * k + k /\ f * k \in Nat
  OBVIOUS
<1> QED
  BY <1>1

(* The callback counted by `fires' is the one of `expire', and the task    *)
(* tick() adds again is due one interval later.                            *)
LEMMA DriftNext ==
    TypeOK /\ IdsOnce /\ Sorted(timer_set) /\ WaitInv /\ DriftInv /\ [Next]_vars => DriftInv'
<1> SUFFICES ASSUME TypeOK, IdsOnce, Sorted(timer_set), WaitInv, DriftInv, [Next]_vars
             PROVE  DriftInv'
  OBVIOUS
<1> USE TimerAssumption
<1>0. /\ SetMapAgree /\ timer_set \in Seq(Task) /\ queue \in Seq(Item)
      /\ now \in Nat /\ tnow \in Nat /\ next_id \in Nat /\ timer_map \subseteq Ids
      /\ base \in [Ids -> Nat] /\ fires \in [Ids -> Nat] /\ cur \in Task
  BY DEF IdsOnce, TypeOK, Item
<1>r. \A x \in Task : x.id \in Ids /\ x.id \in Nat /\ x.expire \in Nat /\ x.interval \in Nat
  BY DEF Task, Ids
<1>e. \A t \in Elems(timer_set) : t \in Task /\ t.id \in timer_map /\ t.id < next_id
  <2>1. \A i \in 1..Len(timer_set) : timer_set[i] \in Task /\ timer_set[i].id \in timer_map
    BY <1>0 DEF SetMapAgree, IdsOf
  <2> QED
    BY <2>1 DEF Elems, IdsOnce
<1>i. \A a \in Adds : queue[a].task \in Task /\ queue[a].task.id < next_id
  <2>1. \A x \in Item : x.op = "add" => x.task \in Task
    BY DEF Item
  <2> QED
    BY <1>0, <2>1 DEF Adds, IdsOnce
(* Steps that neither create a timer nor call one.                         *)
<1>c. ASSUME UNCHANGED <<base, fires, next_id, cur>>, now' >= now, now' \in Nat,
             Elems(timer_set') \subseteq Elems(timer_set),
             \A a \in Adds' : \E b \in Adds : queue'[a] = queue[b],
             pc' = "cb" => pc = "cb"
      PROVE  DriftInv'
  <2>1. cur.expire \in Nat /\ (cur.expire <= now => cur.expire <= now')
    BY <1>0, <1>c, <1>r
  <2> QED
    BY <1>c, <2>1 DEF DriftInv, OnTime
<1>b. ASSUME queue # <<>>, queue' = Tail(queue)
      PROVE  /\ \A a \in Adds' : \E b \in Adds : queue'[a] = queue[b]
             /\ Head(queue).op = "add" => \E b \in Adds : Head(queue) = queue[b]
  <2>1. /\ Len(queue) \in Nat /\ Len(queue) > 0 /\ Len(Tail(queue)) = Len(queue) - 1
        /\ \A a \in 1..Len(Tail(queue)) : Tail(queue)[a] = queue[a + 1]
        /\ Head(queue) = queue[1]
    BY <1>0, <1>b
  <2>2. \A a \in Adds' : a + 1 \in Adds /\ queue'[a] = queue[a + 1]
    BY <1>b, <2>1 DEF Adds
  <2>3. Head(queue).op = "add" => 1 \in Adds
    BY <2>1 DEF Adds
  <2> QED
    BY <2>1, <2>2, <2>3
(* A new timer: nothing else has its id.                                   *)
<1>n. ASSUME NEW t \in Task, t.id = next_id, t.id \in Ids, next_id' = next_id + 1,
             base' = [base EXCEPT ![t.id] = t.expire], UNCHANGED <<fires, now, cur, pc>>
      PROVE  /\ fires[t.id] = 0 /\ base'[t.id] = t.expire /\ OnTime(t)'
             /\ \A x \in Elems(timer_set) : OnTime(x)'
             /\ \A a \in Adds : fires'[queue[a].task.id] = 0
                                /\ queue[a].task.expire = base'[queue[a].task.id]
             /\ pc' = "cb" => cur'.expire + cur'.interval
                                 = base'[cur'.id] + fires'[cur'.id] * cur'.interval
             /\ pc' = "cb" => cur'.expire <= now'
             /\ \A i \in Ids : i >= next_id' => fires'[i] = 0
  <2>1. fires[t.id] = 0
    BY <1>0, <1>n DEF DriftInv
  <2>2. base'[t.id] = t.expire /\ \A i \in Ids : i < next_id => base'[i] = base[i]
    BY <1>0, <1>n
  <2>3. OnTime(t)'
    <3>1. t.expire = t.expire + 0 * t.interval
      BY <1>r, <1>n
    <3> QED
      BY <1>n, <2>1, <2>2, <3>1 DEF OnTime
  <2>4. \A x \in Elems(timer_set) : OnTime(x)'
    BY <1>e, <1>n, <1>r, <2>2 DEF DriftInv, OnTime
  <2>5. \A a \in Adds : fires'[queue[a].task.id] = 0
                        /\ queue[a].task.expire = base'[queue[a].task.id]
    BY <1>i, <1>n, <1>r, <2>2 DEF DriftInv
  <2>6. pc' = "cb" => cur'.expire + cur'.interval
                         = base'[cur'.id] + fires'[cur'.id] * cur'.interval
    BY <1>0, <1>n, <1>r, <2>2 DEF DriftInv, IdsOnce
  <2>7. /\ pc' = "cb" => cur'.expire <= now'
        /\ \A i \in Ids : i >= next_id' => fires'[i] = 0
    <3>1. \A i \in Ids : i \in Nat
      BY DEF Ids
    <3> QED
      BY <1>0, <1>n, <2>1, <3>1 DEF DriftInv
  <2> QED
    BY <2>1, <2>2, <2>3, <2>4, <2>5, <2>6, <2>7
<1>1. ASSUME NEW d \in Delays, NEW interval \in {0, d}, AddInLoop(d, interval) PROVE DriftInv'
  <2> DEFINE t == NewTask(d, interval)
  <2>1. t \in Task /\ t.id = next_id /\ t.id \in Ids
    BY <1>1, NewTaskType DEF AddInLoop, Create
  <2>2. /\ add_timer_in_loop(t) /\ next_id' = next_id + 1
        /\ base' = [base EXCEPT ![t.id] = t.expire]
        /\ UNCHANGED <<fires, now, cur, pc, queue>>
    BY <1>1 DEF AddInLoop, Create
  <2> HIDE DEF t
  <2>3. t.id \notin timer_map
    BY <1>0, <2>1 DEF IdsOnce
  <2>4. Elems(timer_set') = Elems(timer_set) \cup {t}
    BY <1>0, <2>1, <2>2, <2>3, AddEffect
  <2>5. Adds' = Adds
    BY <2>2 DEF Adds
  <2> QED
    BY <1>n, <2>1, <2>2, <2>4, <2>5 DEF DriftInv
<1>2. ASSUME NEW d \in Delays, NEW interval \in {0, d}, AddFromOther(d, interval) PROVE DriftInv'
  <2> DEFINE t == NewTask(d, interval)
             x == [op |-> "add", task |-> t]
  <2>1. t \in Task /\ t.id = next_id /\ t.id \in Ids
    BY <1>2, NewTaskType DEF AddFromOther, Create
  <2>2. /\ queue' = Append(queue, x) /\ next_id' = next_id + 1
        /\ base' = [base EXCEPT ![t.id] = t.expire]
        /\ UNCHANGED <<fires, now, cur, pc, timer_set>>
    BY <1>2 DEF AddFromOther, Create
  <2>3. x \in Item /\ x.task = t
    BY <2>1 DEF Item
  <2> HIDE DEF t, x
  <2>4. \A a \in Adds' : queue'[a] = x \/ (a \in Adds /\ queue'[a] = queue[a])
    BY <1>0, <2>2, <2>3 DEF Adds
  <2>5. \A a \in Adds' : fires'[queue'[a].task.id] = 0
                         /\ queue'[a].task.expire = base'[queue'[a].task.id]
    <3>1. /\ fires[t.id] = 0 /\ base'[t.id] = t.expire
          /\ \A a \in Adds : fires'[queue[a].task.id] = 0
                             /\ queue[a].task.expire = base'[queue[a].task.id]
      BY <1>n, <2>1, <2>2
    <3> QED
      BY <2>2, <2>3, <2>4, <3>1
  <2> QED
    BY <1>n, <2>1, <2>2, <2>5 DEF DriftInv
<1>3. ASSUME NEW i \in Ids, ReturnId(i) PROVE DriftInv'
  BY <1>0, <1>3, <1>c DEF ReturnId, Adds
<1>4. ASSUME NEW i \in Ids, CancelInLoop(i) PROVE DriftInv'
  <2>1. Elems(timer_set') \subseteq Elems(timer_set)
    BY <1>0, <1>4, CancelEffect DEF CancelInLoop
  <2> QED
    BY <1>0, <1>4, <1>c, <2>1 DEF CancelInLoop, Adds
<1>5. ASSUME NEW i \in Ids, CancelFromOther(i) PROVE DriftInv'
  <2> DEFINE x == [op |-> "cancel", id |-> i]
  <2>1. queue' = Append(queue, x) /\ x \in Item /\ x.op # "add"
    BY <1>5 DEF CancelFromOther, Item
  <2>2. \A a \in Adds' : a \in Adds /\ queue'[a] = queue[a]
    <3> HIDE DEF x
    <3> QED
      BY <1>0, <2>1 DEF Adds
  <2> QED
    <3>1. UNCHANGED <<base, fires, next_id, cur, now, timer_set, pc>>
      BY <1>5 DEF CancelFromOther
    <3>2. now' >= now /\ now' \in Nat /\ Elems(timer_set') = Elems(timer_set)
      BY <1>0, <3>1
    <3> QED
      BY <1>c, <2>2, <3>1, <3>2
<1>6. CASE RunAdd
  <2> DEFINE t == Head(queue).task
  <2>1. /\ queue # <<>> /\ queue' = Tail(queue) /\ Head(queue).op = "add" /\ add_timer_in_loop(t)
        /\ UNCHANGED <<base, fires, now, cur, next_id>> /\ pc' = "user"
    BY <1>6 DEF RunAdd
  <2>2. PICK b \in Adds : Head(queue) = queue[b]
    BY <1>b, <2>1
  <2>3. t \in Task /\ t.id \notin timer_map /\ fires[t.id] = 0 /\ t.expire = base[t.id]
    BY <1>i, <2>2 DEF IdsOnce, DriftInv
  <2> HIDE DEF t
  <2>4. Elems(timer_set') = Elems(timer_set) \cup {t}
    BY <1>0, <2>1, <2>3, AddEffect
  <2>5. OnTime(t)
    <3>1. t.expire = t.expire + 0 * t.interval
      BY <1>r, <2>3
    <3> QED
      BY <2>3, <3>1 DEF OnTime
  <2>6. \A a \in Adds' : \E c \in Adds : queue'[a] = queue[c]
    BY <1>b, <2>1
  <2> QED
    <3>1. \A x \in Elems(timer_set') : OnTime(x)'
      BY <2>1, <2>4, <2>5 DEF DriftInv, OnTime
    <3>2. \A a \in Adds' : fires'[queue'[a].task.id] = 0
                           /\ queue'[a].task.expire = base'[queue'[a].task.id]
      <4>1. \A c \in Adds : fires[queue[c].task.id] = 0
                            /\ queue[c].task.expire = base[queue[c].task.id]
        BY DEF DriftInv
      <4> QED
        BY <2>1, <2>6, <4>1
    <3>3. \A i \in Ids : i >= next_id' => fires'[i] = 0
      BY <2>1 DEF DriftInv
    <3> QED
      BY <2>1, <3>1, <3>2, <3>3 DEF DriftInv
<1>7. CASE RunCancel
  <2>1. Head(queue).id \in Ids
    <3>1. Head(queue) \in Item
      BY <1>0, <1>7 DEF RunCancel
    <3> QED
      BY <1>7, <3>1 DEF RunCancel, Item
  <2>2. Elems(timer_set') \subseteq Elems(timer_set)
    BY <1>0, <1>7, <2>1, CancelEffect DEF RunCancel
  <2> QED
    <3>1. UNCHANGED <<base, fires, next_id, cur, now, pc>> /\ queue # <<>> /\ queue' = Tail(queue)
      BY <1>7 DEF RunCancel
    <3>2. \A a \in Adds' : \E b \in Adds : queue'[a] = queue[b]
      BY <1>b, <3>1
    <3>3. now' >= now /\ now' \in Nat
      BY <1>0, <3>1
    <3> QED
      BY <1>c, <2>2, <3>1, <3>2, <3>3
<1>8. CASE Block \/ WakeByFunctor \/ WakeByEvent \/ TickStart \/ TickDone \/ Clock
  <2>1. /\ UNCHANGED <<base, fires, next_id, cur, timer_set, queue>>
        /\ now' \in {now, now + 1} /\ (pc' = "cb" => pc = "cb")
    BY <1>8 DEF Block, WakeByFunctor, WakeByEvent, TickStart, TickDone, Clock
  <2>2. now' >= now /\ now' \in Nat
    BY <1>0, <2>1
  <2>3. Elems(timer_set') = Elems(timer_set) /\ Adds' = Adds
    BY <2>1 DEF Elems, Adds
  <2> QED
    BY <1>c, <2>1, <2>2, <2>3
<1>9. CASE Fire
  <2> DEFINE t == Head(timer_set)
  <2>1. /\ timer_set # <<>> /\ t.expire <= tnow /\ cur' = t /\ timer_set' = Tail(timer_set)
        /\ fires' = [fires EXCEPT ![t.id] = @ + 1] /\ pc' = "cb"
        /\ UNCHANGED <<now, queue, next_id, base>>
    BY <1>9 DEF Fire
  <2>2. /\ t \in Elems(timer_set) /\ Elems(timer_set') \subseteq Elems(timer_set)
        /\ IdsOf(timer_set') = IdsOf(timer_set) \ {t.id}
    BY <1>0, <2>1, TailInOrder DEF SetMapAgree, Distinct
  <2>3. \A x \in Elems(timer_set') : x.id # t.id /\ x \in Elems(timer_set)
    BY <2>2 DEF Elems, IdsOf
  <2> HIDE DEF t
  <2>4. /\ t \in Task /\ t.id \in timer_map /\ t.id < next_id /\ OnTime(t)
        /\ t.id \in Ids /\ t.id \in Nat /\ t.expire \in Nat /\ t.interval \in Nat
        /\ base[t.id] \in Nat /\ fires[t.id] \in Nat
    BY <1>0, <1>e, <1>r, <2>2 DEF DriftInv
  <2>5. fires'[t.id] = fires[t.id] + 1 /\ \A i \in Ids : i # t.id => fires'[i] = fires[i]
    BY <1>0, <2>1, <2>4
  <2>6. \A x \in Elems(timer_set') : OnTime(x)'
    BY <1>e, <1>r, <2>1, <2>3, <2>5 DEF DriftInv, OnTime
  <2>7. \A a \in Adds' : fires'[queue'[a].task.id] = 0
                         /\ queue'[a].task.expire = base'[queue'[a].task.id]
    BY <1>i, <1>r, <2>1, <2>4, <2>5 DEF DriftInv, Adds, IdsOnce
  <2>8. t.expire + t.interval = base[t.id] + fires'[t.id] * t.interval
    <3> DEFINE b == base[t.id]  f == fires[t.id]  k == t.interval
    <3>1. b \in Nat /\ f \in Nat /\ k \in Nat
      BY <2>4
    <3>2. t.expire = b + f * k
      BY <2>4 DEF OnTime
    <3>3. fires'[t.id] = f + 1
      BY <2>5
    <3> HIDE DEF b, f, k
    <3>4. b + (f + 1) * k = (b + f * k) + k
      BY <3>1, NextTurn
    <3>5. t.expire + k = b + fires'[t.id] * k
      BY <3>2, <3>3, <3>4
    <3> QED
      BY <3>5 DEF b, k
  <2>9. cur'.expire <= now'
    <3>1. tnow <= now
      BY DEF WaitInv
    <3> QED
      BY <1>0, <2>1, <2>4, <3>1
  <2>10. \A i \in Ids : i >= next_id' => fires'[i] = 0
    <3>1. \A i \in Ids : i >= next_id => i # t.id
      BY <1>0, <2>4 DEF Ids
    <3> QED
      BY <2>1, <2>5, <3>1 DEF DriftInv
  <2> QED
    BY <2>1, <2>6, <2>7, <2>8, <2>9, <2>10 DEF DriftInv
<1>10. CASE EndCallback
  <2>1. /\ pc = "cb" /\ pc' = "tick" /\ UNCHANGED <<now, cur, queue, next_id, base, fires>>
        /\ IF cur.interval > 0 THEN add_timer_in_loop(Again)
                               ELSE UNCHANGED <<timer_set, timer_map>>
    BY <1>10 DEF EndCallback, Again
  <2>2. /\ Again \in Task /\ Again.id = cur.id /\ Again.interval = cur.interval
        /\ Again.expire = cur.expire + cur.interval
    BY AgainType
  <2>3. \A x \in Elems(timer_set') : x \in Elems(timer_set) \/ x = Again
    <3>1. CASE cur.interval > 0
      BY <1>0, <2>1, <2>2, <3>1, AddEffect DEF IdsOnce
    <3>2. CASE ~(cur.interval > 0)
      BY <2>1, <3>2
    <3> QED
      BY <3>1, <3>2
  <2>4. OnTime(Again)
    BY <2>1, <2>2 DEF OnTime, DriftInv
  <2>5. \A x \in Elems(timer_set') : OnTime(x)'
    BY <2>1, <2>2, <2>3, <2>4 DEF OnTime, DriftInv
  <2>6. Adds' = Adds
    BY <2>1 DEF Adds
  <2> QED
    BY <2>1, <2>5, <2>6 DEF DriftInv
<1>11. CASE UNCHANGED vars
  <2>1. UNCHANGED <<base, fires, next_id, cur, now, pc, timer_set, queue>>
    BY <1>11 DEF vars
  <2>2. Adds' = Adds /\ Elems(timer_set') = Elems(timer_set) /\ now' >= now /\ now' \in Nat
    BY <1>0, <2>1 DEF Adds
  <2> QED
    BY <1>c, <2>1, <2>2
<1> QED
  BY <1>1, <1>2, <1>3, <1>4, <1>5, <1>6, <1>7, <1>8, <1>9, <1>10, <1>11
  DEF Next, LoopStep, Callers

(* The inductive invariant of the timers.                                  *)
LEMMA TimerInvAlways == Spec => []TimerInv
<1>1. Init => TimerInv
  <2> SUFFICES ASSUME Init PROVE TimerInv
    OBVIOUS
  <2> USE TimerAssumption
  <2>0. /\ pc = "user" /\ now = 0 /\ tnow = 0 /\ timer_map = {} /\ cancelled = {}
        /\ fires = [i \in Ids |-> 0]
    BY DEF Init
  <2>1. Len(timer_set) = 0 /\ Len(queue) = 0
    BY DEF Init
  <2>2. Adds = {} /\ Elems(timer_set) = {} /\ IdsOf(timer_set) = {}
    BY <2>1 DEF Adds, Elems, IdsOf
  <2>3. TypeOK
    BY DEF Init, TypeOK, Task, Ids
  <2>4. IdsOnce /\ Sorted(timer_set)
    BY <2>0, <2>1, <2>2 DEF IdsOnce, SetMapAgree, Sorted
  <2>5. WaitInv /\ DriftInv
    BY <2>0, <2>2 DEF WaitInv, DriftInv
  <2> QED
    BY <2>3, <2>4, <2>5 DEF TimerInv
<1>2. TimerInv /\ [Next]_vars => TimerInv'
  BY TimerTypeNext, OrderNext, DriftNext DEF TimerInv
<1> QED
  BY <1>1, <1>2, PTL DEF Spec

(* timer_set and timer_map hold the same timers, in order of expire, and   *)
(* wait() never sleeps past the earliest of them, for every number of      *)
(* timers added and cancelled by any thread and by callbacks.              *)
THEOREM ContainersInOrder == Spec => []TimersInOrder
<1>1. TimerInv => TimersInOrder
  <2> SUFFICES ASSUME TimerInv PROVE TimersInOrder
    OBVIOUS
  <2>1. TypeOK /\ SetMapAgree /\ Sorted(timer_set) /\ WaitInv
    BY DEF TimerInv, IdsOnce
  <2> QED
    BY <2>1 DEF TimersInOrder, SleepsUntilEarliest, Sorted, WaitInv, Elems
<1> QED
  BY <1>1, TimerInvAlways, PTL

(* Call n of an interval timer is due n intervals after the first, and no  *)
(* timer is called early, for all delays and however late tick() is.       *)
THEOREM IntervalsDoNotDrift == Spec => []NoDrift
<1>1. TimerInv => NoDrift
  <2> SUFFICES ASSUME TimerInv PROVE NoDrift
    OBVIOUS
  <2>1. \A i \in 1..Len(timer_set) :
           timer_set[i].expire
              = base[timer_set[i].id] + fires[timer_set[i].id] * timer_set[i].interval
    BY DEF TimerInv, DriftInv, OnTime, Elems
  <2>2. now \in Nat /\ cur.expire \in Nat /\ cur.interval \in Nat
    BY DEF TimerInv, TypeOK, Task
  <2>3. pc = "cb" => base[cur.id] + fires[cur.id] * cur.interval <= now + cur.interval
    <3> SUFFICES ASSUME pc = "cb"
                 PROVE  base[cur.id] + fires[cur.id] * cur.interval <= now + cur.interval
      OBVIOUS
    <3>1. /\ cur.expire + cur.interval = base[cur.id] + fires[cur.id] * cur.interval
          /\ cur.expire <= now
      BY DEF TimerInv, DriftInv
    <3>2. cur.expire + cur.interval <= now + cur.interval
      BY <2>2, <3>1
    <3> QED
      BY <3>1, <3>2
  <2> QED
    BY <2>1, <2>3 DEF NoDrift
<1> QED
  BY <1>1, TimerInvAlways, PTL

(* Once a cancel has found a timer, its callback is not called again:      *)
(* nothing that tick() takes has an id that was cancelled.                 *)
THEOREM CancelledStaysSilent == Spec => CancelledNotCalled
<1>1. TimerInv /\ [Next]_vars => [\A i \in cancelled : fires'[i] = fires[i]]_vars
  <2> SUFFICES ASSUME TimerInv, [Next]_vars, NEW i \in cancelled
               PROVE  fires'[i] = fires[i]
    OBVIOUS
  <2>0. TypeOK /\ IdsOnce /\ SetMapAgree /\ Sorted(timer_set)
    BY DEF TimerInv, IdsOnce
  <2>1. CASE Fire
    <3>1. /\ timer_set # <<>> /\ cur' = Head(timer_set)
          /\ fires' = [fires EXCEPT ![cur'.id] = @ + 1]
      BY <2>1 DEF Fire
    <3>2. timer_set \in Seq(Task) /\ fires \in [Ids -> Nat] /\ i \in Ids
      BY <2>0 DEF TypeOK
    <3>3. cur'.id \in timer_map
      BY <2>0, <3>1, <3>2, TailInOrder DEF SetMapAgree, Distinct
    <3>4. cur'.id # i
      BY <2>0, <3>3 DEF IdsOnce
    <3> QED
      BY <3>1, <3>2, <3>4
  <2>2. Fire \/ UNCHANGED fires
    BY DEF Next, LoopStep, Callers, AddInLoop, AddFromOther, ReturnId, CancelInLoop,
           CancelFromOther, RunAdd, RunCancel, Block, WakeByFunctor, WakeByEvent, TickStart,
           EndCallback, TickDone, Clock, vars
  <2> QED
    BY <2>1, <2>2
<1> QED
  BY <1>1, TimerInvAlways, PTL DEF Spec, CancelledNotCalled
=============================================================================
