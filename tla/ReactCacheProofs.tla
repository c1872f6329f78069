-------------------------- MODULE ReactCacheProofs --------------------------
(***************************************************************************)
(* Theorems about react-cache, for any resources, keys, components, reads, *)
(* limits and numbers of surprises:                                        *)
(*                                                                         *)
(* - the links of the list of entries are those of one circle at all times *)
(*   (TypesHold), and the cache and the list agree (CacheMatchesList);     *)
(* - what a component has seen is not changed (SettledResultsStay);        *)
(* - the linked list is the sequence of the entries in the order of their  *)
(*   last use (CacheImplementsRecentlyUsed).                               *)
(*                                                                         *)
(* Section 1 says when a linked list is a sequence, 2 what the operations  *)
(* of the list do to that sequence, 3 what becomes of the maps, 4 has the  *)
(* invariant, 5 one lemma per action and 6 the theorems.                   *)
(***************************************************************************)
EXTENDS ReactCache, DataLemmas

-----------------------------------------------------------------------------
(***************************************************************************)
(* 1. Linked lists as sequences.                                           *)
(***************************************************************************)
\* The entries of s are linked to each other in a circle, in this order.
AfterIn(s, i) == IF i = Len(s) THEN 1 ELSE i + 1
BeforeIn(s, i) == IF i = 1 THEN Len(s) ELSE i - 1

Linked(l, s) ==
  /\ l \in List /\ s \in Seq(Entry) /\ IsInjective(s)
  /\ l.first = (IF s = <<>> THEN None ELSE s[1])
  /\ \A i \in DOMAIN s : l.next[s[i]] = s[AfterIn(s, i)] /\ l.previous[s[i]] = s[BeforeIn(s, i)]

\* The list l consists of the entries of s, in this order.
InOrder(l, s) ==
  /\ Linked(l, s) /\ l.size = Len(s)
  /\ \A e \in Entry \ Range(s) : l.next[e] = None /\ l.previous[e] = None

\* Lists with the same links of all other entries.
SameLinks(l, m, some) ==
  /\ l.size = m.size
  /\ \A e \in Entry \ some : l.next[e] = m.next[e] /\ l.previous[e] = m.previous[e]

LEMMA ListFields ==
  ASSUME NEW l \in List
  PROVE  /\ l = [first |-> l.first, size |-> l.size, next |-> l.next, previous |-> l.previous]
         /\ l.first \in Entry \cup {None} /\ l.size \in Nat
         /\ l.next \in [Entry -> Entry \cup {None}]
         /\ l.previous \in [Entry -> Entry \cup {None}]
BY DEF List

LEMMA NewLinks ==
  ASSUME NEW l \in List, NEW first, NEW nx, NEW pv
  PROVE  [l EXCEPT !.first = first, !.next = nx, !.previous = pv]
           = [first |-> first, size |-> l.size, next |-> nx, previous |-> pv]
<1> DEFINE g == [l EXCEPT !.first = first, !.next = nx, !.previous = pv]
<1>1. DOMAIN l = {"first", "size", "next", "previous"}
  BY DEF List
<1>2. DOMAIN g = DOMAIN l /\ g = [f \in DOMAIN g |-> g[f]]
  OBVIOUS
<1>3. g.first = first /\ g.next = nx /\ g.previous = pv /\ g.size = l.size
  BY <1>1
<1> HIDE DEF g
<1>4. g = [first |-> first, size |-> l.size, next |-> nx, previous |-> pv]
  BY <1>1, <1>2, <1>3
<1> QED BY <1>4 DEF g

LEMMA Circle ==
  ASSUME NEW s \in Seq(Entry)
  PROVE  /\ \A i \in DOMAIN s : AfterIn(s, i) \in DOMAIN s /\ BeforeIn(s, i) \in DOMAIN s
         /\ s # <<>> => /\ Len(s) \in DOMAIN s /\ 1 \in DOMAIN s
                        /\ AfterIn(s, Len(s)) = 1 /\ BeforeIn(s, 1) = Len(s)
         /\ \A i \in DOMAIN s : /\ BeforeIn(s, AfterIn(s, i)) = i
                                /\ AfterIn(s, BeforeIn(s, i)) = i
         /\ \A i \in DOMAIN s : s[i] \in Entry
BY DEF AfterIn, BeforeIn

\* What becomes of a sequence when an entry is put in front.
LEMMA InFront ==
  ASSUME NEW s \in Seq(Entry), NEW e \in Entry
  PROVE  LET t == <<e>> \o s
         IN  /\ t \in Seq(Entry) /\ Len(t) = Len(s) + 1 /\ t[1] = e /\ t # <<>>
             /\ \A i \in DOMAIN s : i + 1 \in DOMAIN t /\ t[i + 1] = s[i]
             /\ \A i \in DOMAIN t : i # 1 => i - 1 \in DOMAIN s /\ t[i] = s[i - 1]
             /\ Range(t) = Range(s) \cup {e}
             /\ IsInjective(s) /\ e \notin Range(s) => IsInjective(t)
<1> DEFINE t == <<e>> \o s
<1>1. /\ t \in Seq(Entry) /\ Len(t) = Len(s) + 1 /\ t[1] = e /\ t # <<>>
      /\ \A i \in DOMAIN s : i + 1 \in DOMAIN t /\ t[i + 1] = s[i]
      /\ \A i \in DOMAIN t : i # 1 => i - 1 \in DOMAIN s /\ t[i] = s[i - 1]
  <2>1. /\ t \in Seq(Entry) /\ Len(t) = Len(s) + 1 /\ t[1] = e
        /\ \A i \in 1 .. Len(s) + 1 : i # 1 => t[i] = s[i - 1]
    OBVIOUS
  <2> HIDE DEF t
  <2>2. DOMAIN t = 1 .. Len(s) + 1 /\ t # <<>>
    BY <2>1
  <2>3. \A i \in DOMAIN s : i + 1 \in DOMAIN t /\ t[i + 1] = s[i]
    <3> SUFFICES ASSUME NEW i \in DOMAIN s PROVE i + 1 \in DOMAIN t /\ t[i + 1] = s[i]
      OBVIOUS
    <3>1. i + 1 \in 1 .. Len(s) + 1 /\ i + 1 # 1 /\ (i + 1) - 1 = i
      OBVIOUS
    <3> QED BY <2>1, <2>2, <3>1
  <2> QED BY <2>1, <2>2, <2>3
<1> HIDE DEF t
<1>2. 1 \in DOMAIN t /\ \A i \in DOMAIN t : i \in Int
  BY <1>1
<1>3. Range(t) = Range(s) \cup {e}
  <2>1. ASSUME NEW i \in DOMAIN t PROVE t[i] \in Range(s) \cup {e}
    BY <1>1 DEF Range
  <2>2. ASSUME NEW i \in DOMAIN s PROVE s[i] \in Range(t)
    <3>1. i + 1 \in DOMAIN t /\ t[i + 1] = s[i]
      BY <1>1
    <3> QED BY <3>1 DEF Range
  <2>3. e \in Range(t)
    BY <1>1, <1>2 DEF Range
  <2> QED BY <2>1, <2>2, <2>3 DEF Range
<1>4. ASSUME IsInjective(s), e \notin Range(s), NEW i \in DOMAIN t, NEW j \in DOMAIN t, t[i] = t[j]
      PROVE  i = j
  <2>1. i # 1 => t[i] \in Range(s) /\ t[i] # e
    BY <1>1, <1>4 DEF Range
  <2>2. j # 1 => t[j] \in Range(s) /\ t[j] # e
    BY <1>1, <1>4 DEF Range
  <2>3. CASE i # 1 /\ j # 1
    <3>1. i - 1 = j - 1
      BY <1>1, <1>4, <2>3 DEF IsInjective
    <3> QED BY <1>2, <3>1
  <2> QED BY <1>1, <1>4, <2>1, <2>2, <2>3
<1> QED BY <1>1, <1>3, <1>4 DEF t, IsInjective

\* ... and when one is taken out.
LEMMA TakenOut ==
  ASSUME NEW s \in Seq(Entry), NEW k \in DOMAIN s
  PROVE  LET t == RemoveAt(s, k)
         IN  /\ t \in Seq(Entry) /\ Len(t) = Len(s) - 1
             /\ \A i \in DOMAIN t : t[i] = s[IF i < k THEN i ELSE i + 1]
             /\ \A i \in DOMAIN t : (IF i < k THEN i ELSE i + 1) \in DOMAIN s \ {k}
             /\ \A i \in DOMAIN s \ {k} : /\ (IF i < k THEN i ELSE i - 1) \in DOMAIN t
                                          /\ t[IF i < k THEN i ELSE i - 1] = s[i]
             /\ IsInjective(s) => IsInjective(t) /\ Range(t) = Range(s) \ {s[k]}
<1> DEFINE t == RemoveAt(s, k)
           a == SubSeq(s, 1, k - 1)
           b == SubSeq(s, k + 1, Len(s))
<1>1. a \in Seq(Entry) /\ Len(a) = k - 1 /\ \A i \in 1 .. k - 1 : a[i] = s[i]
  OBVIOUS
<1>2. b \in Seq(Entry) /\ Len(b) = Len(s) - k /\ \A i \in 1 .. Len(s) - k : b[i] = s[k + i]
  OBVIOUS
<1>3. t = a \o b
  BY DEF RemoveAt
<1> HIDE DEF a, b, t
<1>4. t \in Seq(Entry) /\ Len(t) = Len(s) - 1
  BY <1>1, <1>2, <1>3
<1>5. \A i \in 1 .. Len(s) - 1 : t[i] = IF i < k THEN a[i] ELSE b[i - (k - 1)]
  BY <1>1, <1>2, <1>3
<1>6. \A i \in 1 .. Len(s) - 1 : t[i] = s[IF i < k THEN i ELSE i + 1]
  <2> SUFFICES ASSUME NEW i \in 1 .. Len(s) - 1 PROVE t[i] = s[IF i < k THEN i ELSE i + 1]
    OBVIOUS
  <2>1. CASE i < k
    <3>1. i \in 1 .. k - 1
      BY <2>1
    <3> QED BY <1>1, <1>5, <2>1, <3>1
  <2>2. CASE ~(i < k)
    <3>1. i - (k - 1) \in 1 .. Len(s) - k /\ k + (i - (k - 1)) = i + 1
      BY <2>2
    <3> QED BY <1>2, <1>5, <2>2, <3>1
  <2> QED BY <2>1, <2>2
<1>7. /\ DOMAIN t = 1 .. Len(s) - 1
      /\ \A i \in DOMAIN t : (IF i < k THEN i ELSE i + 1) \in DOMAIN s \ {k}
      /\ \A i \in DOMAIN s \ {k} : (IF i < k THEN i ELSE i - 1) \in DOMAIN t
  BY <1>4
<1>8. \A i \in DOMAIN s \ {k} : t[IF i < k THEN i ELSE i - 1] = s[i]
  <2> SUFFICES ASSUME NEW i \in DOMAIN s \ {k} PROVE t[IF i < k THEN i ELSE i - 1] = s[i]
    OBVIOUS
  <2>1. i < k \/ (~(i < k) /\ ~(i - 1 < k) /\ (i - 1) + 1 = i)
    OBVIOUS
  <2> QED BY <1>6, <1>7, <2>1
<1>9. ASSUME IsInjective(s) PROVE IsInjective(t) /\ Range(t) = Range(s) \ {s[k]}
  <2>1. ASSUME NEW i \in DOMAIN t, NEW j \in DOMAIN t, t[i] = t[j] PROVE i = j
    <3>1. (IF i < k THEN i ELSE i + 1) = (IF j < k THEN j ELSE j + 1)
      BY <1>6, <1>7, <1>9, <2>1 DEF IsInjective
    <3> QED BY <1>7, <3>1
  <2>2. \A i \in DOMAIN s \ {k} : s[i] # s[k]
    BY <1>9 DEF IsInjective
  <2> QED BY <1>6, <1>7, <1>8, <2>1, <2>2 DEF IsInjective, Range
<1> QED BY <1>4, <1>6, <1>7, <1>8, <1>9 DEF t

LEMMA LinkedEntries ==
  ASSUME NEW l, NEW s, Linked(l, s)
  PROVE  /\ l \in List /\ s \in Seq(Entry) /\ Range(s) \subseteq Entry
         /\ \A i, j \in DOMAIN s : s[i] = s[j] => i = j
         /\ l.first # None <=> s # <<>>
         /\ s # <<>> => /\ 1 \in DOMAIN s /\ Len(s) \in DOMAIN s /\ l.first = s[1]
                        /\ l.previous[l.first] = s[Len(s)] /\ l.next[s[Len(s)]] = s[1]
<1>1. l \in List /\ s \in Seq(Entry) /\ \A i, j \in DOMAIN s : s[i] = s[j] => i = j
  BY DEF Linked, IsInjective
<1>2. Range(s) \subseteq Entry
  BY <1>1 DEF Range
<1>3. l.first = (IF s = <<>> THEN None ELSE s[1])
  BY DEF Linked
<1>4. s # <<>> => 1 \in DOMAIN s /\ Len(s) \in DOMAIN s /\ s[1] \in Entry
  BY <1>1
<1>5. s # <<>> => l.previous[s[1]] = s[Len(s)] /\ l.next[s[Len(s)]] = s[1]
  BY <1>1, <1>4, Circle DEF Linked
<1> QED BY <1>1, <1>2, <1>3, <1>4, <1>5, LRUAssumption

\* Putting an entry between the last and the first one.
LEMMA LinkFirst ==
  ASSUME NEW l, NEW s, Linked(l, s), NEW e \in Entry, e \notin Range(s)
  PROVE  /\ Linked(LinkedFirst(l, e), <<e>> \o s)
         /\ SameLinks(LinkedFirst(l, e), l, Range(s) \cup {e})
<1> DEFINE t == <<e>> \o s
           g == LinkedFirst(l, e)
<1>1. /\ l \in List /\ s \in Seq(Entry) /\ IsInjective(s)
      /\ l.next \in [Entry -> Entry \cup {None}] /\ l.previous \in [Entry -> Entry \cup {None}]
      /\ l.size \in Nat
  BY ListFields DEF Linked
<1>2. /\ t \in Seq(Entry) /\ Len(t) = Len(s) + 1 /\ t[1] = e /\ t # <<>>
      /\ \A i \in DOMAIN s : i + 1 \in DOMAIN t /\ t[i + 1] = s[i]
      /\ \A i \in DOMAIN t : i # 1 => i - 1 \in DOMAIN s /\ t[i] = s[i - 1]
      /\ IsInjective(t)
  BY <1>1, InFront
<1> HIDE DEF t
<1>3. CASE s = <<>>
  <2> DEFINE nx == [l.next EXCEPT ![e] = e]
             pv == [l.previous EXCEPT ![e] = e]
  <2>1. g = [first |-> e, size |-> l.size, next |-> nx, previous |-> pv]
    <3>1. l.first = None
      BY <1>3, LinkedEntries
    <3>2. g = [l EXCEPT !.first = e, !.next[e] = e, !.previous[e] = e]
      BY <3>1 DEF LinkedFirst
    <3>3. g = [l EXCEPT !.first = e, !.next = nx, !.previous = pv]
      BY <3>2
    <3> QED BY <1>1, <3>3, NewLinks, ZenonT(60)
  <2>2. nx \in [Entry -> Entry \cup {None}] /\ pv \in [Entry -> Entry \cup {None}]
    BY <1>1
  <2>3. nx[e] = e /\ pv[e] = e /\ \A x \in Entry \ {e} : nx[x] = l.next[x] /\ pv[x] = l.previous[x]
    BY <1>1
  <2> HIDE DEF nx, pv, g
  <2>4. g \in List /\ g.first = e /\ g.size = l.size /\ g.next = nx /\ g.previous = pv
    BY <1>1, <2>1, <2>2 DEF List
  <2>5. DOMAIN t = {1} /\ Len(t) = 1
    BY <1>2, <1>3
  <2> QED BY <1>2, <2>3, <2>4, <2>5 DEF Linked, SameLinks, AfterIn, BeforeIn, g, t
<1>4. CASE s # <<>>
  <2> DEFINE last == s[Len(s)]
             nx == [l.next EXCEPT ![last] = e, ![e] = s[1]]
             pv == [l.previous EXCEPT ![s[1]] = e, ![e] = last]
  <2>0. /\ 1 \in DOMAIN s /\ Len(s) \in DOMAIN s /\ l.first = s[1] /\ l.first # None
        /\ LastOf(l) = last
    BY <1>4, LinkedEntries DEF LastOf
  <2>1. g = [first |-> e, size |-> l.size, next |-> nx, previous |-> pv]
    <3>1. g = [l EXCEPT !.first = e, !.next = [@ EXCEPT ![last] = e, ![e] = s[1]],
                        !.previous = [@ EXCEPT ![s[1]] = e, ![e] = last]]
      BY <2>0 DEF LinkedFirst
    <3>2. g = [l EXCEPT !.first = e, !.next = nx, !.previous = pv]
      BY <3>1
    <3> QED BY <1>1, <3>2, NewLinks, ZenonT(60)
  <2>2. /\ last \in Range(s) /\ s[1] \in Range(s) /\ last \in Entry /\ s[1] \in Entry
        /\ last # e /\ s[1] # e
    BY <1>1, <2>0 DEF Range
  <2> HIDE DEF g
  <2>3. nx \in [Entry -> Entry \cup {None}] /\ pv \in [Entry -> Entry \cup {None}]
    BY <1>1, <2>2
  <2>4. /\ nx[e] = s[1] /\ nx[last] = e /\ \A x \in Entry \ {e, last} : nx[x] = l.next[x]
        /\ pv[e] = last /\ pv[s[1]] = e /\ \A x \in Entry \ {e, s[1]} : pv[x] = l.previous[x]
    BY <1>1, <2>2
  <2> HIDE DEF nx, pv
  <2>5. g \in List /\ g.first = e /\ g.size = l.size /\ g.next = nx /\ g.previous = pv
    BY <1>1, <2>1, <2>3 DEF List
  <2>6. ASSUME NEW i \in DOMAIN t
        PROVE  nx[t[i]] = t[AfterIn(t, i)]
    <3>1. CASE i = 1
      <4>1. AfterIn(t, i) = 2 /\ t[2] = s[1]
        <5>1. 1 + 1 \in DOMAIN t /\ t[1 + 1] = s[1] /\ Len(s) \in Nat /\ Len(s) # 0
          BY <1>1, <1>2, <2>0
        <5> QED BY <1>2, <3>1, <5>1 DEF AfterIn
      <4> QED BY <1>2, <2>4, <3>1, <4>1
    <3>2. CASE i # 1
      <4>1. i - 1 \in DOMAIN s /\ t[i] = s[i - 1] /\ i \in Int
        BY <1>2, <3>2
      <4>2. s[i - 1] \in Entry /\ s[i - 1] # e
        BY <1>1, <4>1 DEF Range
      <4>3. CASE i - 1 = Len(s)
        <5>1. AfterIn(t, i) = 1
          BY <1>1, <1>2, <4>1, <4>3 DEF AfterIn
        <5> QED BY <1>2, <2>4, <4>1, <4>3, <5>1
      <4>4. CASE i - 1 # Len(s)
        <5>1. AfterIn(t, i) = i + 1 /\ AfterIn(s, i - 1) = i /\ i \in DOMAIN s
          BY <1>1, <1>2, <4>1, <4>4 DEF AfterIn
        <5>2. s[i - 1] # last
          BY <1>1, <2>0, <4>1, <4>4 DEF IsInjective
        <5>3. nx[t[i]] = s[i]
          BY <2>4, <4>1, <4>2, <5>1, <5>2 DEF Linked
        <5>4. t[i + 1] = s[i]
          BY <1>2, <5>1
        <5> QED BY <5>1, <5>3, <5>4
      <4> QED BY <4>3, <4>4
    <3> QED BY <3>1, <3>2
  <2>7. ASSUME NEW i \in DOMAIN t
        PROVE  pv[t[i]] = t[BeforeIn(t, i)]
    <3>1. CASE i = 1
      <4>1. BeforeIn(t, i) = Len(s) + 1
        BY <1>2, <3>1 DEF BeforeIn
      <4>2. t[Len(s) + 1] = last
        BY <1>2, <2>0
      <4> QED BY <1>2, <2>4, <3>1, <4>1, <4>2
    <3>2. CASE i # 1
      <4>1. /\ i - 1 \in DOMAIN s /\ t[i] = s[i - 1] /\ i \in Int /\ BeforeIn(t, i) = i - 1
        BY <1>2, <3>2 DEF BeforeIn
      <4>2. s[i - 1] \in Entry /\ s[i - 1] # e
        BY <1>1, <4>1 DEF Range
      <4>3. CASE i - 1 = 1
        BY <1>2, <2>4, <4>1, <4>3
      <4>4. CASE i - 1 # 1
        <5>1. BeforeIn(s, i - 1) = i - 2 /\ i - 2 \in DOMAIN s /\ (i - 2) + 1 = i - 1
          BY <1>1, <4>1, <4>4 DEF BeforeIn
        <5>2. s[i - 1] # s[1]
          BY <1>1, <2>0, <4>1, <4>4 DEF IsInjective
        <5>3. pv[t[i]] = s[i - 2]
          BY <2>4, <4>1, <4>2, <5>1, <5>2 DEF Linked
        <5> QED BY <1>2, <4>1, <5>1, <5>3
      <4> QED BY <4>3, <4>4
    <3> QED BY <3>1, <3>2
  <2>8. Linked(g, t)
    BY <1>2, <2>5, <2>6, <2>7 DEF Linked
  <2>9. SameLinks(g, l, Range(s) \cup {e})
    BY <2>2, <2>4, <2>5 DEF SameLinks
  <2> QED BY <2>8, <2>9 DEF g, t
<1> QED BY <1>3, <1>4

\* Taking out an entry that is not the first one.
LEMMA Unlink ==
  ASSUME NEW l, NEW s, Linked(l, s), NEW k \in DOMAIN s, k # 1
  PROVE  /\ Linked(Unlinked(l, s[k]), RemoveAt(s, k))
         /\ SameLinks(Unlinked(l, s[k]), l, Range(s) \ {s[k]})
<1> DEFINE t == RemoveAt(s, k)
           e == s[k]
           g == Unlinked(l, e)
           before == s[BeforeIn(s, k)]
           after == s[AfterIn(s, k)]
           nx == [l.next EXCEPT ![before] = after]
           pv == [l.previous EXCEPT ![after] = before]
<1>1. /\ l \in List /\ s \in Seq(Entry) /\ IsInjective(s)
      /\ l.next \in [Entry -> Entry \cup {None}] /\ l.previous \in [Entry -> Entry \cup {None}]
      /\ l.size \in Nat /\ Len(s) \in Nat /\ DOMAIN s = 1 .. Len(s)
  BY ListFields DEF Linked
<1>2. /\ t \in Seq(Entry) /\ Len(t) = Len(s) - 1
      /\ \A i \in DOMAIN t : t[i] = s[IF i < k THEN i ELSE i + 1]
      /\ \A i \in DOMAIN t : (IF i < k THEN i ELSE i + 1) \in DOMAIN s \ {k}
      /\ IsInjective(t) /\ Range(t) = Range(s) \ {e}
  BY <1>1, TakenOut
<1>3. /\ l.next[e] = after /\ l.previous[e] = before
      /\ before \in Entry /\ after \in Entry
      /\ BeforeIn(s, k) = k - 1 /\ k - 1 \in DOMAIN s
      /\ AfterIn(s, k) \in DOMAIN s
  BY <1>1, Circle DEF Linked, BeforeIn
<1>4. g = [first |-> l.first, size |-> l.size, next |-> nx, previous |-> pv]
  <2>1. g = [l EXCEPT !.next[before] = after, !.previous[after] = before]
    BY <1>3 DEF Unlinked
  <2>2. g = [l EXCEPT !.first = l.first, !.next = nx, !.previous = pv]
    <3> HIDE DEF before, after
    <3>1. l = [l EXCEPT !.first = l.first]
      BY <1>1, ListFields
    <3> QED BY <2>1, <3>1
  <2> QED BY <1>1, <2>2, NewLinks, ZenonT(60)
<1>5. nx \in [Entry -> Entry \cup {None}] /\ pv \in [Entry -> Entry \cup {None}]
  BY <1>1, <1>3
<1>6. /\ nx[before] = after /\ \A x \in Entry \ {before} : nx[x] = l.next[x]
      /\ pv[after] = before /\ \A x \in Entry \ {after} : pv[x] = l.previous[x]
  BY <1>1, <1>3
<1>7. g \in List /\ g.first = l.first /\ g.size = l.size /\ g.next = nx /\ g.previous = pv
  <2> HIDE DEF nx, pv, g
  <2> QED BY <1>1, <1>4, <1>5, ListFields DEF List
<1>8. t # <<>> /\ t[1] = s[1] /\ 1 \in DOMAIN t /\ DOMAIN t = 1 .. Len(s) - 1 /\ k \in Int /\ 1 < k
  <2>1. k \in Int /\ 1 < k /\ k <= Len(s)
    BY <1>1
  <2> HIDE DEF t
  <2>2. DOMAIN t = 1 .. Len(s) - 1 /\ 1 \in DOMAIN t
    BY <1>1, <1>2, <2>1
  <2> QED BY <1>2, <2>1, <2>2
<1> HIDE DEF t, nx, pv, g
<1>9. ASSUME NEW i \in DOMAIN t
      PROVE  nx[t[i]] = t[AfterIn(t, i)]
  <2>0. i \in Int /\ 1 <= i /\ i <= Len(s) - 1
    BY <1>1, <1>8
  <2>1. CASE i = k - 1
    <3>1. t[i] = before
      BY <1>2, <1>3, <1>8, <2>1
    <3>2. t[AfterIn(t, i)] = after
      <4>1. CASE k = Len(s)
        BY <1>2, <1>8, <2>1, <4>1 DEF AfterIn
      <4>2. CASE k # Len(s)
        <5>1. AfterIn(t, i) = k /\ AfterIn(s, k) = k + 1 /\ k \in DOMAIN t
          BY <1>1, <1>2, <1>8, <2>1, <4>2 DEF AfterIn
        <5> QED BY <1>2, <1>8, <5>1
      <4> QED BY <4>1, <4>2
    <3> QED BY <1>6, <3>1, <3>2
  <2>2. CASE i < k - 1
    <3>1. t[i] = s[i] /\ AfterIn(s, i) = i + 1 /\ i \in DOMAIN s /\ i # k - 1
      BY <1>1, <1>2, <1>8, <2>0, <2>2 DEF AfterIn
    <3>2. s[i] # before /\ s[i] \in Entry
      BY <1>1, <1>3, <3>1 DEF IsInjective
    <3>3. nx[t[i]] = s[i + 1]
      BY <1>6, <3>1, <3>2 DEF Linked
    <3>4. AfterIn(t, i) = i + 1 /\ i + 1 \in DOMAIN t /\ i + 1 < k
      BY <1>1, <1>2, <1>8, <2>0, <2>2 DEF AfterIn
    <3> QED BY <1>2, <3>3, <3>4
  <2>3. CASE i >= k
    <3>1. t[i] = s[i + 1] /\ i + 1 \in DOMAIN s /\ i + 1 # k - 1
      BY <1>1, <1>2, <1>8, <2>0, <2>3
    <3>2. s[i + 1] # before /\ s[i + 1] \in Entry
      BY <1>1, <1>3, <3>1 DEF IsInjective
    <3>3. nx[t[i]] = s[AfterIn(s, i + 1)]
      BY <1>6, <3>1, <3>2 DEF Linked
    <3>4. CASE i = Len(s) - 1
      <4>1. AfterIn(s, i + 1) = 1 /\ AfterIn(t, i) = 1
        BY <1>1, <1>2, <2>0, <3>4 DEF AfterIn
      <4> QED BY <1>8, <3>3, <4>1
    <3>5. CASE i # Len(s) - 1
      <4>1. AfterIn(s, i + 1) = i + 2 /\ AfterIn(t, i) = i + 1 /\ i + 1 \in DOMAIN t /\ ~(i + 1 < k)
            /\ (i + 1) + 1 = i + 2
        BY <1>1, <1>2, <1>8, <2>0, <2>3, <3>5 DEF AfterIn
      <4>2. t[i + 1] = s[i + 2]
        BY <1>2, <4>1
      <4> QED BY <3>3, <4>1, <4>2
    <3> QED BY <3>4, <3>5
  <2> QED BY <1>8, <2>0, <2>1, <2>2, <2>3
<1>10. ASSUME NEW i \in DOMAIN t
       PROVE  pv[t[i]] = t[BeforeIn(t, i)]
  <2>0. i \in Int /\ 1 <= i /\ i <= Len(s) - 1
    BY <1>1, <1>8
  <2>1. CASE i = 1
    <3>1. t[i] = s[1] /\ BeforeIn(t, i) = Len(s) - 1 /\ BeforeIn(s, 1) = Len(s) /\ 1 \in DOMAIN s
          /\ Len(s) - 1 \in DOMAIN t
      BY <1>1, <1>2, <1>8, <2>0, <2>1 DEF BeforeIn
    <3>2. CASE k = Len(s)
      <4>1. after = s[1] /\ before = s[Len(s) - 1]
        BY <1>3, <3>2 DEF AfterIn
      <4>2. t[Len(s) - 1] = s[Len(s) - 1]
        BY <1>1, <1>2, <1>8, <3>1, <3>2
      <4> QED BY <1>6, <3>1, <4>1, <4>2
    <3>3. CASE k # Len(s)
      <4>1. AfterIn(s, k) # 1
        BY <1>1, <1>8, <3>3 DEF AfterIn
      <4>2. after # s[1] /\ s[1] \in Entry
        BY <1>1, <1>3, <3>1, <4>1 DEF IsInjective
      <4>3. pv[s[1]] = s[Len(s)]
        BY <1>6, <3>1, <4>2 DEF Linked
      <4>4. t[Len(s) - 1] = s[Len(s)]
        <5>1. ~(Len(s) - 1 < k) /\ (Len(s) - 1) + 1 = Len(s)
          BY <1>1, <1>8, <3>3
        <5> QED BY <1>2, <3>1, <5>1
      <4> QED BY <3>1, <4>3, <4>4
    <3> QED BY <3>2, <3>3
  <2>2. CASE i # 1 /\ i < k
    <3>1. t[i] = s[i] /\ BeforeIn(s, i) = i - 1 /\ BeforeIn(t, i) = i - 1 /\ i \in DOMAIN s
          /\ i - 1 \in DOMAIN t /\ i - 1 < k
      BY <1>1, <1>2, <1>8, <2>0, <2>2 DEF BeforeIn
    <3>2. AfterIn(s, k) # i
      BY <1>1, <1>8, <2>0, <2>2 DEF AfterIn
    <3>3. s[i] # after /\ s[i] \in Entry
      BY <1>1, <1>3, <3>1, <3>2 DEF IsInjective
    <3>4. pv[t[i]] = s[i - 1]
      BY <1>6, <3>1, <3>3 DEF Linked
    <3> QED BY <1>2, <3>1, <3>4
  <2>3. CASE i = k
    <3>1. t[i] = s[k + 1] /\ AfterIn(s, k) = k + 1 /\ BeforeIn(t, i) = k - 1 /\ k - 1 \in DOMAIN t
          /\ k - 1 < k
      BY <1>1, <1>2, <1>8, <2>0, <2>3 DEF BeforeIn, AfterIn
    <3>2. t[k - 1] = before
      BY <1>2, <1>3, <3>1
    <3> QED BY <1>6, <3>1, <3>2
  <2>4. CASE i > k
    <3>1. t[i] = s[i + 1] /\ BeforeIn(s, i + 1) = i /\ BeforeIn(t, i) = i - 1 /\ i + 1 \in DOMAIN s
          /\ i - 1 \in DOMAIN t /\ ~(i - 1 < k) /\ (i - 1) + 1 = i
      BY <1>1, <1>2, <1>8, <2>0, <2>4 DEF BeforeIn
    <3>2. AfterIn(s, k) # i + 1
      BY <1>1, <1>8, <2>0, <2>4 DEF AfterIn
    <3>3. s[i + 1] # after /\ s[i + 1] \in Entry
      BY <1>1, <1>3, <3>1, <3>2 DEF IsInjective
    <3>4. pv[t[i]] = s[i]
      BY <1>6, <3>1, <3>3 DEF Linked
    <3> QED BY <1>2, <3>1, <3>4
  <2> QED BY <1>8, <2>0, <2>1, <2>2, <2>3, <2>4
<1>11. Linked(g, t)
  <2>1. l.first = s[1]
    BY LinkedEntries, <1>1, <1>3
  <2> QED BY <1>2, <1>7, <1>8, <1>9, <1>10, <2>1 DEF Linked
<1>12. SameLinks(g, l, Range(s) \ {e})
  <2>1. AfterIn(s, k) # k /\ k - 1 # k
    BY <1>1, <1>8 DEF AfterIn
  <2>2. before # e /\ after # e
    BY <1>1, <1>3, <2>1 DEF IsInjective
  <2>3. before \in Range(s) \ {e} /\ after \in Range(s) \ {e}
    BY <1>3, <2>2 DEF Range
  <2> QED BY <1>6, <1>7, <2>3 DEF SameLinks
<1> QED BY <1>11, <1>12 DEF g, t

-----------------------------------------------------------------------------
(***************************************************************************)
(* 2. What add, access and deleteLeastRecentlyUsedEntries make of the      *)
(* sequence.                                                               *)
(***************************************************************************)
\* What is known of a list that consists of the entries of s.
LEMMA OrderedEntries ==
  ASSUME NEW l, NEW s, InOrder(l, s)
  PROVE  /\ l \in List /\ s \in Seq(Entry) /\ l.size = Len(s) /\ l.size \in Nat
         /\ OnList(l) = Range(s) /\ Range(s) \subseteq Entry
         /\ l.first # None <=> s # <<>>
<1>1. /\ l \in List /\ s \in Seq(Entry) /\ l.size = Len(s) /\ Linked(l, s)
      /\ Range(s) \subseteq Entry /\ (l.first # None <=> s # <<>>)
  BY LinkedEntries DEF InOrder
<1>2. \A i \in DOMAIN s : l.next[s[i]] \in Entry
  BY <1>1, Circle DEF Linked
<1>3. \A e \in Range(s) : l.next[e] # None
  BY <1>2, LRUAssumption DEF Range
<1>4. \A e \in Entry \ Range(s) : l.next[e] = None
  BY DEF InOrder
<1>5. OnList(l) = Range(s)
  BY <1>1, <1>3, <1>4 DEF OnList
<1> QED BY <1>1, <1>5

\* add puts an entry in front.
LEMMA AddedInOrder ==
  ASSUME NEW l, NEW s, InOrder(l, s), NEW e \in Entry, e \notin OnList(l)
  PROVE  /\ InOrder(Added(l, e), <<e>> \o s)
         /\ OnList(Added(l, e)) = OnList(l) \cup {e}
<1> DEFINE t == <<e>> \o s
           g == LinkedFirst(l, e)
<1>1. /\ Linked(l, s) /\ e \notin Range(s) /\ s \in Seq(Entry) /\ l.size = Len(s)
      /\ OnList(l) = Range(s) /\ l.size \in Nat
  BY OrderedEntries DEF InOrder
<1>2. Linked(g, t) /\ SameLinks(g, l, Range(s) \cup {e})
  BY <1>1, LinkFirst
<1>3. t \in Seq(Entry) /\ Len(t) = Len(s) + 1 /\ Range(t) = Range(s) \cup {e}
  BY <1>1, InFront
<1> HIDE DEF t, g
<1>4. g \in List /\ g.size = l.size
  BY <1>2 DEF Linked, SameLinks
<1>5. /\ Added(l, e) = [g EXCEPT !.size = @ + 1]
      /\ Added(l, e) \in List /\ Added(l, e).size = Len(s) + 1 /\ Added(l, e).first = g.first
      /\ Added(l, e).next = g.next /\ Added(l, e).previous = g.previous
  <2>1. Added(l, e) = [g EXCEPT !.size = @ + 1]
    BY DEF Added, g
  <2>2. g.size + 1 \in Nat /\ g.size + 1 = Len(s) + 1
    BY <1>1, <1>4
  <2> QED BY <1>4, <2>1, <2>2 DEF List
<1>6. Linked(Added(l, e), t)
  BY <1>2, <1>5 DEF Linked
<1>7. \A x \in Entry \ Range(t) : Added(l, e).next[x] = None /\ Added(l, e).previous[x] = None
  BY <1>2, <1>3, <1>5 DEF SameLinks, InOrder
<1>8. InOrder(Added(l, e), t)
  BY <1>3, <1>5, <1>6, <1>7 DEF InOrder
<1> QED BY <1>1, <1>3, <1>8, OrderedEntries DEF t

\* access moves an entry to the front.
LEMMA AccessedInOrder ==
  ASSUME NEW l, NEW s, InOrder(l, s), NEW k \in DOMAIN s
  PROVE  /\ InOrder(Accessed(l, s[k]), <<s[k]>> \o RemoveAt(s, k))
         /\ OnList(Accessed(l, s[k])) = OnList(l)
<1> DEFINE e == s[k]
           t == RemoveAt(s, k)
           u == <<e>> \o t
<1>1. /\ Linked(l, s) /\ s \in Seq(Entry) /\ e \in Range(s) /\ e \in Entry /\ IsInjective(s)
      /\ l \in List /\ Len(s) \in Nat /\ DOMAIN s = 1 .. Len(s)
      /\ OnList(l) = Range(s) /\ l.size = Len(s)
  BY OrderedEntries, SMTT(60) DEF InOrder, Range, Linked
<1>2. /\ t \in Seq(Entry) /\ Len(t) = Len(s) - 1 /\ Range(t) = Range(s) \ {e}
      /\ \A i \in DOMAIN t : t[i] = s[IF i < k THEN i ELSE i + 1]
  BY <1>1, TakenOut
<1>3. /\ u \in Seq(Entry) /\ Len(u) = Len(s) /\ Range(u) = Range(s)
      /\ u[1] = e /\ \A i \in DOMAIN u : i # 1 => i - 1 \in DOMAIN t /\ u[i] = t[i - 1]
  <2> HIDE DEF t
  <2>1. /\ u \in Seq(Entry) /\ Len(u) = Len(t) + 1 /\ u[1] = e /\ Range(u) = Range(t) \cup {e}
        /\ \A i \in DOMAIN u : i # 1 => i - 1 \in DOMAIN t /\ u[i] = t[i - 1]
    BY <1>1, <1>2, InFront
  <2> HIDE DEF u
  <2> QED BY <1>1, <1>2, <2>1
<1> HIDE DEF t, u, e
<1>4. l.next[e] # None
  BY <1>1 DEF OnList
<1>5. l.first = s[1] /\ 1 \in DOMAIN s
  BY <1>1, LinkedEntries DEF Range
<1>6. CASE k = 1
  <2>1. Accessed(l, e) = l
    BY <1>5, <1>6 DEF Accessed, e
  <2>2. ASSUME NEW i \in 1 .. Len(s) PROVE u[i] = s[i]
    <3>1. CASE i = 1
      BY <1>3, <1>6, <3>1 DEF e
    <3>2. CASE i # 1
      <4>1. /\ i \in DOMAIN u /\ i - 1 \in DOMAIN t /\ u[i] = t[i - 1]
            /\ ~(i - 1 < 1) /\ (i - 1) + 1 = i
        BY <1>3, <3>2
      <4> QED BY <1>2, <1>6, <4>1
    <3> QED BY <3>1, <3>2
  <2>3. u = s
    BY <1>1, <1>3, <2>2
  <2> QED BY <2>1, <2>3 DEF u, t, e
<1>7. CASE k # 1
  <2> DEFINE g == Unlinked(l, e)
  <2>1. Linked(g, t) /\ SameLinks(g, l, Range(s) \ {e})
    BY <1>1, <1>7, Unlink DEF t, e
  <2>2. l.first # e
    BY <1>1, <1>5, <1>7 DEF e, IsInjective
  <2>3. Accessed(l, e) = LinkedFirst(g, e)
    BY <1>4, <2>2 DEF Accessed
  <2> HIDE DEF g
  <2>4. /\ Linked(LinkedFirst(g, e), u)
        /\ SameLinks(LinkedFirst(g, e), g, Range(t) \cup {e})
    BY <1>1, <1>2, <2>1, LinkFirst DEF u
  <2>5. LinkedFirst(g, e).size = Len(u)
    BY <1>1, <1>3, <2>1, <2>4 DEF SameLinks
  <2>6. \A x \in Entry \ Range(u) :
          LinkedFirst(g, e).next[x] = None /\ LinkedFirst(g, e).previous[x] = None
    BY <1>1, <1>2, <1>3, <2>1, <2>4 DEF SameLinks, InOrder
  <2>7. InOrder(LinkedFirst(g, e), u)
    BY <2>4, <2>5, <2>6 DEF InOrder
  <2>8. OnList(LinkedFirst(g, e)) = Range(u)
    BY <2>7, OrderedEntries
  <2> QED BY <1>1, <1>3, <2>3, <2>7, <2>8 DEF u, t, e
<1> QED BY <1>6, <1>7

\* One round of the clean-up takes the last entry away.
LEMMA WithoutInOrder ==
  ASSUME NEW l, NEW s, InOrder(l, s), s # <<>>
  PROVE  LET m == Without(l, Oldest(l))
         IN  /\ InOrder(m, SubSeq(s, 1, Len(s) - 1)) /\ m \in List
             /\ m.size = l.size - 1 /\ Oldest(l) # None
<1> DEFINE n == Len(s)
           e == s[n]
           t == SubSeq(s, 1, n - 1)
           m == Without(l, e)
<1>1. /\ Linked(l, s) /\ s \in Seq(Entry) /\ IsInjective(s) /\ l \in List
      /\ n \in Nat /\ n >= 1 /\ DOMAIN s = 1 .. n /\ n \in DOMAIN s /\ 1 \in DOMAIN s
      /\ l.size = n /\ l.first = s[1] /\ e \in Entry /\ Oldest(l) = e /\ e # None
  <2>1. Linked(l, s) /\ s \in Seq(Entry) /\ IsInjective(s) /\ l.size = Len(s)
    BY DEF InOrder, Linked
  <2>2. l.first # None /\ e \in Entry /\ l.previous[l.first] = e
    BY <2>1, LinkedEntries
  <2>3. Oldest(l) = e /\ e # None
    BY <2>2, LRUAssumption DEF Oldest, LastOf
  <2> QED BY <2>1, <2>2, <2>3, LinkedEntries
<1>2. /\ t \in Seq(Entry) /\ Len(t) = n - 1 /\ DOMAIN t = 1 .. n - 1
      /\ \A i \in 1 .. n - 1 : t[i] = s[i]
  BY <1>1
<1>3. Range(t) = Range(s) \ {e}
  <2>1. \A i \in 1 .. n - 1 : s[i] # s[n] /\ i \in DOMAIN s
    BY <1>1 DEF IsInjective
  <2>2. \A i \in DOMAIN s : i = n \/ i \in 1 .. n - 1
    BY <1>1
  <2> HIDE DEF t
  <2> QED BY <1>2, <2>1, <2>2 DEF Range
<1>4. IsInjective(t)
  BY <1>1, <1>2 DEF IsInjective
<1> HIDE DEF t, n, e
<1>5. n - 1 \in Nat
  BY <1>1
<1>6. ASSUME NEW g \in List, g.size = l.size, g.first = (IF t = <<>> THEN None ELSE s[1]),
             \A x \in Entry \ Range(s) : g.next[x] = None /\ g.previous[x] = None,
             \A i \in DOMAIN t : /\ g.next[t[i]] = t[AfterIn(t, i)]
                                 /\ g.previous[t[i]] = t[BeforeIn(t, i)],
             m = [g EXCEPT !.size = @ - 1, !.next[e] = None, !.previous[e] = None]
      PROVE  InOrder(m, t) /\ m \in List /\ m.size = n - 1
  <2> DEFINE nx == [g.next EXCEPT ![e] = None]
             pv == [g.previous EXCEPT ![e] = None]
  <2>1. nx \in [Entry -> Entry \cup {None}] /\ pv \in [Entry -> Entry \cup {None}]
    BY <1>1, ListFields
  <2>2. /\ nx[e] = None /\ \A x \in Entry \ {e} : nx[x] = g.next[x]
        /\ pv[e] = None /\ \A x \in Entry \ {e} : pv[x] = g.previous[x]
    BY <1>1, ListFields
  <2>3. m = [first |-> g.first, size |-> n - 1, next |-> nx, previous |-> pv]
    <3>1. g.size - 1 = n - 1
      BY <1>1, <1>6
    <3>2. m = [g EXCEPT !.size = n - 1, !.next = nx, !.previous = pv]
      BY <1>6, <3>1
    <3>3. [g EXCEPT !.size = n - 1, !.next = nx, !.previous = pv]
            = [first |-> g.first, size |-> n - 1, next |-> nx, previous |-> pv]
      <4> HIDE DEF nx, pv, m
      <4> DEFINE h == [g EXCEPT !.size = n - 1, !.next = nx, !.previous = pv]
      <4>1. DOMAIN g = {"first", "size", "next", "previous"}
        BY DEF List
      <4>2. DOMAIN h = DOMAIN g /\ h = [f \in DOMAIN h |-> h[f]]
        OBVIOUS
      <4>3. h.first = g.first /\ h.next = nx /\ h.previous = pv /\ h.size = n - 1
        BY <4>1
      <4> HIDE DEF h
      <4>4. h = [first |-> g.first, size |-> n - 1, next |-> nx, previous |-> pv]
        BY <4>1, <4>2, <4>3
      <4> QED BY <4>4 DEF h
    <3> QED BY <3>2, <3>3
  <2> HIDE DEF nx, pv, m
  <2>4. /\ m \in List /\ m.size = n - 1 /\ m.first = g.first /\ m.next = nx /\ m.previous = pv
    BY <1>5, <2>1, <2>3, ListFields DEF List
  <2>5. t # <<>> => s[1] = t[1]
    BY <1>1, <1>2, <1>5
  <2>6. \A i \in DOMAIN t : t[i] \in Entry /\ t[i] # e
    BY <1>2, <1>3 DEF Range
  <2>7. Linked(m, t)
    BY <1>2, <1>4, <1>6, <2>2, <2>4, <2>5, <2>6 DEF Linked
  <2>8. \A x \in Entry \ Range(t) : m.next[x] = None /\ m.previous[x] = None
    BY <1>3, <1>6, <2>2, <2>4
  <2> QED BY <1>2, <2>4, <2>7, <2>8 DEF InOrder
<1>7. ASSUME n = 1 PROVE InOrder(m, t) /\ m \in List /\ m.size = n - 1
  <2> DEFINE g == [l EXCEPT !.first = None]
  <2>1. /\ g \in List /\ g.size = l.size /\ g.first = None /\ g.next = l.next /\ g.previous = l.previous
    BY <1>1 DEF List
  <2>2. m = [g EXCEPT !.size = @ - 1, !.next[e] = None, !.previous[e] = None]
    <3>1. e = l.first
      BY <1>1, <1>7 DEF e, n
    <3> QED BY <3>1 DEF Without
  <2> HIDE DEF g
  <2>3. t = <<>> /\ DOMAIN t = {}
    BY <1>2, <1>7
  <2>4. \A x \in Entry \ Range(s) : g.next[x] = None /\ g.previous[x] = None
    BY <2>1 DEF InOrder
  <2> QED BY <1>1, <1>6, <2>1, <2>2, <2>3, <2>4
<1>8. ASSUME n # 1 PROVE InOrder(m, t) /\ m \in List /\ m.size = n - 1
  <2> DEFINE g == Unlinked(l, e)
  <2>1. Linked(g, RemoveAt(s, n)) /\ SameLinks(g, l, Range(s) \ {e})
    BY <1>1, <1>8, Unlink, SMTT(60) DEF e
  <2>2. RemoveAt(s, n) = t
    <3>1. /\ RemoveAt(s, n) \in Seq(Entry) /\ Len(RemoveAt(s, n)) = n - 1
          /\ \A i \in DOMAIN RemoveAt(s, n) : RemoveAt(s, n)[i] = s[IF i < n THEN i ELSE i + 1]
      BY <1>1, TakenOut DEF n
    <3> DEFINE v == RemoveAt(s, n)
    <3> HIDE DEF v
    <3>2. DOMAIN v = 1 .. n - 1
      BY <1>1, <3>1 DEF v
    <3>3. \A i \in 1 .. n - 1 : v[i] = t[i]
      BY <1>1, <1>2, <3>1, <3>2 DEF v
    <3> QED BY <1>2, <3>1, <3>2, <3>3 DEF v
  <2>3. t # <<>> /\ t[1] = s[1] /\ 1 \in DOMAIN t
    BY <1>1, <1>2, <1>8
  <2>4. g \in List /\ g.first = s[1] /\ g.first # e /\ g.size = l.size
    <3>1. s[1] # e
      BY <1>1, <1>8 DEF e, IsInjective
    <3> QED BY <2>1, <2>2, <2>3, <3>1, LinkedEntries DEF SameLinks
  <2>5. m = [g EXCEPT !.size = @ - 1, !.next[e] = None, !.previous[e] = None]
    <3>1. l.first # e
      BY <1>1, <1>8 DEF e, IsInjective
    <3> QED BY <3>1 DEF Without
  <2> HIDE DEF g
  <2>7. \A x \in Entry \ Range(s) : g.next[x] = None /\ g.previous[x] = None
    BY <2>1 DEF SameLinks, InOrder
  <2>8. \A i \in DOMAIN t : /\ g.next[t[i]] = t[AfterIn(t, i)]
                             /\ g.previous[t[i]] = t[BeforeIn(t, i)]
    BY <2>1, <2>2 DEF Linked
  <2>9. g.first = IF t = <<>> THEN None ELSE s[1]
    BY <2>3, <2>4
  <2> HIDE DEF m
  <2> QED BY <1>6, <2>4, <2>5, <2>7, <2>8, <2>9
<1> QED BY <1>1, <1>5, <1>7, <1>8 DEF n, t

\* ... and makes a list again of whatever list.
LEMMA WithoutIsList ==
  ASSUME NEW l \in List, Oldest(l) # None, l.size > 0
  PROVE  Without(l, Oldest(l)) \in List /\ Without(l, Oldest(l)).size = l.size - 1
<1> DEFINE e == Oldest(l)
           g == IF e = l.first THEN [l EXCEPT !.first = None] ELSE Unlinked(l, e)
           nx == [g.next EXCEPT ![e] = None]
           pv == [g.previous EXCEPT ![e] = None]
<1>1. /\ l.first \in Entry /\ e \in Entry /\ l.next[e] \in Entry \cup {None} /\ l.size \in Nat
      /\ l.previous[e] \in Entry \cup {None}
      /\ l.next \in [Entry -> Entry \cup {None}] /\ l.previous \in [Entry -> Entry \cup {None}]
  BY ListFields DEF Oldest, LastOf
<1>2. g \in List /\ g.size = l.size
  <2>1. CASE e = l.first
    BY <2>1 DEF List
  <2>2. CASE e # l.first
    <3> DEFINE u == Unlinked(l, e)
               unx == [l.next EXCEPT ![l.previous[e]] = l.next[e]]
               upv == [l.previous EXCEPT ![l.next[e]] = l.previous[e]]
    <3>1. unx \in [Entry -> Entry \cup {None}] /\ upv \in [Entry -> Entry \cup {None}]
      BY <1>1
    <3>2. u = [l EXCEPT !.next = unx, !.previous = upv]
      BY DEF Unlinked
    <3> HIDE DEF unx, upv, u, e
    <3>3. u \in List /\ u.size = l.size /\ u.first = l.first
      BY <3>1, <3>2 DEF List
    <3>4. g = u
      BY <2>2 DEF u
    <3> QED BY <3>3, <3>4
  <2> QED BY <2>1, <2>2
<1>3. Without(l, e) = [g EXCEPT !.size = @ - 1, !.next[e] = None, !.previous[e] = None]
  BY DEF Without
<1> HIDE DEF g, e
<1>4. nx \in [Entry -> Entry \cup {None}] /\ pv \in [Entry -> Entry \cup {None}]
  BY <1>2, ListFields
<1>5. g.size - 1 \in Nat /\ g.size - 1 = l.size - 1
  BY <1>1, <1>2
<1>6. Without(l, e) = [g EXCEPT !.size = g.size - 1, !.next = nx, !.previous = pv]
  BY <1>3
<1> HIDE DEF nx, pv
<1>7. Without(l, e) \in List /\ Without(l, e).size = l.size - 1
  BY <1>2, <1>4, <1>5, <1>6 DEF List
<1> QED BY <1>7 DEF e

Shorter(s, n) == IF Len(s) > n THEN SubSeq(s, 1, n) ELSE s

\* A clean-up leaves as many entries as it should, the first ones.
LEMMA TrimmedInOrder ==
  ASSUME NEW l, NEW s, InOrder(l, s), NEW n \in Nat
  PROVE  InOrder(Trimmed(l, n), Shorter(s, n))
<1> DEFINE goesOn(m) == m.size > n /\ Oldest(m) # None
           trim == CHOOSE f : f = [m \in List |-> IF m.size > n /\ Oldest(m) # None
                                                  THEN f[Without(m, Oldest(m))] ELSE m]
           again == { m \in List : goesOn(m) }
           next == [m \in List |-> Without(m, Oldest(m))]
           out == [m \in List |-> m]
           size == [m \in List |-> m.size]
<1>1. Trimmed(l, n) = trim[l]
  BY DEF Trimmed
<1>2. Decreases(List, again, next, size)
  <2>1. ASSUME NEW m \in List PROVE size[m] \in Nat
    BY DEF List
  <2>2. ASSUME NEW m \in again PROVE next[m] \in List /\ size[next[m]] < size[m]
    <3>0. m \in List /\ m.size > n /\ Oldest(m) # None
      OBVIOUS
    <3>1. m \in List /\ m.size > 0 /\ Oldest(m) # None
      BY <3>0, ListFields
    <3>2. Without(m, Oldest(m)) \in List /\ Without(m, Oldest(m)).size = m.size - 1
      BY <3>1, WithoutIsList
    <3>3. next[m] = Without(m, Oldest(m))
      BY <3>1
    <3> HIDE DEF next
    <3>4. m.size \in Nat /\ size[m] = m.size /\ size[next[m]] = m.size - 1
      BY <3>1, <3>2, <3>3 DEF List
    <3> QED BY <3>2, <3>3, <3>4
  <2> QED BY <2>1, <2>2 DEF Decreases
<1>3. \A f : IsLoop(f, List, again, next, out) <=>
             f = [m \in List |-> IF goesOn(m) THEN f[Without(m, Oldest(m))] ELSE m]
  <2> SUFFICES ASSUME NEW f
               PROVE  [x \in List |-> IF x \in again THEN f[next[x]] ELSE out[x]]
                        = [m \in List |-> IF goesOn(m) THEN f[Without(m, Oldest(m))] ELSE m]
    BY DEF IsLoop
  <2> HIDE DEF goesOn
  <2> QED OBVIOUS
<1>4. IsLoop(trim, List, again, next, out)
  <2>1. \E f : IsLoop(f, List, again, next, out)
    <3> HIDE DEF again, next, out, size
    <3> QED BY <1>2, LoopEnds
  <2>2. trim = CHOOSE f : f = [m \in List |-> IF goesOn(m) THEN f[Without(m, Oldest(m))] ELSE m]
    OBVIOUS
  <2> HIDE DEF again, next, out, trim, goesOn
  <2> QED BY <2>1, <2>2, <1>3
<1> HIDE DEF trim
<1> DEFINE part(k) == SubSeq(s, 1, k)
           good == { m \in List : \E k \in 0 .. Len(s) :
                                    InOrder(m, part(k)) /\ (k >= n \/ k = Len(s)) }
           results == { m \in List : InOrder(m, Shorter(s, n)) }
<1>5. s \in Seq(Entry) /\ Len(s) \in Nat /\ l \in List
  BY OrderedEntries
<1>6. \A k \in 0 .. Len(s) : part(k) \in Seq(Entry) /\ Len(part(k)) = k
  BY <1>5
<1>7. \A k \in 0 .. Len(s) : k > 0 => SubSeq(part(k), 1, Len(part(k)) - 1) = part(k - 1)
  BY <1>5
<1>8. part(Len(s)) = s
  BY <1>5
<1> HIDE DEF part
<1>9. ASSUME NEW x \in good, x \in again PROVE next[x] \in good
  <2>1. PICK k \in 0 .. Len(s) : InOrder(x, part(k)) /\ (k >= n \/ k = Len(s))
    OBVIOUS
  <2>2. x.size = k /\ k > n
    BY <1>6, <1>9, <2>1, OrderedEntries
  <2>3. part(k) # <<>> /\ k > 0 /\ k - 1 \in 0 .. Len(s) /\ k - 1 >= n
    BY <1>5, <1>6, <2>2
  <2>4. InOrder(Without(x, Oldest(x)), part(k - 1)) /\ Without(x, Oldest(x)) \in List
    BY <1>7, <2>1, <2>3, WithoutInOrder
  <2> QED BY <2>3, <2>4
<1>10. ASSUME NEW x \in good, x \notin again PROVE out[x] \in results
  <2>1. PICK k \in 0 .. Len(s) : InOrder(x, part(k)) /\ (k >= n \/ k = Len(s))
    OBVIOUS
  <2>2. x.size = k /\ x \in List
    BY <1>6, <2>1, OrderedEntries
  <2>3. ~(k > n)
    <3> SUFFICES ASSUME k > n PROVE FALSE
      OBVIOUS
    <3>1. part(k) # <<>>
      BY <1>6
    <3> QED BY <1>10, <2>1, <2>2, <3>1, WithoutInOrder
  <2>4. part(k) = Shorter(s, n)
    <3>1. CASE Len(s) > n
      BY <1>5, <2>1, <2>3, <3>1 DEF Shorter, part
    <3>2. CASE ~(Len(s) > n)
      BY <1>5, <1>8, <2>1, <2>3, <3>2 DEF Shorter
    <3> QED BY <3>1, <3>2
  <2> QED BY <2>1, <2>2, <2>4
<1>11. l \in good
  BY <1>5, <1>8
<1>12. \A x \in good : trim[x] \in results
  <2>1. good \subseteq List
    OBVIOUS
  <2> HIDE DEF good, results, again, next, out, size
  <2>2. Keeps(good, results, List, again, next, out)
    BY <2>1, <1>9, <1>10 DEF Keeps
  <2> QED BY <2>2, <1>2, <1>4, LoopKeeps
<1> QED BY <1>1, <1>11, <1>12

\* What is listed is what the list consists of.
LEMMA ListedInOrder ==
  ASSUME NEW l, NEW s, InOrder(l, s)
  PROVE  FromFirst(l) = s
<1> DEFINE n == l.size
           walk(f) == [i \in 1 .. n |-> IF i = 1 THEN l.first ELSE l.next[f[i - 1]]]
           from == CHOOSE f : f = [i \in 1 .. n |-> IF i = 1 THEN l.first ELSE l.next[f[i - 1]]]
<1>1. /\ s \in Seq(Entry) /\ n = Len(s) /\ n \in Nat /\ DOMAIN s = 1 .. n
      /\ s = [i \in 1 .. n |-> s[i]] /\ Linked(l, s)
  BY OrderedEntries DEF InOrder
<1>2. \A i \in 1 .. n : s[i] = IF i = 1 THEN l.first ELSE l.next[s[i - 1]]
  <2> SUFFICES ASSUME NEW i \in 1 .. n
               PROVE  s[i] = IF i = 1 THEN l.first ELSE l.next[s[i - 1]]
    OBVIOUS
  <2>1. CASE i = 1
    <3>1. s # <<>>
      BY <1>1, <2>1
    <3> QED BY <1>1, <2>1, <3>1, LinkedEntries
  <2>2. CASE i # 1
    <3>1. i - 1 \in DOMAIN s /\ AfterIn(s, i - 1) = i
      BY <1>1, <2>2 DEF AfterIn
    <3> QED BY <1>1, <2>2, <3>1 DEF Linked
  <2> QED BY <2>1, <2>2
<1> HIDE DEF n
<1>3. s = walk(s)
  BY <1>1, <1>2
<1>4. from = walk(from)
  BY <1>3
<1>5. FromFirst(l) = from
  BY DEF FromFirst, n
<1> HIDE DEF from
<1>6. DOMAIN from = 1 .. n /\ \A i \in 1 .. n : from[i] = IF i = 1 THEN l.first ELSE l.next[from[i - 1]]
  BY <1>4
<1> DEFINE Same == { i \in Nat : i \in 1 .. n => from[i] = s[i] }
<1>7. 0 \in Same
  BY <1>1
<1>8. ASSUME NEW i \in Nat, i \in Same PROVE i + 1 \in Same
  <2> SUFFICES ASSUME i + 1 \in 1 .. n PROVE from[i + 1] = s[i + 1]
    OBVIOUS
  <2>1. CASE i = 0
    BY <1>2, <1>6, <2>1
  <2>2. CASE i # 0
    <3>1. i \in 1 .. n /\ (i + 1) - 1 = i /\ i + 1 # 1
      BY <1>1, <2>2
    <3> QED BY <1>2, <1>6, <1>8, <3>1
  <2> QED BY <2>1, <2>2
<1>9. Nat \subseteq Same
  <2> HIDE DEF Same
  <2> QED BY <1>7, <1>8, SetInduction
<1>10. \A i \in 1 .. n : from[i] = s[i]
  BY <1>1, <1>9
<1>11. from = s
  BY <1>1, <1>4, <1>6, <1>10
<1> QED BY <1>5, <1>11

-----------------------------------------------------------------------------
(***************************************************************************)
(* 3. The maps of the resources, as keys are added and deleted.            *)
(***************************************************************************)
\* The keys in the maps of the resources.
InMaps(maps, k) == Resource[k] \in DOMAIN maps /\ k \in DOMAIN maps[Resource[k]]

MapsOK(maps) ==
  /\ DOMAIN maps \subseteq Range(Resource)
  /\ \A a \in DOMAIN maps : \A k \in DOMAIN maps[a] :
       k \in Key /\ Resource[k] = a /\ maps[a][k] \in Entry

\* The maps have the entries of this set, each under one key.
Holds(maps, some) ==
  /\ { maps[Resource[k]][k] : k \in { j \in Key : InMaps(maps, j) } } = some
  /\ \A j, k \in Key :
       InMaps(maps, j) /\ InMaps(maps, k) /\ maps[Resource[j]][j] = maps[Resource[k]][k] => j = k

\* A key is cached if the maps have it.
LEMMA CachedInMaps == \A k : Cached(k) <=> InMaps(entries, k)
BY DEF Cached, MapOf, InMaps

\* A new entry of a key that has none.
WithEntry(maps, k, e) == Put(maps, Resource[k], Put(MapOf(Resource[k]), k, e))

LEMMA NewEntryInMaps ==
  ASSUME NEW k \in Key, ~InMaps(entries, k), NEW e \in Entry, NEW some, e \notin some,
         MapsOK(entries), Holds(entries, some)
  PROVE  LET maps == WithEntry(entries, k, e)
         IN  /\ MapsOK(maps) /\ Holds(maps, some \cup {e})
             /\ \A j \in Key : InMaps(maps, j) <=> InMaps(entries, j) \/ j = k
<1> DEFINE a == Resource[k]
           new == Put(MapOf(a), k, e)
           maps == WithEntry(entries, k, e)
<1>1. DOMAIN maps = DOMAIN entries \cup {a} /\ maps[a] = new /\ a \in Range(Resource)
      /\ \A b \in DOMAIN entries \ {a} : maps[b] = entries[b]
  BY DEF WithEntry, Put, Key, Range
<1>2. /\ DOMAIN new = DOMAIN MapOf(a) \cup {k} /\ new[k] = e
      /\ \A j \in DOMAIN MapOf(a) \ {k} : new[j] = MapOf(a)[j]
  BY DEF Put
<1>3. /\ DOMAIN MapOf(a) = IF a \in DOMAIN entries THEN DOMAIN entries[a] ELSE {}
      /\ a \in DOMAIN entries => MapOf(a) = entries[a]
  BY DEF MapOf
<1> HIDE DEF maps, new
<1>4. k \notin DOMAIN MapOf(a)
  BY <1>3 DEF InMaps
<1>5. \A j \in DOMAIN new : j = k \/ (a \in DOMAIN entries /\ j \in DOMAIN entries[a] /\ new[j] = entries[a][j])
  BY <1>2, <1>3, <1>4
<1>6. MapsOK(maps)
  BY <1>1, <1>2, <1>5 DEF MapsOK
<1>7. \A j \in Key : InMaps(maps, j) <=> InMaps(entries, j) \/ j = k
  <2> SUFFICES ASSUME NEW j \in Key PROVE InMaps(maps, j) <=> InMaps(entries, j) \/ j = k
    OBVIOUS
  <2>1. CASE Resource[j] = a
    BY <1>1, <1>2, <1>3, <2>1 DEF InMaps
  <2>2. CASE Resource[j] # a
    BY <1>1, <2>2 DEF InMaps
  <2> QED BY <2>1, <2>2
<1>8. \A j \in Key : InMaps(entries, j) => maps[Resource[j]][j] = entries[Resource[j]][j]
  <2> SUFFICES ASSUME NEW j \in Key, InMaps(entries, j)
               PROVE  maps[Resource[j]][j] = entries[Resource[j]][j]
    OBVIOUS
  <2>1. CASE Resource[j] = a
    BY <1>1, <1>2, <1>3, <1>4, <2>1 DEF InMaps
  <2>2. CASE Resource[j] # a
    BY <1>1, <2>2 DEF InMaps
  <2> QED BY <2>1, <2>2
<1>9. maps[Resource[k]][k] = e
  BY <1>1, <1>2
<1>10. \A j \in Key : InMaps(entries, j) => entries[Resource[j]][j] \in some
  BY DEF Holds
<1>11. { maps[Resource[j]][j] : j \in { i \in Key : InMaps(maps, i) } } = some \cup {e}
  <2>1. ASSUME NEW j \in Key, InMaps(maps, j) PROVE maps[Resource[j]][j] \in some \cup {e}
    BY <1>7, <1>8, <1>9, <1>10, <2>1
  <2>2. ASSUME NEW x \in some PROVE \E j \in Key : InMaps(maps, j) /\ maps[Resource[j]][j] = x
    <3>1. PICK j \in Key : InMaps(entries, j) /\ entries[Resource[j]][j] = x
      BY DEF Holds
    <3> QED BY <1>7, <1>8, <3>1
  <2>3. InMaps(maps, k)
    BY <1>7
  <2> QED BY <1>9, <2>1, <2>2, <2>3
<1>12. ASSUME NEW i \in Key, NEW j \in Key, InMaps(maps, i), InMaps(maps, j),
              maps[Resource[i]][i] = maps[Resource[j]][j]
       PROVE  i = j
  <2>1. (i = k \/ InMaps(entries, i)) /\ (j = k \/ InMaps(entries, j))
    BY <1>7, <1>12
  <2>2. i = k /\ InMaps(entries, j) => FALSE
    BY <1>8, <1>9, <1>10, <1>12
  <2>3. j = k /\ InMaps(entries, i) => FALSE
    BY <1>8, <1>9, <1>10, <1>12
  <2>4. InMaps(entries, i) /\ InMaps(entries, j) => i = j
    BY <1>8, <1>12 DEF Holds
  <2> QED BY <2>1, <2>2, <2>3, <2>4
<1> QED BY <1>6, <1>7, <1>11, <1>12 DEF Holds, maps

\* Another, empty map for a resource that had none.
\* The map of a resource that has none yet, or had one.
LEMMA EmptyMapAdded ==
  ASSUME NEW k \in Key, NEW some, MapsOK(entries), Holds(entries, some)
  PROVE  LET maps == Put(entries, Resource[k], MapOf(Resource[k]))
         IN  /\ MapsOK(maps) /\ Holds(maps, some)
             /\ \A j \in Key : InMaps(maps, j) <=> InMaps(entries, j)
<1> DEFINE a == Resource[k]
           maps == Put(entries, a, MapOf(a))
<1>1. DOMAIN maps = DOMAIN entries \cup {a} /\ maps[a] = MapOf(a) /\ a \in Range(Resource)
      /\ \A b \in DOMAIN entries \ {a} : maps[b] = entries[b]
  BY DEF Put, Key, Range
<1>2. /\ DOMAIN MapOf(a) = IF a \in DOMAIN entries THEN DOMAIN entries[a] ELSE {}
      /\ a \in DOMAIN entries => MapOf(a) = entries[a]
  BY DEF MapOf
<1> HIDE DEF maps
<1>3. MapsOK(maps)
  BY <1>1, <1>2 DEF MapsOK
<1>4. \A j \in Key : /\ InMaps(maps, j) <=> InMaps(entries, j)
                     /\ InMaps(entries, j) => maps[Resource[j]][j] = entries[Resource[j]][j]
  BY <1>1, <1>2 DEF InMaps
<1>5. { maps[Resource[j]][j] : j \in { i \in Key : InMaps(maps, i) } }
        = { entries[Resource[j]][j] : j \in { i \in Key : InMaps(entries, i) } }
  BY <1>4
<1>6. Holds(maps, some)
  BY <1>4, <1>5 DEF Holds
<1> QED BY <1>3, <1>4, <1>6 DEF maps

\* The entries that a clean-up deletes go from the maps, and no others.
\* The keys of the entries that are no longer listed are deleted.
LEMMA DeletedFromMaps ==
  ASSUME NEW some, NEW left, left \subseteq some, MapsOK(entries), Holds(entries, some)
  PROVE  LET maps == WithoutKeys(entries, KeysOf(some \ left))
         IN  MapsOK(maps) /\ Holds(maps, left)
<1> DEFINE keys == KeysOf(some \ left)
           maps == WithoutKeys(entries, keys)
           emptied == { a \in DOMAIN entries : /\ DOMAIN entries[a] \cap keys # {}
                                               /\ DOMAIN entries[a] \subseteq keys }
<1>1. \A k \in Key : InMaps(entries, k) => (k \in keys <=> entries[Resource[k]][k] \notin left)
  <2>1. \A k \in Key : InMaps(entries, k) => entries[Resource[k]][k] \in some
    BY DEF Holds
  <2> QED BY <2>1, CachedInMaps DEF KeysOf, EntryOf
<1> HIDE DEF keys
<1>2. /\ DOMAIN maps = DOMAIN entries \ emptied
      /\ \A a \in DOMAIN entries \ emptied : maps[a] = Restrict(entries[a], DOMAIN entries[a] \ keys)
  BY DEF WithoutKeys
<1>3. \A a \in DOMAIN maps : /\ DOMAIN maps[a] = DOMAIN entries[a] \ keys /\ a \in DOMAIN entries
                             /\ \A k \in DOMAIN maps[a] : maps[a][k] = entries[a][k]
  BY <1>2 DEF Restrict
<1> HIDE DEF maps
<1>4. MapsOK(maps)
  BY <1>2, <1>3 DEF MapsOK
<1>5. ASSUME NEW k \in Key
      PROVE  /\ InMaps(maps, k) <=> InMaps(entries, k) /\ k \notin keys
             /\ InMaps(maps, k) => maps[Resource[k]][k] = entries[Resource[k]][k]
  BY <1>2, <1>3 DEF InMaps
<1>6. { maps[Resource[k]][k] : k \in { j \in Key : InMaps(maps, j) } } = left
  <2>1. ASSUME NEW k \in Key, InMaps(maps, k) PROVE maps[Resource[k]][k] \in left
    BY <1>1, <1>5, <2>1
  <2>2. ASSUME NEW x \in left PROVE \E k \in Key : InMaps(maps, k) /\ maps[Resource[k]][k] = x
    <3>1. PICK k \in Key : InMaps(entries, k) /\ entries[Resource[k]][k] = x
      BY DEF Holds
    <3> QED BY <1>1, <1>5, <3>1
  <2> QED BY <2>1, <2>2
<1>7. \A j, k \in Key :
        InMaps(maps, j) /\ InMaps(maps, k) /\ maps[Resource[j]][j] = maps[Resource[k]][k] => j = k
  BY <1>5 DEF Holds
<1> QED BY <1>4, <1>6, <1>7 DEF Holds, maps, keys

-----------------------------------------------------------------------------
(***************************************************************************)
(* 4. The invariant: the list is in order, the maps have the same entries, *)
(* at most one component renders, and there is room for what that one      *)
(* reads.                                                                  *)
(***************************************************************************)
\* The list is the sequence s for some s.
ListInv ==
  /\ \E s : InOrder(list, s)
  /\ limit \in Limits /\ cleanUpIsScheduled \in BOOLEAN
  /\ cleanUps = (IF cleanUpIsScheduled THEN 1 ELSE 0)
  /\ unread \subseteq OnList(list)

MapsInv == MapsOK(entries) /\ Holds(entries, OnList(list))

IsState(x) == x \in [ at : {"idle", "rendering", "suspended", "done", "failed"}, i : Nat,
                      on : Entry \cup {None} ]

\* A component that renders is at one of its calls, alone, ...
ReadersInv ==
  /\ result \in [Entry -> Statuses] /\ settled \in [Entry -> BOOLEAN]
  /\ DOMAIN reader = Reader /\ \A r \in Reader : IsState(reader[r])
  /\ \A r \in Rendering : reader[r].i \in DOMAIN Calls(r) /\ reader[r].on = None
  /\ \A q, r \in Rendering : q = r

\* ... and each key that it reads is cached or has an object for a new entry.
RoomInv ==
  \A r \in Rendering : \A k \in Range(Reads[r]) :
    InMaps(entries, k) \/ \E e \in Objects[k] : e \notin Used

CacheInv == ListInv /\ MapsInv /\ ReadersInv /\ RoomInv

\* What a component calls: keys that it reads, and a read after every preload.
LEMMA CallsOfReader ==
  ASSUME NEW r \in Reader
  PROVE  /\ 1 \in DOMAIN Calls(r) /\ Len(Calls(r)) \in Nat /\ DOMAIN Calls(r) = 1 .. Len(Calls(r))
         /\ \A i \in DOMAIN Calls(r) :
              /\ Calls(r)[i][1] \in {"preload", "read"}
              /\ Calls(r)[i][2] \in Range(Reads[r]) /\ Calls(r)[i][2] \in Key
              /\ Calls(r)[i][1] = "preload" => i + 1 \in DOMAIN Calls(r)
<1> DEFINE n == Len(Reads[r])
           loads == [i \in 1 .. n |-> <<"preload", Reads[r][i]>>]
           reads == [i \in 1 .. n |-> <<"read", Reads[r][i]>>]
           Call == {"preload", "read"} \X Range(Reads[r])
<1>1. Reads[r] \in Seq(Key) /\ n \in Nat /\ n >= 1 /\ DOMAIN Reads[r] = 1 .. n
  BY ReactCacheAssumption
<1>2. \A i \in 1 .. n : Reads[r][i] \in Range(Reads[r]) /\ Reads[r][i] \in Key
  BY <1>1 DEF Range
<1>3. /\ loads \in Seq(Call) /\ Len(loads) = n /\ \A i \in 1 .. n : loads[i] = <<"preload", Reads[r][i]>>
      /\ reads \in Seq(Call) /\ Len(reads) = n /\ \A i \in 1 .. n : reads[i] = <<"read", Reads[r][i]>>
  BY <1>1, <1>2
<1>4. Calls(r) = IF r \in Preloading THEN loads \o reads ELSE <<>> \o reads
  BY <1>1 DEF Calls
<1>5. \A i \in 1 .. n : /\ loads[i][1] = "preload" /\ reads[i][1] = "read"
                        /\ loads[i][2] = Reads[r][i] /\ reads[i][2] = Reads[r][i]
  BY <1>3
<1> HIDE DEF loads, reads, n, Call
<1>6. CASE r \in Preloading
  <2>1. /\ Calls(r) \in Seq(Call) /\ Len(Calls(r)) = n + n
        /\ \A i \in 1 .. n + n : Calls(r)[i] = IF i <= n THEN loads[i] ELSE reads[i - n]
    <3>1. Calls(r) = loads \o reads /\ loads \in Seq(Call) /\ reads \in Seq(Call)
          /\ Len(loads) = n /\ Len(reads) = n
      BY <1>3, <1>4, <1>6
    <3>2. ASSUME NEW a \in Seq(Call), NEW b \in Seq(Call), Len(a) = n, Len(b) = n
          PROVE  /\ a \o b \in Seq(Call) /\ Len(a \o b) = n + n
                 /\ \A i \in 1 .. n + n : (a \o b)[i] = IF i <= n THEN a[i] ELSE b[i - n]
      BY <1>1, <3>2
    <3> QED BY <3>1, <3>2
  <2>2. DOMAIN Calls(r) = 1 .. n + n
    BY <2>1
  <2>3. \A i \in 1 .. n + n : i <= n => i \in 1 .. n
    BY <1>1
  <2>4. \A i \in 1 .. n + n : ~(i <= n) => i - n \in 1 .. n
    BY <1>1
  <2>5. \A i \in 1 .. n : i + 1 \in 1 .. n + n
    BY <1>1
  <2>6. 1 \in 1 .. n + n /\ n + n \in Nat
    BY <1>1
  <2>7. ASSUME NEW i \in DOMAIN Calls(r)
        PROVE  /\ Calls(r)[i][1] \in {"preload", "read"}
               /\ Calls(r)[i][2] \in Range(Reads[r]) /\ Calls(r)[i][2] \in Key
               /\ Calls(r)[i][1] = "preload" => i + 1 \in DOMAIN Calls(r)
    <3>1. CASE i <= n
      BY <1>2, <1>5, <2>1, <2>2, <2>3, <2>5, <3>1
    <3>2. CASE ~(i <= n)
      BY <1>2, <1>5, <2>1, <2>2, <2>4, <3>2
    <3> QED BY <3>1, <3>2
  <2> QED BY <2>1, <2>2, <2>6, <2>7
<1>7. CASE r \notin Preloading
  <2>1. Calls(r) = reads
    BY <1>3, <1>4, <1>7
  <2>2. DOMAIN Calls(r) = 1 .. n /\ Len(Calls(r)) = n
    BY <1>3, <2>1
  <2> QED BY <1>1, <1>2, <1>5, <2>1, <2>2
<1> QED BY <1>6, <1>7

\* The states of a component.
LEMMA StatesOfReader ==
  /\ IsState(Idle) /\ IsState(Ended("done")) /\ IsState(Ended("failed"))
  /\ \A i \in Nat : IsState(Calling(i)) /\ Calling(i).at = "rendering" /\ Calling(i).i = i
                    /\ Calling(i).on = None
  /\ \A e \in Entry : IsState(Suspended(e)) /\ Suspended(e).at = "suspended" /\ Suspended(e).on = e
  /\ Idle.at = "idle" /\ Ended("done").at = "done" /\ Ended("failed").at = "failed"
  /\ Ended("done").on = None /\ Ended("failed").on = None
BY DEF IsState, Idle, Ended, Calling, Suspended

\* What a call leads to.
LEMMA ContinuedIsState ==
  ASSUME ReadersInv, NEW r \in Rendering, NEW status \in Statuses, NEW e \in Entry
  PROVE  LET x == Continued(r, Calls(r)[reader[r].i][1], status, e)
         IN  /\ IsState(x)
             /\ x.at = "rendering" => x.i \in DOMAIN Calls(r) /\ x.on = None
             /\ x.on \in {e, None}
<1> DEFINE i == reader[r].i
           call == Calls(r)[i][1]
           x == Continued(r, call, status, e)
<1>1. r \in Reader /\ i \in DOMAIN Calls(r) /\ call \in {"preload", "read"}
  BY CallsOfReader DEF ReadersInv, Rendering
<1>2. /\ i \in Nat /\ i + 1 \in Nat /\ DOMAIN Calls(r) = 1 .. Len(Calls(r)) /\ Len(Calls(r)) \in Nat
      /\ call = "preload" \/ i # Len(Calls(r)) => i + 1 \in DOMAIN Calls(r)
  BY <1>1, CallsOfReader
<1> HIDE DEF i, call
<1>3. CASE call = "preload"
  <2>1. x = Calling(i + 1)
    BY <1>3 DEF Continued, i
  <2> QED BY <1>2, <1>3, <2>1, StatesOfReader DEF i, call
<1>4. CASE call = "read"
  <2>1. status \in {"Pending", "Resolved", "Rejected"}
    BY DEF Statuses
  <2>2. x \in { Suspended(e), Ended("failed"), Ended("done") } \/ (x = Calling(i + 1) /\ i # Len(Calls(r)))
    BY <1>4, <2>1 DEF Continued, i
  <2> HIDE DEF x
  <2>3. /\ IsState(x)
        /\ x.at = "rendering" => x.i \in DOMAIN Calls(r) /\ x.on = None
        /\ x.on \in {e, None}
    <3>1. CASE x = Calling(i + 1) /\ i # Len(Calls(r))
      BY <1>2, <3>1, StatesOfReader
    <3>2. CASE x = Suspended(e)
      BY <3>2, StatesOfReader
    <3>3. CASE x \in {Ended("failed"), Ended("done")}
      BY <3>3, StatesOfReader
    <3> QED BY <2>2, <3>1, <3>2, <3>3, SMTT(60)
  <2> QED BY <2>3 DEF x, i, call
<1> QED BY <1>1, <1>3, <1>4

-----------------------------------------------------------------------------
(***************************************************************************)
(* 5. Every step keeps the invariant and does to the sequence what         *)
(* RecentlyUsed says.                                                      *)
(***************************************************************************)
\* cleanUps is 1 while the flag is set.
LEMMA ScheduleKeeps ==
  ASSUME cleanUpIsScheduled \in BOOLEAN, cleanUps = (IF cleanUpIsScheduled THEN 1 ELSE 0),
         NEW size, NEW max, ScheduleCleanUp(size, max)
  PROVE  /\ cleanUpIsScheduled' \in BOOLEAN
         /\ cleanUps' = (IF cleanUpIsScheduled' THEN 1 ELSE 0)
<1>1. CASE ~cleanUpIsScheduled /\ TooMany(size, max)
  <2>1. cleanUpIsScheduled' = TRUE /\ cleanUps' = cleanUps + 1
    BY <1>1 DEF ScheduleCleanUp
  <2>2. cleanUps = 0
    BY <1>1
  <2> QED BY <2>1, <2>2
<1>2. CASE ~(~cleanUpIsScheduled /\ TooMany(size, max))
  <2>1. cleanUpIsScheduled' = cleanUpIsScheduled /\ cleanUps' = cleanUps
    BY <1>2 DEF ScheduleCleanUp
  <2> QED BY <2>1
<1> QED BY <1>1, <1>2

\* An entry that has a key is on the list.
LEMMA EntryIsListed ==
  ASSUME MapsInv, NEW k \in Key, Cached(k)
  PROVE  EntryOf(k) \in OnList(list) /\ EntryOf(k) \in Entry /\ InMaps(entries, k)
BY CachedInMaps DEF MapsInv, Holds, EntryOf, OnList

\* A component goes on, while the others stay where they are.
LEMMA ReaderMoves ==
  ASSUME ReadersInv, NEW r \in Reader, NEW x, IsState(x), reader' = [reader EXCEPT ![r] = x],
         x.at = "rendering" => x.i \in DOMAIN Calls(r) /\ x.on = None,
         Rendering \subseteq {r},
         result' \in [Entry -> Statuses], settled' \in [Entry -> BOOLEAN]
  PROVE  /\ ReadersInv'
         /\ Rendering' \subseteq {r} /\ (Rendering' # {} => x.on = None)
<1>1. /\ DOMAIN reader' = Reader /\ reader'[r] = x
      /\ \A q \in Reader \ {r} : reader'[q] = reader[q]
  BY DEF ReadersInv
<1>2. \A q \in Reader : IsState(reader'[q])
  BY <1>1 DEF ReadersInv
<1>3. \A q \in Reader : reader'[q].at = "rendering" => q = r /\ x.at = "rendering"
  BY <1>1 DEF Rendering
<1>4. Rendering' \subseteq {r} /\ (Rendering' # {} => x.at = "rendering")
  BY <1>3 DEF Rendering
<1>5. \A q \in Rendering' : reader'[q].i \in DOMAIN Calls(q) /\ reader'[q].on = None
  BY <1>1, <1>4
<1> QED BY <1>1, <1>2, <1>4, <1>5 DEF ReadersInv, Calls

\* Nothing renders, and no component goes on.
LEMMA NobodyMoves ==
  ASSUME ReadersInv, reader' = reader, Rendering = {},
         result' \in [Entry -> Statuses], settled' \in [Entry -> BOOLEAN]
  PROVE  ReadersInv' /\ RoomInv'
<1>1. Rendering' = {}
  BY DEF Rendering
<1> QED BY <1>1 DEF ReadersInv, RoomInv

\* What is in use afterwards, when a component goes on and entries come into use.
LEMMA UsedAfter ==
  ASSUME ReadersInv, NEW r \in Reader, NEW x, x.on = None, reader' = [reader EXCEPT ![r] = x],
         NEW some, OnList(list') \subseteq OnList(list) \cup some,
         { e \in Entry : ~settled'[e] } \subseteq { e \in Entry : ~settled[e] } \cup some
  PROVE  Used' \subseteq Used \cup some \cup {None}
<1>1. \A q \in Reader : reader'[q].on = None \/ reader'[q].on = reader[q].on
  BY DEF ReadersInv
<1>2. Used' = OnList(list') \cup { reader'[q].on : q \in Reader } \cup { e \in Entry : ~settled'[e] }
  BY DEF Used, OnList
<1> QED BY <1>1, <1>2 DEF Used

\* A component renders if there is room for what it reads.
LEMMA RenderKeeps ==
  ASSUME CacheInv, NEW r \in Reader, Render(r) \/ Update(r)
  PROVE  CacheInv'
<1>1. /\ Rendering = {} /\ Bounded(r) /\ reader' = [reader EXCEPT ![r] = Calling(1)]
      /\ UNCHANGED <<lruVars, entries, result, settled>>
  BY DEF Render, Update
<1>2. IsState(Calling(1)) /\ Calling(1).i = 1 /\ Calling(1).on = None /\ 1 \in DOMAIN Calls(r)
  BY CallsOfReader, StatesOfReader
<1>3. ReadersInv' /\ Rendering' \subseteq {r}
  BY <1>1, <1>2, ReaderMoves DEF CacheInv, ReadersInv
<1>4. Used' \subseteq Used \cup {} \cup {None}
  <2>1. OnList(list') \subseteq OnList(list) \cup {}
    BY <1>1 DEF lruVars
  <2>2. { e \in Entry : ~settled'[e] } \subseteq { e \in Entry : ~settled[e] } \cup {}
    BY <1>1
  <2>3. Calling(1).on = None
    BY <1>2
  <2> HIDE DEF CacheInv
  <2> QED BY <1>1, <2>1, <2>2, <2>3, UsedAfter DEF CacheInv
<1>5. \A k \in Range(Reads[r]) : \E e \in Objects[k] : e \notin Used'
  <2> SUFFICES ASSUME NEW k \in Range(Reads[r]) PROVE \E e \in Objects[k] : e \notin Used'
    OBVIOUS
  <2>1. k \in Key
    BY ReactCacheAssumption DEF Range
  <2>2. Objects[k] \subseteq Entry
    BY <2>1, ReactCacheAssumption
  <2>3. PICK e \in Objects[k] : e \notin Used
    BY <1>1 DEF Bounded
  <2> QED BY <1>4, <2>2, <2>3, LRUAssumption
<1>6. RoomInv'
  BY <1>3, <1>5 DEF RoomInv
<1>7. ListInv' /\ MapsInv'
  BY <1>1 DEF CacheInv, ListInv, MapsInv, lruVars, OnList
<1> QED BY <1>3, <1>6, <1>7 DEF CacheInv

\* What a call of a component is.
LEMMA CallOfRendering ==
  ASSUME ReadersInv, NEW r \in Reader, reader[r].at = "rendering"
  PROVE  /\ r \in Rendering /\ Rendering \subseteq {r}
         /\ Calls(r)[reader[r].i][2] \in Range(Reads[r]) /\ Calls(r)[reader[r].i][2] \in Key
<1>1. r \in Rendering
  BY DEF Rendering
<1> QED BY <1>1, CallsOfReader DEF ReadersInv

\* A hit moves an entry to the front ...
LEMMA HitKeeps ==
  ASSUME CacheInv, NEW r \in Reader, Hit(r)
  PROVE  /\ CacheInv' /\ result' = result
         /\ \E s : \E k \in DOMAIN s :
              /\ InOrder(list, s) /\ InOrder(list', <<s[k]>> \o RemoveAt(s, k))
              /\ unread' = unread \ {s[k]} /\ UNCHANGED limit
<1> DEFINE call == Calls(r)[reader[r].i]
           e == EntryOf(call[2])
           x == Continued(r, call[1], result[e], e)
<1>1. /\ Cached(call[2]) /\ Access(e) /\ reader' = [reader EXCEPT ![r] = x]
      /\ UNCHANGED <<entries, result, settled, surprises>> /\ reader[r].at = "rendering"
  BY DEF Hit
<1>2. ListInv /\ MapsInv /\ ReadersInv /\ RoomInv
  BY DEF CacheInv
<1>3. r \in Rendering /\ Rendering \subseteq {r} /\ call[2] \in Key
  BY <1>1, <1>2, CallOfRendering
<1>4. e \in OnList(list) /\ e \in Entry
  BY <1>1, <1>2, <1>3, EntryIsListed
<1> HIDE DEF e, x
<1>5. PICK s : InOrder(list, s)
  BY <1>2 DEF ListInv
<1>6. PICK k \in DOMAIN s : s[k] = e
  BY <1>4, <1>5, OrderedEntries DEF Range
<1>7. /\ list' = Accessed(list, e) /\ unread' = unread \ {e} /\ limit' = limit
      /\ ScheduleCleanUp(list.size, limit)
  BY <1>1 DEF Access
<1>8. InOrder(list', <<s[k]>> \o RemoveAt(s, k)) /\ OnList(list') = OnList(list)
  BY <1>5, <1>6, <1>7, AccessedInOrder
<1>9. ListInv'
  <2>1. /\ cleanUpIsScheduled' \in BOOLEAN
        /\ cleanUps' = (IF cleanUpIsScheduled' THEN 1 ELSE 0)
    BY <1>2, <1>7, ScheduleKeeps DEF ListInv
  <2>2. unread' \subseteq OnList(list')
    BY <1>2, <1>7, <1>8 DEF ListInv
  <2> QED BY <1>2, <1>7, <1>8, <2>1, <2>2 DEF ListInv, OnList
<1>10. MapsInv'
  BY <1>1, <1>2, <1>8 DEF MapsInv, OnList
<1>11. IsState(x) /\ (x.at = "rendering" => x.i \in DOMAIN Calls(r) /\ x.on = None)
  <2>1. result[e] \in Statuses
    BY <1>2, <1>4 DEF ReadersInv
  <2> QED BY <1>2, <1>3, <1>4, <2>1, ContinuedIsState DEF x
<1>12. /\ ReadersInv' /\ Rendering' \subseteq {r} /\ (Rendering' # {} => x.on = None)
  <2>1. result' \in [Entry -> Statuses] /\ settled' \in [Entry -> BOOLEAN]
    BY <1>1, <1>2 DEF ReadersInv
  <2>2. IsState(x) /\ (x.at = "rendering" => x.i \in DOMAIN Calls(r) /\ x.on = None)
    BY <1>11
  <2> QED BY <1>1, <1>2, <1>3, <2>1, <2>2, ReaderMoves
<1>13. RoomInv'
  <2> SUFFICES ASSUME Rendering' # {} PROVE RoomInv'
    BY DEF RoomInv
  <2>1. Used' \subseteq Used \cup {} \cup {None}
    <3>1. OnList(list') \subseteq OnList(list) \cup {}
      BY <1>8
    <3>2. { d \in Entry : ~settled'[d] } \subseteq { d \in Entry : ~settled[d] } \cup {}
      BY <1>1
    <3>3. x.on = None
      BY <1>12
    <3> QED BY <1>1, <1>2, <3>1, <3>2, <3>3, UsedAfter
  <2>2. \A q \in Range(Reads[r]) : Objects[q] \subseteq Entry
    BY ReactCacheAssumption DEF Range
  <2>3. \A q \in Range(Reads[r]) : InMaps(entries, q) \/ \E d \in Objects[q] : d \notin Used'
    BY <1>2, <1>3, <2>1, <2>2, LRUAssumption DEF RoomInv
  <2> QED BY <1>1, <1>12, <2>3 DEF RoomInv, InMaps
<1> QED BY <1>1, <1>5, <1>6, <1>7, <1>8, <1>9, <1>10, <1>12, <1>13 DEF CacheInv

\* ... and a miss adds one that nothing refers to.
LEMMA MissKeeps ==
  ASSUME CacheInv, NEW r \in Reader, Miss(r)
  PROVE  /\ CacheInv' /\ \A d \in OnList(list) : result'[d] = result[d]
         /\ \E s : \E e \in Entry \ Range(s) :
              /\ InOrder(list, s) /\ InOrder(list', <<e>> \o s)
              /\ unread' = unread \cup {e} /\ UNCHANGED limit
<1> DEFINE call == Calls(r)[reader[r].i]
           k == call[2]
           e == NewEntry(k)
           x == Continued(r, call[1], "Pending", e)
<1>1. /\ ~Cached(k) /\ Add(e) /\ reader' = [reader EXCEPT ![r] = x]
      /\ result' = [result EXCEPT ![e] = "Pending"]
      /\ settled' = [settled EXCEPT ![e] = FALSE]
      /\ entries' = WithEntry(entries, k, e)
      /\ reader[r].at = "rendering"
  BY DEF Miss, WithEntry
<1>2. ListInv /\ MapsInv /\ ReadersInv /\ RoomInv
  BY DEF CacheInv
<1>3. r \in Rendering /\ Rendering \subseteq {r} /\ k \in Key /\ k \in Range(Reads[r])
  BY <1>1, <1>2, CallOfRendering
<1> HIDE DEF k, x
<1>4. e \in Objects[k] /\ e \notin Used /\ e \in Entry /\ e \notin OnList(list)
  <2>1. \E d \in Objects[k] : d \notin Used
    BY <1>1, <1>2, <1>3, CachedInMaps DEF RoomInv
  <2>2. e \in Objects[k] /\ e \notin Used
    BY <2>1 DEF NewEntry
  <2>3. Objects[k] \subseteq Entry
    BY <1>3, ReactCacheAssumption
  <2> QED BY <2>2, <2>3 DEF Used
<1> HIDE DEF e
<1>5. PICK s : InOrder(list, s)
  BY <1>2 DEF ListInv
<1>6. e \notin Range(s) /\ OnList(list) = Range(s)
  BY <1>4, <1>5, OrderedEntries
<1>7. /\ list' = Added(list, e) /\ unread' = unread \cup {e}
      /\ UNCHANGED <<limit, cleanUpIsScheduled, cleanUps>>
  BY <1>1 DEF Add
<1>8. InOrder(list', <<e>> \o s) /\ OnList(list') = OnList(list) \cup {e}
  BY <1>4, <1>5, <1>7, AddedInOrder
<1>9. ListInv'
  <2>1. unread' \subseteq OnList(list')
    BY <1>2, <1>7, <1>8 DEF ListInv
  <2> QED BY <1>2, <1>7, <1>8, <2>1 DEF ListInv, OnList
<1>10. /\ MapsInv'
       /\ \A j \in Key : InMaps(entries', j) <=> InMaps(entries, j) \/ j = k
  <2>1. ~InMaps(entries, k)
    BY <1>1, CachedInMaps
  <2>2. /\ MapsOK(entries') /\ Holds(entries', OnList(list) \cup {e})
        /\ \A j \in Key : InMaps(entries', j) <=> InMaps(entries, j) \/ j = k
    BY <1>1, <1>2, <1>3, <1>4, <2>1, NewEntryInMaps DEF MapsInv
  <2> QED BY <1>8, <2>2 DEF MapsInv, OnList
<1>11. /\ IsState(x) /\ (x.at = "rendering" => x.i \in DOMAIN Calls(r) /\ x.on = None)
  BY <1>2, <1>3, <1>4, ContinuedIsState DEF x, Statuses
<1>12. /\ ReadersInv' /\ Rendering' \subseteq {r} /\ (Rendering' # {} => x.on = None)
  <2>1. result' \in [Entry -> Statuses] /\ settled' \in [Entry -> BOOLEAN]
    BY <1>1, <1>2 DEF ReadersInv, Statuses
  <2> QED BY <1>1, <1>2, <1>3, <1>11, <2>1, ReaderMoves
<1>13. RoomInv'
  <2> SUFFICES ASSUME Rendering' # {} PROVE RoomInv'
    BY DEF RoomInv
  <2>1. Used' \subseteq Used \cup {e} \cup {None}
    <3>1. OnList(list') \subseteq OnList(list) \cup {e}
      BY <1>8
    <3>2. { d \in Entry : ~settled'[d] } \subseteq { d \in Entry : ~settled[d] } \cup {e}
      BY <1>1, <1>2 DEF ReadersInv
    <3>3. x.on = None
      BY <1>12
    <3> QED BY <1>1, <1>2, <3>1, <3>2, <3>3, UsedAfter
  <2>2. ASSUME NEW q \in Range(Reads[r])
        PROVE  InMaps(entries', q) \/ \E d \in Objects[q] : d \notin Used'
    <3>1. q \in Key /\ Objects[q] \subseteq Entry
      BY ReactCacheAssumption DEF Range
    <3>2. CASE q = k
      BY <1>10, <3>1, <3>2
    <3>3. CASE q # k
      <4>1. InMaps(entries, q) \/ \E d \in Objects[q] : d \notin Used
        BY <1>2, <1>3 DEF RoomInv
      <4>2. e \notin Objects[q]
        BY <1>3, <1>4, <3>1, <3>3, ReactCacheAssumption
      <4> QED BY <1>10, <2>1, <3>1, <4>1, <4>2, LRUAssumption
    <3> QED BY <3>2, <3>3
  <2> QED BY <1>12, <2>2 DEF RoomInv, InMaps
<1>14. \A d \in OnList(list) : result'[d] = result[d]
  BY <1>1, <1>2, <1>4 DEF ReadersInv
<1>15. e \in Entry \ Range(s)
  BY <1>4, <1>6
<1> QED BY <1>5, <1>7, <1>8, <1>9, <1>10, <1>12, <1>13, <1>14, <1>15 DEF CacheInv

\* The only thing that a fetch which throws leaves behind is an empty map.
LEMMA FetchThrowsKeeps ==
  ASSUME CacheInv, NEW r \in Reader, FetchThrows(r)
  PROVE  CacheInv'
<1> DEFINE k == Calls(r)[reader[r].i][2]
           x == Ended("failed")
<1>1. /\ entries' = Put(entries, Resource[k], MapOf(Resource[k]))
      /\ reader' = [reader EXCEPT ![r] = x] /\ reader[r].at = "rendering"
      /\ UNCHANGED <<lruVars, result, settled>>
  BY DEF FetchThrows
<1>2. ListInv /\ MapsInv /\ ReadersInv
  BY DEF CacheInv
<1>3. Rendering \subseteq {r} /\ k \in Key
  BY <1>1, <1>2, CallOfRendering
<1> HIDE DEF k, x
<1>4. ListInv' /\ OnList(list') = OnList(list)
  BY <1>1, <1>2 DEF ListInv, lruVars, OnList
<1>5. MapsInv'
  <2>1. MapsOK(entries') /\ Holds(entries', OnList(list))
    BY <1>1, <1>2, <1>3, EmptyMapAdded DEF MapsInv
  <2> QED BY <1>4, <2>1 DEF MapsInv
<1>6. IsState(x) /\ x.at # "rendering"
  BY StatesOfReader DEF x
<1>7. ReadersInv'
  <2>1. result' \in [Entry -> Statuses] /\ settled' \in [Entry -> BOOLEAN]
    BY <1>1, <1>2 DEF ReadersInv
  <2> QED BY <1>1, <1>2, <1>3, <1>6, <2>1, ReaderMoves
<1>8. Rendering' = {}
  <2>1. \A q \in Reader : reader'[q].at = "rendering" => q = r /\ x.at = "rendering"
    BY <1>1, <1>2, <1>3 DEF ReadersInv, Rendering
  <2> QED BY <1>6, <2>1 DEF Rendering
<1> QED BY <1>4, <1>5, <1>7, <1>8 DEF CacheInv, RoomInv

\* A thenable that calls back changes no result that is not pending.
LEMMA CalledBackKeeps ==
  ASSUME CacheInv, NEW e \in Entry, Resolve(e) \/ Reject(e) \/ CallBackAgain(e)
  PROVE  /\ CacheInv' /\ UNCHANGED lruVars
         /\ \A d \in Entry : result[d] # "Pending" => result'[d] = result[d]
<1>1. PICK status \in {"Resolved", "Rejected"} : CalledBack(e, status)
  BY DEF Resolve, Reject, CallBackAgain
<1>2. /\ Rendering = {} /\ result' = [result EXCEPT ![e] = StatusOfFirst(@, status)]
      /\ UNCHANGED <<lruVars, entries, reader>>
  BY <1>1 DEF CalledBack
<1>3. settled' = settled \/ settled' = [settled EXCEPT ![e] = TRUE]
  BY DEF Resolve, Reject, CallBackAgain
<1>4. ListInv /\ MapsInv /\ ReadersInv
  BY DEF CacheInv
<1>5. /\ result' \in [Entry -> Statuses] /\ settled' \in [Entry -> BOOLEAN]
      /\ \A d \in Entry : result[d] # "Pending" => result'[d] = result[d]
  <2>1. result \in [Entry -> Statuses] /\ settled \in [Entry -> BOOLEAN]
    BY <1>4 DEF ReadersInv
  <2>2. StatusOfFirst(result[e], status) \in Statuses
        /\ (result[e] # "Pending" => StatusOfFirst(result[e], status) = result[e])
    BY <2>1 DEF StatusOfFirst, Statuses
  <2> QED BY <1>2, <1>3, <2>1, <2>2
<1>6. ReadersInv' /\ RoomInv'
  BY <1>2, <1>4, <1>5, NobodyMoves
<1>7. ListInv' /\ MapsInv'
  BY <1>2, <1>4 DEF ListInv, MapsInv, lruVars, OnList
<1> QED BY <1>2, <1>5, <1>6, <1>7 DEF CacheInv

\* The first entries of a sequence.
LEMMA ShorterKeeps ==
  ASSUME NEW s \in Seq(Entry), NEW n \in Nat
  PROVE  Range(Shorter(s, n)) \subseteq Range(s)
<1>1. CASE Len(s) > n
  <2>1. Shorter(s, n) = SubSeq(s, 1, n)
    BY <1>1 DEF Shorter
  <2>2. /\ DOMAIN SubSeq(s, 1, n) = 1 .. n
        /\ \A i \in 1 .. n : SubSeq(s, 1, n)[i] = s[i] /\ i \in DOMAIN s
    BY <1>1
  <2> QED BY <2>1, <2>2 DEF Range
<1>2. CASE ~(Len(s) > n)
  BY <1>2 DEF Shorter
<1> QED BY <1>1, <1>2

\* A clean-up deletes from the maps what it takes off the list.
LEMMA RunCleanUpKeeps ==
  ASSUME CacheInv, RunCleanUp
  PROVE  /\ CacheInv' /\ result' = result
         /\ \E s : /\ InOrder(list, s) /\ InOrder(list', Shorter(s, limit))
                   /\ unread' = unread \cap OnList(list') /\ UNCHANGED limit
<1>1. /\ cleanUps > 0 /\ cleanUps' = cleanUps - 1 /\ cleanUpIsScheduled' = FALSE
      /\ list' = Trimmed(list, limit) /\ unread' = unread \cap OnList(list') /\ limit' = limit
      /\ entries' = WithoutKeys(entries, KeysOf(OnList(list) \ OnList(list')))
      /\ Rendering = {} /\ UNCHANGED <<result, settled, reader>>
  BY DEF RunCleanUp, CleanUp, FlagReset
<1>2. ListInv /\ MapsInv /\ ReadersInv
  BY DEF CacheInv
<1>3. PICK s : InOrder(list, s)
  BY <1>2 DEF ListInv
<1>4. limit \in Nat
  BY <1>2, LRUAssumption DEF ListInv
<1>5. InOrder(list', Shorter(s, limit))
  BY <1>1, <1>3, <1>4, TrimmedInOrder
<1>6. OnList(list') \subseteq OnList(list)
  <2>1. s \in Seq(Entry) /\ OnList(list) = Range(s)
    BY <1>3, OrderedEntries
  <2>2. OnList(list') = Range(Shorter(s, limit))
    BY <1>5, OrderedEntries
  <2> QED BY <1>4, <2>1, <2>2, ShorterKeeps
<1>7. ListInv'
  <2>1. cleanUps' = 0
    BY <1>1, <1>2 DEF ListInv
  <2>2. \E t : InOrder(list', t)
    BY <1>5
  <2> QED BY <1>1, <1>2, <2>1, <2>2 DEF ListInv, OnList
<1>8. MapsInv'
  <2>1. MapsOK(entries') /\ Holds(entries', OnList(list'))
    BY <1>1, <1>2, <1>6, DeletedFromMaps DEF MapsInv
  <2> QED BY <2>1 DEF MapsInv
<1>9. ReadersInv' /\ RoomInv'
  BY <1>1, <1>2, NobodyMoves DEF ReadersInv
<1> QED BY <1>1, <1>3, <1>5, <1>7, <1>8, <1>9 DEF CacheInv

\* A new limit may schedule a clean-up.
LEMMA SetGlobalCacheLimitKeeps ==
  ASSUME CacheInv, NEW n \in Limits, SetGlobalCacheLimit(n)
  PROVE  CacheInv' /\ UNCHANGED <<list, unread, result>> /\ limit' = n
<1>1. /\ limit' = n /\ ScheduleCleanUp(list.size, n) /\ Rendering = {}
      /\ UNCHANGED <<list, unread, entries, result, settled, reader>>
  BY DEF SetGlobalCacheLimit, SetLimit
<1>2. ListInv /\ MapsInv /\ ReadersInv
  BY DEF CacheInv
<1>3. ListInv'
  <2>1. cleanUpIsScheduled' \in BOOLEAN /\ cleanUps' = (IF cleanUpIsScheduled' THEN 1 ELSE 0)
    BY <1>1, <1>2, ScheduleKeeps DEF ListInv
  <2> QED BY <1>1, <1>2, <2>1 DEF ListInv, OnList
<1>4. MapsInv'
  BY <1>1, <1>2 DEF MapsInv, OnList
<1>5. ReadersInv' /\ RoomInv'
  BY <1>1, <1>2, NobodyMoves DEF ReadersInv
<1> QED BY <1>1, <1>3, <1>4, <1>5 DEF CacheInv

-----------------------------------------------------------------------------
(***************************************************************************)
(* 6. The theorems.                                                        *)
(***************************************************************************)
\* The invariant holds at first ...
LEMMA InitInv ==
  ASSUME Init
  PROVE  CacheInv /\ InOrder(list, <<>>)
<1>1. InOrder(list, <<>>)
  <2>1. /\ list \in List /\ list.first = None /\ list.size = 0
        /\ \A e \in Entry : list.next[e] = None /\ list.previous[e] = None
    BY DEF Init, LRUInit, List
  <2>2. <<>> \in Seq(Entry) /\ Len(<<>>) = 0 /\ DOMAIN <<>> = {}
    OBVIOUS
  <2>3. IsInjective(<<>>)
    BY <2>2 DEF IsInjective
  <2> QED BY <2>1, <2>2, <2>3 DEF InOrder, Linked
<1>2. OnList(list) = {}
  BY DEF Init, LRUInit, OnList
<1>3. ListInv
  BY <1>1 DEF Init, LRUInit, ListInv
<1>4. MapsInv
  <2>1. DOMAIN entries = {}
    BY DEF Init
  <2> QED BY <1>2, <2>1 DEF MapsInv, MapsOK, Holds, InMaps
<1>5. Rendering = {} /\ \A r \in Reader : reader[r] = Idle
  BY StatesOfReader DEF Init, Rendering
<1>6. ReadersInv /\ RoomInv
  BY <1>5, StatesOfReader DEF Init, ReadersInv, RoomInv, Statuses
<1> QED BY <1>1, <1>3, <1>4, <1>6 DEF CacheInv

\* ... and every step keeps it.
LEMMA NextKeepsInv ==
  ASSUME CacheInv, [Next]_vars
  PROVE  CacheInv'
<1>1. ASSUME NEW r \in Reader, Render(r) \/ Update(r) \/ Hit(r) \/ Miss(r) \/ FetchThrows(r)
      PROVE  CacheInv'
  BY <1>1, RenderKeeps, HitKeeps, MissKeeps, FetchThrowsKeeps
<1>2. ASSUME NEW e \in Entry, Resolve(e) \/ Reject(e) \/ CallBackAgain(e) PROVE CacheInv'
  BY <1>2, CalledBackKeeps
<1>3. CASE RunCleanUp
  BY <1>3, RunCleanUpKeeps
<1>4. ASSUME NEW n \in Limits, SetGlobalCacheLimit(n) PROVE CacheInv'
  BY <1>4, SetGlobalCacheLimitKeeps
<1>5. CASE UNCHANGED vars
  BY <1>5 DEF vars, lruVars, cacheVars, CacheInv, ListInv, MapsInv, ReadersInv, RoomInv,
              Rendering, Used, OnList
<1> QED BY <1>1, <1>2, <1>3, <1>4, <1>5 DEF Next

LEMMA InvHolds == Spec => []CacheInv
<1>1. Init => CacheInv
  BY InitInv
<1>2. CacheInv /\ [Next]_vars => CacheInv'
  BY NextKeepsInv
<1> QED BY <1>1, <1>2, PTL DEF Spec

\* The list is one circle in both directions, of as many entries as its size says and
\* with no link into it from elsewhere; cleanUps counts the one callback that
\* cleanUpIsScheduled stands for; and each map has keys of its own resource.
THEOREM TypesHold == Spec => []TypeOK
<1>1. CacheInv => TypeOK
  <2> SUFFICES ASSUME CacheInv PROVE TypeOK
    OBVIOUS
  <2>1. ListInv /\ MapsInv /\ ReadersInv
    BY DEF CacheInv
  <2>2. PICK s : InOrder(list, s)
    BY <2>1 DEF ListInv
  <2>3. Circular
    <3>1. Listed = s
      BY <2>2, ListedInOrder DEF Listed
    <3>2. /\ s \in Seq(Entry) /\ IsInjective(s) /\ list.size = Len(s) /\ Linked(list, s)
          /\ Range(s) \subseteq Entry /\ (list.first # None <=> s # <<>>)
      BY <2>2, LinkedEntries DEF InOrder, Linked
    <3>3. (list.first = None) = (list.size = 0)
      BY <3>2
    <3>4. ASSUME NEW e \in Range(s)
          PROVE  list.previous[list.next[e]] = e /\ list.next[list.previous[e]] = e
      <4>1. PICK i \in DOMAIN s : s[i] = e
        BY DEF Range
      <4>2. list.next[e] = s[AfterIn(s, i)] /\ list.previous[e] = s[BeforeIn(s, i)]
        BY <3>2, <4>1 DEF Linked
      <4>3. /\ AfterIn(s, i) \in DOMAIN s /\ BeforeIn(s, i) \in DOMAIN s
            /\ BeforeIn(s, AfterIn(s, i)) = i /\ AfterIn(s, BeforeIn(s, i)) = i
        BY <3>2, Circle
      <4> QED BY <3>2, <4>1, <4>2, <4>3 DEF Linked
    <3>5. \A e \in Entry \ Range(s) : list.next[e] = None /\ list.previous[e] = None
      BY <2>2 DEF InOrder
    <3> HIDE DEF Listed
    <3> QED BY <3>1, <3>2, <3>3, <3>4, <3>5 DEF Circular
  <2>4. \A r \in Reader : reader[r].on \in Entry \cup {None}
    BY <2>1 DEF ReadersInv, IsState
  <2>5. \A e \in Entry : result[e] \in Statuses /\ settled[e] \in BOOLEAN
    BY <2>1 DEF ReadersInv
  <2> QED BY <2>1, <2>3, <2>4, <2>5 DEF ListInv, MapsInv, MapsOK, TypeOK
<1> QED BY <1>1, InvHolds, PTL

\* An entry is on the list if and only if one key of one resource has it, whatever is
\* fetched, fails or is evicted: nothing is cached that cannot be evicted, and no key
\* leads to an entry that was.
THEOREM CacheMatchesList == Spec => []CachedIsListed
<1>1. CacheInv => CachedIsListed
  <2> SUFFICES ASSUME Holds(entries, OnList(list)) PROVE CachedIsListed
    BY DEF CacheInv, MapsInv
  <2>1. { k \in Key : Cached(k) } = { k \in Key : InMaps(entries, k) }
    BY CachedInMaps
  <2> QED BY <2>1 DEF Holds, CachedIsListed, EntryOf
<1> QED BY <1>1, InvHolds, PTL

\* The result of an entry that is cached does not change any more once its thenable has
\* called back, also if that calls back again with another outcome.
THEOREM SettledResultsStay == Spec => ResultsStay
<1> DEFINE Stay == \A e \in OnList(list) : result[e] # "Pending" => result'[e] = result[e]
<1>1. CacheInv /\ [Next]_vars => [Stay]_vars
  <2> SUFFICES ASSUME CacheInv, Next PROVE Stay
    OBVIOUS
  <2>1. ASSUME NEW r \in Reader, Render(r) \/ Update(r) \/ FetchThrows(r) PROVE Stay
    BY <2>1 DEF Render, Update, FetchThrows
  <2>2. ASSUME NEW r \in Reader, Hit(r) PROVE Stay
    BY <2>2, HitKeeps
  <2>3. ASSUME NEW r \in Reader, Miss(r) PROVE Stay
    BY <2>3, MissKeeps
  <2>4. ASSUME NEW e \in Entry, Resolve(e) \/ Reject(e) \/ CallBackAgain(e) PROVE Stay
    BY <2>4, CalledBackKeeps DEF OnList
  <2>5. CASE RunCleanUp
    BY <2>5, RunCleanUpKeeps
  <2>6. ASSUME NEW n \in Limits, SetGlobalCacheLimit(n) PROVE Stay
    BY <2>6, SetGlobalCacheLimitKeeps
  <2> QED BY <2>1, <2>2, <2>3, <2>4, <2>5, <2>6 DEF Next
<1> QED BY <1>1, InvHolds, PTL DEF Spec, ResultsStay

\* The linked list implements RecentlyUsed: a miss puts an entry in front, a hit moves
\* one there and leaves the order of the others alone, and a clean-up takes the entries
\* off that were used longest ago, exactly those beyond the limit.
THEOREM CacheImplementsRecentlyUsed == Spec => ImplementsRecentlyUsed
<1>1. Init => Recency!Init
  <2> SUFFICES ASSUME Init PROVE Recency!Init
    OBVIOUS
  <2>1. Listed = <<>>
    BY InitInv, ListedInOrder DEF Listed
  <2> QED BY <2>1 DEF Init, LRUInit, Recency!Init
<1>2. ASSUME CacheInv, [Next]_vars
      PROVE  [Recency!Next]_<<Listed, unread, limit>>
  <2> USE <1>2
  <2>1. PICK s : InOrder(list, s)
    BY DEF CacheInv, ListInv
  <2>2. Listed = s /\ s \in Seq(Entry) /\ OnList(list) = Range(s) /\ Len(s) \in Nat
    BY <2>1, ListedInOrder, OrderedEntries DEF Listed
  <2>3. list' = list => Listed' = Listed
    BY DEF Listed
  <2>4. ASSUME NEW r \in Reader, Render(r) \/ Update(r) \/ FetchThrows(r)
        PROVE  UNCHANGED <<list, unread, limit>>
    BY <2>4 DEF Render, Update, FetchThrows, lruVars
  <2>5. ASSUME NEW r \in Reader, Hit(r) PROVE Recency!Next
    <3>1. PICK u : \E k \in DOMAIN u :
                     /\ InOrder(list, u) /\ InOrder(list', <<u[k]>> \o RemoveAt(u, k))
                     /\ unread' = unread \ {u[k]} /\ UNCHANGED limit
      BY <2>5, HitKeeps
    <3>2. PICK k \in DOMAIN u :
                     /\ InOrder(list, u) /\ InOrder(list', <<u[k]>> \o RemoveAt(u, k))
                     /\ unread' = unread \ {u[k]} /\ UNCHANGED limit
      BY <3>1
    <3>3. Listed = u /\ Listed' = <<u[k]>> \o RemoveAt(u, k) /\ u[k] \in Entry
      BY <3>2, ListedInOrder, LinkedEntries DEF InOrder, Range, Listed
    <3> HIDE DEF Listed
    <3>4. Recency!Use(u[k])
      BY <3>2, <3>3 DEF Recency!Use, Recency!RemoveAt, RemoveAt
    <3> QED BY <3>3, <3>4 DEF Recency!Next
  <2>6. ASSUME NEW r \in Reader, Miss(r) PROVE Recency!Next
    <3>1. PICK u : \E e \in Entry \ Range(u) :
                     /\ InOrder(list, u) /\ InOrder(list', <<e>> \o u)
                     /\ unread' = unread \cup {e} /\ UNCHANGED limit
      BY <2>6, MissKeeps
    <3>2. PICK e \in Entry \ Range(u) :
                     /\ InOrder(list, u) /\ InOrder(list', <<e>> \o u)
                     /\ unread' = unread \cup {e} /\ UNCHANGED limit
      BY <3>1
    <3>3. Listed = u /\ Listed' = <<e>> \o u
      BY <3>2, ListedInOrder DEF Listed
    <3> HIDE DEF Listed
    <3>4. Recency!Add(e)
      BY <3>2, <3>3 DEF Recency!Add, Recency!Range, Range
    <3> QED BY <3>4 DEF Recency!Next
  <2>7. CASE RunCleanUp
    <3>1. PICK u : /\ InOrder(list, u) /\ InOrder(list', Shorter(u, limit))
                   /\ unread' = unread \cap OnList(list') /\ UNCHANGED limit
      BY <2>7, RunCleanUpKeeps
    <3>2. Listed = u /\ Listed' = Shorter(u, limit) /\ u \in Seq(Entry)
      BY <3>1, ListedInOrder, OrderedEntries DEF Listed
    <3>3. OnList(list') = Range(Shorter(u, limit)) /\ OnList(list) = Range(u)
      BY <3>1, OrderedEntries
    <3> HIDE DEF Listed
    <3>4. CASE Len(u) > limit
      <4>1. Recency!Trim
        BY <3>1, <3>2, <3>3, <3>4 DEF Recency!Trim, Recency!Range, Range, Shorter
      <4> QED BY <4>1 DEF Recency!Next
    <3>5. CASE ~(Len(u) > limit)
      <4>1. Listed' = Listed /\ OnList(list') = OnList(list)
        BY <3>2, <3>3, <3>5 DEF Shorter
      <4>2. unread \subseteq OnList(list)
        BY DEF CacheInv, ListInv
      <4> QED BY <3>1, <4>1, <4>2
    <3> QED BY <3>4, <3>5
  <2>8. ASSUME NEW e \in Entry, Resolve(e) \/ Reject(e) \/ CallBackAgain(e)
        PROVE  UNCHANGED <<list, unread, limit>>
    BY <2>8, CalledBackKeeps DEF lruVars
  <2>9. ASSUME NEW n \in Limits, SetGlobalCacheLimit(n) PROVE Recency!Next
    <3>1. UNCHANGED <<Listed, unread>> /\ limit' = n
      BY <2>3, <2>9, SetGlobalCacheLimitKeeps
    <3> HIDE DEF Listed
    <3> QED BY <3>1 DEF Recency!Next, Recency!SetLimit
  <2>10. CASE UNCHANGED vars
    BY <2>3, <2>10 DEF vars, lruVars
  <2> HIDE DEF Listed, CacheInv
  <2> QED BY <2>3, <2>4, <2>5, <2>6, <2>7, <2>8, <2>9, <2>10 DEF Next
<1> QED BY <1>1, <1>2, InvHolds, PTL DEF Spec, ImplementsRecentlyUsed, Recency!Spec
=============================================================================
