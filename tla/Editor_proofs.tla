----------------------------- MODULE Editor_proofs -----------------------------
(***************************************************************************)
(* Proofs about Editor for any number of editors, documents, edits and     *)
(* loads.                                                                  *)
(***************************************************************************)
EXTENDS Editor, TLAPS, SequenceTheorems, FiniteSetTheorems, WellFoundedInduction

-----------------------------------------------------------------------------
(* Sequences.                                                               *)

\* A set of numbers has a least one.
LEMMA Least ==
  ASSUME NEW T \in SUBSET Nat, T # {}
  PROVE  \E n \in T : \A m \in T : ~ (m < n)
<1>1. PICK n \in T : \A m \in T : <<m, n>> \notin OpToRel(<, Nat)
  BY WFMin, NatLessThanWellFounded, Zenon
<1>2. \A m \in T : ~(m < n)
  BY <1>1, Zenon DEF OpToRel
<1>. QED BY <1>2

\* r consists of p and what follows the first element of q: what Then leaves to do.
Continues(r, p, q) ==
  /\ Len(p) \in Nat /\ DOMAIN p = 1 .. Len(p) /\ DOMAIN q = 1 .. Len(q)
  /\ \A i \in DOMAIN p : i \in DOMAIN r /\ r[i] = p[i]
  /\ \A i \in DOMAIN r :
       \/ i \in DOMAIN p /\ r[i] = p[i]
       \/ \E k \in DOMAIN q : k > 1 /\ i = k + Len(p) - 1 /\ r[i] = q[k]
  /\ \A k \in DOMAIN q : k > 1 => \E i \in DOMAIN r : i = k + Len(p) - 1 /\ r[i] = q[k]

LEMMA ThenIs ==
  ASSUME NEW S, NEW p \in Seq(S), NEW q \in Seq(S), q # <<>>
  PROVE  p \o Tail(q) \in Seq(S) /\ Continues(p \o Tail(q), p, q)
<1>. DEFINE r == p \o Tail(q)
<1>1. /\ Tail(q) \in Seq(S) /\ Len(Tail(q)) = Len(q) - 1
      /\ \A i \in 1 .. Len(Tail(q)) : Tail(q)[i] = q[i + 1]
  BY HeadTailProperties
<1>2. /\ r \in Seq(S) /\ Len(r) = Len(p) + Len(Tail(q))
      /\ \A i \in 1 .. Len(p) + Len(Tail(q)) : r[i] = IF i <= Len(p) THEN p[i] ELSE Tail(q)[i - Len(p)]
  BY <1>1, ConcatProperties
<1>. HIDE DEF r
<1>3. /\ Len(p) \in Nat /\ Len(q) \in Nat /\ Len(q) # 0
      /\ DOMAIN p = 1 .. Len(p) /\ DOMAIN q = 1 .. Len(q) /\ DOMAIN r = 1 .. Len(r)
  BY <1>2, EmptySeq, LenProperties
<1>4. Len(r) = Len(p) + Len(q) - 1
  BY <1>1, <1>2, <1>3
<1>5. \A i \in 1 .. Len(p) : i \in DOMAIN r /\ r[i] = p[i]
  BY <1>1, <1>2, <1>3
<1>6. \A i \in DOMAIN r : i > Len(p) =>
         i - Len(p) + 1 \in DOMAIN q /\ i - Len(p) + 1 > 1 /\ r[i] = q[i - Len(p) + 1]
  BY <1>1, <1>2, <1>3
<1>7. ASSUME NEW i \in DOMAIN r, i > Len(p)
      PROVE  \E k \in DOMAIN q : k > 1 /\ i = k + Len(p) - 1 /\ r[i] = q[k]
  <2>1. i = (i - Len(p) + 1) + Len(p) - 1
    BY <1>3, <1>4
  <2>. QED BY <2>1, <1>6, <1>7
<1>8. ASSUME NEW k \in DOMAIN q, k > 1
      PROVE  \E i \in DOMAIN r : i = k + Len(p) - 1 /\ r[i] = q[k]
  <2>1. k + Len(p) - 1 \in DOMAIN r /\ k + Len(p) - 1 > Len(p) /\ (k + Len(p) - 1) - Len(p) + 1 = k
    BY <1>3, <1>4, <1>8
  <2>. QED BY <2>1, <1>6
<1>9. \A i \in DOMAIN r : i \in DOMAIN p \/ i > Len(p)
  BY <1>3
<1>10. r \in Seq(S) /\ Continues(r, p, q)
  BY <1>2, <1>3, <1>5, <1>7, <1>8, <1>9 DEF Continues
<1>. QED BY <1>10 DEF r

\* The index of the first element that is e.
LEMMA FirstIs ==
  ASSUME NEW S, NEW s \in Seq(S), NEW e, \E i \in 1 .. Len(s) : s[i] = e
  PROVE  /\ SelectInSeq(s, LAMBDA v : v = e) \in 1 .. Len(s)
         /\ s[SelectInSeq(s, LAMBDA v : v = e)] = e
<1>. DEFINE I == {i \in 1 .. Len(s) : s[i] = e}
            m == CHOOSE x \in I : \A y \in I : x <= y
<1>1. \E x \in I : \A y \in I : ~(y < x)
  <2>1. I \in SUBSET Nat /\ I # {}
    OBVIOUS
  <2>. HIDE DEF I
  <2>. QED BY <2>1, Least
<1>2. I \subseteq Nat
  OBVIOUS
<1>3. m \in I
  <2>. HIDE DEF I
  <2>1. \E x \in I : \A y \in I : x <= y
    BY <1>1, <1>2
  <2>. QED BY <2>1
<1>4. SelectInSeq(s, LAMBDA v : v = e) = m
  BY DEF SelectInSeq, Min
<1>. QED BY <1>3, <1>4

\* Without it what is left are the other elements, in the same order.
LEMMA RemoveFirstIs ==
  ASSUME NEW S, NEW s \in Seq(S), NEW e
  PROVE  /\ RemoveFirst(s, e) \in Seq(S)
         /\ \A f : f # e /\ (\E i \in DOMAIN s : s[i] = f) => \E k \in DOMAIN RemoveFirst(s, e) : RemoveFirst(s, e)[k] = f
         /\ (\A i, k \in DOMAIN s : s[i] = s[k] => i = k) =>
              /\ \A i \in DOMAIN RemoveFirst(s, e) : RemoveFirst(s, e)[i] # e /\ \E k \in DOMAIN s : s[k] = RemoveFirst(s, e)[i]
              /\ \A i, k \in DOMAIN RemoveFirst(s, e) : RemoveFirst(s, e)[i] = RemoveFirst(s, e)[k] => i = k
<1>. DEFINE r == RemoveFirst(s, e)
<1>0. DOMAIN s = 1 .. Len(s) /\ Len(s) \in Nat
  BY LenProperties
<1>1. CASE ~ \E i \in 1 .. Len(s) : s[i] = e
  <2>1. r = s
    BY <1>1 DEF RemoveFirst
  <2>. QED BY <1>0, <1>1, <2>1
<1>2. CASE \E i \in 1 .. Len(s) : s[i] = e
  <2>. DEFINE j == SelectInSeq(s, LAMBDA v : v = e)
  <2>1. j \in 1 .. Len(s) /\ s[j] = e
    BY <1>2, FirstIs
  <2>2. r = SubSeq(s, 1, j - 1) \o SubSeq(s, j + 1, Len(s))
    BY <1>2 DEF RemoveFirst, RemoveAt
  <2>. HIDE DEF j
  <2>. DEFINE a == SubSeq(s, 1, j - 1)
              b == SubSeq(s, j + 1, Len(s))
  <2>3. /\ a \in Seq(S) /\ Len(a) = j - 1 /\ \A i \in 1 .. j - 1 : a[i] = s[i]
    BY <1>0, <2>1, SubSeqProperties
  <2>4. /\ b \in Seq(S) /\ Len(b) = Len(s) - j /\ \A i \in 1 .. Len(s) - j : b[i] = s[j + i]
    <3>1. /\ b \in Seq(S) /\ Len(b) = IF j + 1 <= Len(s) THEN Len(s) - (j + 1) + 1 ELSE 0
          /\ \A i \in 1 .. Len(s) - (j + 1) + 1 : b[i] = s[(j + 1) + i - 1]
      <4>1. j + 1 \in Int /\ Len(s) \in Int /\ \A i \in j + 1 .. Len(s) : s[i] \in S
        BY <1>0, <2>1
      <4>. QED BY <4>1, SubSeqProperties
    <3>. HIDE DEF b
    <3>2. Len(b) = Len(s) - j
      <4>1. j \in Nat /\ Len(s) \in Nat /\ j <= Len(s)
        BY <1>0, <2>1
      <4>2. Len(b) = IF j + 1 <= Len(s) THEN Len(s) - (j + 1) + 1 ELSE 0
        BY <3>1
      <4>. QED BY <4>1, <4>2
    <3>3. \A i \in 1 .. Len(s) - j : b[i] = s[j + i]
      <4>. SUFFICES ASSUME NEW i \in 1 .. Len(s) - j PROVE b[i] = s[j + i]
        OBVIOUS
      <4>1. i \in 1 .. Len(s) - (j + 1) + 1 /\ (j + 1) + i - 1 = j + i
        BY <1>0, <2>1
      <4>. QED BY <3>1, <4>1
    <3>. QED BY <3>1, <3>2, <3>3
  <2>. HIDE DEF a, b
  <2>5. /\ a \o b \in Seq(S) /\ Len(a \o b) = Len(s) - 1
        /\ \A i \in 1 .. Len(s) - 1 : (a \o b)[i] = IF i < j THEN s[i] ELSE s[i + 1]
    <3>1. /\ a \o b \in Seq(S) /\ Len(a \o b) = Len(a) + Len(b)
          /\ \A i \in 1 .. Len(a) + Len(b) : (a \o b)[i] = IF i <= Len(a) THEN a[i] ELSE b[i - Len(a)]
      BY <2>3, <2>4, ConcatProperties
    <3>. QED BY <3>1, <2>3, <2>4, <2>1, <1>0
  <2>6. r = a \o b
    BY <2>2 DEF a, b
  <2>. HIDE DEF r
  <2>7. /\ r \in Seq(S) /\ DOMAIN r = 1 .. Len(s) - 1
        /\ \A i \in DOMAIN r : r[i] = IF i < j THEN s[i] ELSE s[i + 1]
    BY <2>5, <2>6, LenProperties
  <2>8. \A f : f # e /\ (\E i \in DOMAIN s : s[i] = f) => \E k \in DOMAIN r : r[k] = f
    <3>. SUFFICES ASSUME NEW f, f # e, NEW i \in DOMAIN s, s[i] = f
                  PROVE  \E k \in DOMAIN r : r[k] = f
      OBVIOUS
    <3>1. CASE i < j
      BY <3>1, <2>7, <2>1, <1>0
    <3>2. CASE i > j
      <4>1. i - 1 \in DOMAIN r /\ r[i - 1] = s[i]
        BY <3>2, <2>7, <2>1, <1>0
      <4>. QED BY <4>1
    <3>3. CASE i = j
      BY <3>3, <2>1
    <3>. QED BY <3>1, <3>2, <3>3, <2>1, <1>0
  <2>9. ASSUME \A i, k \in DOMAIN s : s[i] = s[k] => i = k
        PROVE  /\ \A i \in DOMAIN r : r[i] # e /\ \E k \in DOMAIN s : s[k] = r[i]
               /\ \A i, k \in DOMAIN r : r[i] = r[k] => i = k
    <3>1. \A i \in DOMAIN r : \E k \in DOMAIN s : k = (IF i < j THEN i ELSE i + 1) /\ r[i] = s[k] /\ k # j
      BY <2>7, <2>1, <1>0
    <3>2. \A i \in DOMAIN r : r[i] # e
      BY <3>1, <2>1, <1>0, <2>9
    <3>3. \A i, k \in DOMAIN r : r[i] = r[k] => i = k
      <4>. SUFFICES ASSUME NEW i \in DOMAIN r, NEW k \in DOMAIN r, r[i] = r[k]
                    PROVE  i = k
        OBVIOUS
      <4>1. (IF i < j THEN i ELSE i + 1) = (IF k < j THEN k ELSE k + 1)
        BY <3>1, <2>9
      <4>. QED BY <4>1, <2>7, <2>1, <1>0
    <3>. QED BY <3>1, <3>2, <3>3
  <2>. QED BY <2>7, <2>8, <2>9 DEF r
<1>. QED BY <1>1, <1>2

\* The loop of SetSources, as a function of its index.
IsLoop(F, n, list, e, html) ==
  F = [i \in 0 .. n |->
         IF i = 0 THEN <<>>
         ELSE IF list[i] = e THEN F[i - 1] ELSE F[i - 1] \o SetSource(list[i], html)]

LEMMA LoopExists ==
  ASSUME NEW list, NEW e, NEW html, NEW n \in Nat
  PROVE  \E F : IsLoop(F, n, list, e, html)
<1>. DEFINE Bad == {m \in Nat : ~ \E F : IsLoop(F, m, list, e, html)}
<1>. SUFFICES ASSUME Bad # {} PROVE FALSE
  OBVIOUS
<1>1. PICK m \in Bad : \A k \in Bad : ~ (k < m)
  BY Least
<1>2. m # 0
  <2>. DEFINE F == [i \in 0 .. 0 |-> <<>>]
  <2>1. IsLoop(F, 0, list, e, html)
    BY DEF IsLoop
  <2>. QED BY <2>1
<1>3. PICK F : IsLoop(F, m - 1, list, e, html)
  BY <1>1, <1>2
<1>. DEFINE G == [i \in 0 .. m |-> IF i < m THEN F[i]
                   ELSE IF list[i] = e THEN F[i - 1] ELSE F[i - 1] \o SetSource(list[i], html)]
<1>4. IsLoop(G, m, list, e, html)
  <2>. SUFFICES ASSUME NEW i \in 0 .. m
                PROVE G[i] = IF i = 0 THEN <<>>
                             ELSE IF list[i] = e THEN G[i - 1] ELSE G[i - 1] \o SetSource(list[i], html)
    BY Zenon DEF IsLoop
  <2>1. CASE i = m
    BY <2>1, <1>2
  <2>2. CASE i < m
    <3>1. F[i] = IF i = 0 THEN <<>> ELSE IF list[i] = e THEN F[i - 1] ELSE F[i - 1] \o SetSource(list[i], html)
      BY <1>3, <2>2 DEF IsLoop
    <3>. QED BY <3>1, <2>2
  <2>. QED BY <2>1, <2>2
<1>. QED BY <1>4, <1>1

LEMMA SetSourcesLoop ==
  ASSUME NEW S, NEW list \in Seq(S), NEW e, NEW html
  PROVE  \E F : IsLoop(F, Len(list), list, e, html) /\ SetSources(list, e, html) = F[Len(list)]
<1>. DEFINE F == CHOOSE F : IsLoop(F, Len(list), list, e, html)
<1>1. Len(list) \in Nat
  BY LenProperties
<1>2. IsLoop(F, Len(list), list, e, html)
  <2>1. \E G : IsLoop(G, Len(list), list, e, html)
    BY <1>1, LoopExists
  <2>. QED BY <2>1, Zenon
<1>3. SetSources(list, e, html) = F[Len(list)]
  BY DEF SetSources, IsLoop
<1>. QED BY <1>2, <1>3
\* What the loop has put together after n editors: each of them but e is told,
\* assigned and shown html, in this order, and nothing else is done.
LoopDone(q, n, list, e, html) ==
  /\ q \in Seq(UNION {{Step("notify", f, html), Step("assign", f, html), Step("page", f, html)} : f \in {list[k] : k \in 1 .. n} \ {e}})
  /\ \A k \in 1 .. n : list[k] # e => \E i \in DOMAIN q : q[i] = Step("page", list[k], html)
  /\ \A i \in DOMAIN q : q[i].op = "page" =>
       \E k \in DOMAIN q : k < i /\ q[k].op = "notify" /\ q[k].on = q[i].on

LEMMA LoopGoesOn ==
  ASSUME NEW list, NEW e, NEW html, NEW n \in Nat, NEW q, LoopDone(q, n, list, e, html),
         list[n + 1] # e
  PROVE  LoopDone(q \o SetSource(list[n + 1], html), n + 1, list, e, html)
<1>. DEFINE Of(m) == UNION {{Step("notify", f, html), Step("assign", f, html), Step("page", f, html)} : f \in {list[k] : k \in 1 .. m} \ {e}}
            g == list[n + 1]
            p == SetSource(g, html)
            r == q \o p
<1>1. Of(n) \subseteq Of(n + 1)
  OBVIOUS
<1>2. q \in Seq(Of(n)) /\ q \in Seq(Of(n + 1))
  <2>1. q \in Seq(Of(n))
    BY DEF LoopDone
  <2>. HIDE DEF Of
  <2>. QED BY <2>1, <1>1
<1>3. /\ p \in Seq(Of(n + 1)) /\ Len(p) = 3 /\ p[1] = Step("notify", g, html)
      /\ p[2] = Step("assign", g, html) /\ p[3] = Step("page", g, html)
  <2>1. {Step("notify", g, html), Step("assign", g, html), Step("page", g, html)} \subseteq Of(n + 1)
    <3>1. g \in {list[k] : k \in 1 .. n + 1} \ {e}
      OBVIOUS
    <3>. QED BY <3>1, Zenon
  <2>. HIDE DEF Of
  <2>. QED BY <2>1 DEF SetSource
<1>. HIDE DEF Of, p
<1>4. /\ r \in Seq(Of(n + 1)) /\ Len(r) = Len(q) + 3
      /\ \A i \in 1 .. Len(q) + 3 : r[i] = IF i <= Len(q) THEN q[i] ELSE p[i - Len(q)]
  <2>1. Len(r) = Len(q) + Len(p) /\ r \in Seq(Of(n + 1))
    BY <1>2, <1>3, ConcatProperties
  <2>2. \A i \in 1 .. Len(q) + Len(p) : r[i] = IF i <= Len(q) THEN q[i] ELSE p[i - Len(q)]
    BY <1>2, <1>3, ConcatProperties
  <2>. HIDE DEF r
  <2>. QED BY <2>1, <2>2, <1>3
<1>5. Len(q) \in Nat /\ DOMAIN q = 1 .. Len(q)
  BY <1>2, LenProperties
<1>. HIDE DEF r
<1>6. /\ DOMAIN r = 1 .. Len(q) + 3
      /\ \A i \in DOMAIN q : i \in DOMAIN r /\ r[i] = q[i]
      /\ r[Len(q) + 1] = Step("notify", g, html) /\ r[Len(q) + 2] = Step("assign", g, html)
      /\ r[Len(q) + 3] = Step("page", g, html)
      /\ \A i \in DOMAIN r : i \in DOMAIN q \/ i = Len(q) + 1 \/ i = Len(q) + 2 \/ i = Len(q) + 3
  <2>1. DOMAIN r = 1 .. Len(q) + 3
    BY <1>4, LenProperties
  <2>2. /\ r[Len(q) + 1] = p[1] /\ r[Len(q) + 2] = p[2] /\ r[Len(q) + 3] = p[3]
        /\ \A i \in 1 .. Len(q) : r[i] = q[i]
    BY <1>4, <1>5
  <2>. QED BY <2>1, <2>2, <1>3, <1>5
<1>7. \A k \in 1 .. n + 1 : list[k] # e => \E i \in DOMAIN r : r[i] = Step("page", list[k], html)
  <2>. SUFFICES ASSUME NEW k \in 1 .. n + 1, list[k] # e PROVE \E i \in DOMAIN r : r[i] = Step("page", list[k], html)
    OBVIOUS
  <2>1. CASE k = n + 1
    BY <2>1, <1>5, <1>6
  <2>2. CASE k \in 1 .. n
    BY <2>2, <1>6 DEF LoopDone
  <2>. QED BY <2>1, <2>2
<1>8. \A i \in DOMAIN r : r[i].op = "page" =>
        \E k \in DOMAIN r : k < i /\ r[k].op = "notify" /\ r[k].on = r[i].on
  <2>. SUFFICES ASSUME NEW i \in DOMAIN r, r[i].op = "page"
                PROVE  \E k \in DOMAIN r : k < i /\ r[k].op = "notify" /\ r[k].on = r[i].on
    OBVIOUS
  <2>1. CASE i \in DOMAIN q
    <3>1. PICK k \in DOMAIN q : k < i /\ q[k].op = "notify" /\ q[k].on = q[i].on
      BY <2>1, <1>6 DEF LoopDone
    <3>. QED BY <3>1, <2>1, <1>6
  <2>2. CASE i = Len(q) + 1 \/ i = Len(q) + 2
    BY <2>2, <1>6 DEF Step
  <2>3. CASE i = Len(q) + 3
    <3>1. Len(q) + 1 \in DOMAIN r /\ Len(q) + 1 < i
      BY <2>3, <1>5, <1>6
    <3>2. r[Len(q) + 1].op = "notify" /\ r[Len(q) + 1].on = g /\ r[i].on = g
      BY <2>3, <1>6 DEF Step
    <3>. QED BY <3>1, <3>2
  <2>. QED BY <2>1, <2>2, <2>3, <1>6
<1>. QED BY <1>4, <1>7, <1>8 DEF LoopDone, Of, r, p

\* What setting all composers of a list to html does, one after the other.
LEMMA SetSourcesAre ==
  ASSUME NEW S, NEW list \in Seq(S), NEW e, NEW html
  PROVE  LoopDone(SetSources(list, e, html), Len(list), list, e, html)
<1>1. PICK F : IsLoop(F, Len(list), list, e, html) /\ SetSources(list, e, html) = F[Len(list)]
  BY SetSourcesLoop
<1>2. Len(list) \in Nat
  BY LenProperties
<1>. DEFINE Bad == {m \in Nat : m <= Len(list) /\ ~ LoopDone(F[m], m, list, e, html)}
<1>3. ASSUME Bad # {} PROVE FALSE
  <2>1. PICK m \in Bad : \A k \in Bad : ~ (k < m)
    BY <1>3, Least
  <2>2. F[m] = IF m = 0 THEN <<>> ELSE IF list[m] = e THEN F[m - 1] ELSE F[m - 1] \o SetSource(list[m], html)
    BY <1>1, <1>2, <2>1 DEF IsLoop
  <2>3. m # 0
    <3>1. LoopDone(<<>>, 0, list, e, html)
      BY DEF LoopDone
    <3>. QED BY <3>1, <2>1, <2>2
  <2>4. m - 1 \in Nat /\ LoopDone(F[m - 1], m - 1, list, e, html) /\ (m - 1) + 1 = m
    BY <2>1, <2>3, <1>2
  <2>5. CASE list[m] = e
    <3>1. F[m] = F[m - 1]
      BY <2>2, <2>3, <2>5
    <3>2. {list[k] : k \in 1 .. m} \ {e} = {list[k] : k \in 1 .. m - 1} \ {e}
      BY <2>4, <2>5
    <3>3. \A k \in 1 .. m : list[k] # e => k \in 1 .. m - 1
      BY <2>4, <2>5
    <3>4. LoopDone(F[m - 1], m, list, e, html)
      BY <2>4, <3>2, <3>3, Zenon DEF LoopDone
    <3>. QED BY <3>1, <3>4, <2>1
  <2>6. CASE list[m] # e
    BY <2>2, <2>3, <2>4, <2>6, <2>1, LoopGoesOn
  <2>. QED BY <2>5, <2>6
<1>. QED BY <1>1, <1>2, <1>3

-----------------------------------------------------------------------------
(* Types, whatever the users and clients do.                                *)

\* The contents there are after n changes.
Contents(n) == [doc : Docs \cup {NoDoc}, rev : 0 .. n]

\* The steps a thread may have to take after n changes.
Steps(n) ==
  [op : {"modify", "save", "notify", "assign", "page", "store", "leave"}, on : Editors, arg : Contents(n)]
    \cup [op : {"start", "loaded"}, on : Editors, arg : Docs]
    \cup [op : {"quit"}, on : Editors, arg : {NoDoc}]
    \cup [op : {"enable"}, on : Editors, arg : BOOLEAN]

SaveJobs(n) == [by : Editors, doc : Docs, html : Contents(n), running : BOOLEAN]

(* No content is newer than the last change that was typed, wherever it is *)
(* on its way: in a page, a task, the steps of a thread, or a save job.    *)
Maps ==
  /\ loadedObject \in [Editors -> Docs \cup {NoDoc}]
  /\ responsibleEditors \in [Docs -> Seq(Editors)]
  /\ lastFocussedEditor \in [Docs -> Editors \cup {NoEditor}]
  /\ loadJob \in [Editors -> 0 .. MaxLoads]
  /\ again \subseteq Docs /\ IsFiniteSet(again)
  /\ noticed \in [Editors -> BOOLEAN] /\ enabled \in [Editors -> BOOLEAN]
  /\ waiting \in [Editors -> BOOLEAN] /\ posted \in [Editors -> BOOLEAN]

Flowing ==
  /\ typed \in 0 .. MaxRev /\ latest \in [Docs -> 0 .. typed]
  /\ stored \in [Docs -> Contents(typed)]
  /\ page \in [Editors -> Contents(typed)] /\ oldHtml \in [Editors -> Contents(typed)]
  /\ saveJobs \subseteq SaveJobs(typed)
  /\ accepted \in [Editors -> SUBSET Contents(typed)]
  /\ task \in [Editors -> {{}} \cup {{h} : h \in Contents(typed)}]
  /\ \A e \in Editors : waiting[e] => task[e] # {}

Calls == todo \in [Threads -> Seq(Steps(typed))]

(* A composer in whose monitor a thread is has nothing in its timer, and   *)
(* the UI thread enters a monitor from modified with nothing else to do.   *)
Monitors ==
  \A t \in Threads : \A i \in DOMAIN todo[t] :
    /\ todo[t][i].op = "leave" => ~waiting[todo[t][i].on]
    /\ todo[t][i].op = "modify" => t = UI /\ Len(todo[t]) = 1

Types == Maps /\ Flowing /\ Calls /\ Monitors

\* The threads are different ones.
LEMMA ThreadsDiffer ==
  /\ UI \in Threads
  /\ \A e \in Editors : Timer(e) \in Threads /\ Timer(e) # UI
  /\ \A n \in 1 .. MaxLoads : LoadJob(n) \in Threads /\ LoadJob(n) # UI
  /\ \A e \in Editors, n \in 1 .. MaxLoads : Timer(e) # LoadJob(n)
  /\ \A e, f \in Editors : Timer(e) = Timer(f) => e = f
  /\ \A m, n \in 1 .. MaxLoads : LoadJob(m) = LoadJob(n) => m = n
  /\ \A t \in Threads : \/ t = UI
                        \/ \E e \in Editors : t = Timer(e)
                        \/ \E n \in 1 .. MaxLoads : t = LoadJob(n)
BY DEF Threads, UI, Timer, LoadJob

\* What the step of a thread is about.
LEMMA StepIs ==
  ASSUME NEW n, NEW s \in Steps(n)
  PROVE  /\ s.on \in Editors
         /\ s.op \in {"modify", "save", "notify", "assign", "page", "store", "leave"} => s.arg \in Contents(n)
         /\ s.op \in {"start", "loaded"} => s.arg \in Docs
         /\ s.op = "enable" => s.arg \in BOOLEAN
         /\ s = Step(s.op, s.on, s.arg)
         /\ s.op \in {"modify", "save", "notify", "assign", "page", "store", "leave", "start", "quit", "loaded", "enable"}
BY DEF Steps, Step

LEMMA IsAStep ==
  ASSUME NEW n, NEW e \in Editors
  PROVE  /\ \A h \in Contents(n) :
              /\ Step("modify", e, h) \in Steps(n) /\ Step("save", e, h) \in Steps(n)
              /\ Step("notify", e, h) \in Steps(n) /\ Step("assign", e, h) \in Steps(n)
              /\ Step("page", e, h) \in Steps(n) /\ Step("store", e, h) \in Steps(n)
              /\ Step("leave", e, h) \in Steps(n)
         /\ \A d \in Docs : Step("start", e, d) \in Steps(n) /\ Step("loaded", e, d) \in Steps(n)
         /\ \A b \in BOOLEAN : Step("enable", e, b) \in Steps(n)
BY DEF Steps, Step

LEMMA QuitIsAStep ==
  ASSUME NEW n, NEW e \in Editors
  PROVE  Step("quit", e, NoDoc) \in Steps(n)
BY DEF Steps, Step

LEMMA EnableIsAStep ==
  ASSUME NEW n, NEW e \in Editors
  PROVE  Step("enable", e, TRUE) \in Steps(n) /\ Step("enable", e, FALSE) \in Steps(n)
<1>1. \A b \in BOOLEAN : Step("enable", e, b) \in Steps(n)
  BY IsAStep
<1>. QED BY <1>1, Zenon

LEMMA TupleTyped ==
  ASSUME NEW S, NEW a \in S, NEW b \in S
  PROVE  <<a>> \in Seq(S) /\ <<a, b>> \in Seq(S)
OBVIOUS

LEMMA ConcatTyped ==
  ASSUME NEW S, NEW p \in Seq(S), NEW q \in Seq(S)
  PROVE  p \o q \in Seq(S)
BY ConcatProperties

LEMMA BlankIs ==
  ASSUME NEW n \in Nat
  PROVE  Blank \in Contents(n) /\ Blank.doc = NoDoc
BY DEF Blank, Contents

\* A thread that takes a step.
LEMMA HeadIs ==
  ASSUME Calls, NEW t \in Threads, NEW op, Next1(t, op)
  PROVE  /\ todo[t] \in Seq(Steps(typed)) /\ todo[t] # <<>> /\ 1 \in DOMAIN todo[t]
         /\ At(t) = todo[t][1] /\ At(t) \in Steps(typed) /\ At(t).op = op
         /\ At(t).on \in Editors
<1>1. todo[t] \in Seq(Steps(typed)) /\ todo[t] # <<>>
  BY DEF Calls, Next1
<1>2. At(t) = todo[t][1] /\ At(t) \in Steps(typed) /\ 1 \in DOMAIN todo[t]
  BY <1>1 DEF At
<1>. QED BY <1>1, <1>2, StepIs DEF Next1, At

\* More content is content.
LEMMA ContentsGrow ==
  ASSUME NEW m \in Nat, NEW n \in Nat, m <= n
  PROVE  /\ Contents(m) \subseteq Contents(n) /\ Steps(m) \subseteq Steps(n)
         /\ SaveJobs(m) \subseteq SaveJobs(n) /\ Seq(Steps(m)) \subseteq Seq(Steps(n))
<1>1. Contents(m) \subseteq Contents(n)
  BY DEF Contents
<1>2. Steps(m) \subseteq Steps(n)
  BY <1>1 DEF Steps
<1>3. SaveJobs(m) \subseteq SaveJobs(n)
  BY <1>1 DEF SaveJobs
<1>4. Seq(Steps(m)) \subseteq Seq(Steps(n))
  BY <1>2
<1>. QED BY <1>1, <1>2, <1>3, <1>4

LEMMA SetSourceTyped ==
  ASSUME NEW n, NEW e \in Editors, NEW h \in Contents(n)
  PROVE  SetSource(e, h) \in Seq(Steps(n))
BY IsAStep DEF SetSource

LEMMA SetSourcesTyped ==
  ASSUME NEW n, NEW list \in Seq(Editors), NEW e, NEW h \in Contents(n)
  PROVE  SetSources(list, e, h) \in Seq(Steps(n))
<1>. DEFINE All == UNION {{Step("notify", f, h), Step("assign", f, h), Step("page", f, h)} : f \in {list[k] : k \in 1 .. Len(list)} \ {e}}
<1>1. SetSources(list, e, h) \in Seq(All)
  BY SetSourcesAre DEF LoopDone
<1>2. \A k \in 1 .. Len(list) : list[k] \in Editors
  OBVIOUS
<1>3. All \subseteq Steps(n)
  BY <1>2, IsAStep
<1>. HIDE DEF All
<1>. QED BY <1>1, <1>3

\* What MayLoad leaves room for.
LEMMA JobIs ==
  ASSUME Types, MayLoad
  PROVE  Jobs \in Nat /\ Jobs + 1 \in 1 .. MaxLoads
<1>. DEFINE J == {n \in 1 .. MaxLoads : \E e \in Editors : loadJob[e] >= n}
<1>1. IsFiniteSet(1 .. MaxLoads)
  BY FS_Interval, EditorsDiffer
<1>2. IsFiniteSet(J)
  BY <1>1, FS_Subset
<1>3. Cardinality(J) \in Nat /\ Cardinality(again) \in Nat
  BY <1>2, FS_CardinalityType DEF Types, Maps
<1>4. Jobs = Cardinality(J)
  BY DEF Jobs
<1>. HIDE DEF J
<1>. QED BY <1>3, <1>4, EditorsDiffer DEF MayLoad

LEMMA InitTypes == Init => Types
<1>. SUFFICES ASSUME Init PROVE Types
  OBVIOUS
<1>1. Blank \in Contents(0) /\ \A d \in Docs : [doc |-> d, rev |-> 0] \in Contents(0)
  BY DEF Blank, Contents
<1>2. Maps
  BY FS_EmptySet, EditorsDiffer DEF Init, Maps
<1>3. Flowing
  BY <1>1, EditorsDiffer DEF Init, Flowing, SaveJobs
<1>4. Calls
  BY DEF Init, Calls
<1>5. Monitors
  BY DEF Init, Monitors
<1>. QED BY <1>2, <1>3, <1>4, <1>5 DEF Types

\* A step of a call puts steps of its own in its place.
LEMMA ThenTyped ==
  ASSUME Calls, NEW t \in Threads, todo[t] # <<>>, NEW p \in Seq(Steps(typed)), Then(t, p),
         typed' = typed
  PROVE  Calls' /\ todo'[t] = p \o Tail(todo[t]) /\ \A u \in Threads \ {t} : todo'[u] = todo[u]
<1>1. todo[t] \in Seq(Steps(typed))
  BY DEF Calls
<1>2. p \o Tail(todo[t]) \in Seq(Steps(typed))
  BY <1>1, ThenIs
<1>3. /\ todo' = [todo EXCEPT ![t] = p \o Tail(todo[t])]
      /\ todo \in [Threads -> Seq(Steps(typed))]
  BY DEF Then, Calls
<1>4. todo' \in [Threads -> Seq(Steps(typed))]
  BY <1>2, <1>3
<1>5. Calls'
  BY <1>4 DEF Calls
<1>. QED BY <1>3, <1>5

LEMMA ThenGuarded ==
  ASSUME Calls, Monitors, NEW t \in Threads, todo[t] # <<>>, NEW p \in Seq(Steps(typed)), Then(t, p),
         \A i \in DOMAIN p : p[i].op # "modify" /\ (p[i].op = "leave" => ~waiting'[p[i].on]),
         \A e \in Editors : waiting'[e] => waiting[e]
  PROVE  Monitors'
<1>. DEFINE q == todo[t]
            r == p \o Tail(q)
<1>1. q \in Seq(Steps(typed)) /\ q # <<>>
  BY DEF Calls
<1>2. /\ todo'[t] = r /\ \A u \in Threads \ {t} : todo'[u] = todo[u]
  BY DEF Then, Calls
<1>. SUFFICES ASSUME NEW u \in Threads, NEW i \in DOMAIN todo'[u]
              PROVE  /\ todo'[u][i].op = "leave" => ~waiting'[todo'[u][i].on]
                     /\ todo'[u][i].op = "modify" => u = UI /\ Len(todo'[u]) = 1
  BY DEF Monitors
<1>3. CASE u # t
  <2>1. todo'[u] = todo[u] /\ todo[u] \in Seq(Steps(typed)) /\ i \in DOMAIN todo[u]
    BY <1>2, <1>3 DEF Calls
  <2>2. todo[u][i].on \in Editors
    BY <2>1, StepIs
  <2>. QED BY <2>1, <2>2 DEF Monitors
<1>4. CASE u = t
  <2>1. i \in DOMAIN r /\ todo'[u] = r
    BY <1>2, <1>4
  <2>2. \/ i \in DOMAIN p /\ r[i] = p[i]
        \/ \E k \in DOMAIN q : k > 1 /\ r[i] = q[k]
    <3>1. Continues(r, p, q)
      BY <1>1, ThenIs, Zenon
    <3>. HIDE DEF r, q
    <3>. QED BY <2>1, <3>1 DEF Continues
  <2>3. CASE i \in DOMAIN p /\ r[i] = p[i]
    BY <2>1, <2>3
  <2>4. ASSUME NEW k \in DOMAIN q, k > 1, r[i] = q[k]
        PROVE  /\ r[i].op = "leave" => ~waiting'[r[i].on]
               /\ r[i].op # "modify"
    <3>1. q[k].on \in Editors /\ DOMAIN q = 1 .. Len(q) /\ Len(q) \in Nat
      BY <1>1, StepIs, LenProperties
    <3>2. /\ q[k].op = "leave" => ~waiting[q[k].on]
          /\ q[k].op = "modify" => Len(q) = 1
      BY DEF Monitors
    <3>3. q[k].op # "modify"
      BY <2>4, <3>1, <3>2
    <3>4. waiting'[q[k].on] => waiting[q[k].on]
      BY <3>1
    <3>. QED BY <2>4, <3>2, <3>3, <3>4
  <2>. QED BY <2>1, <2>2, <2>3, <2>4
<1>. QED BY <1>3, <1>4

LEMMA DropGuarded ==
  ASSUME Calls, Monitors, NEW t \in Threads, NEW op, Next1(t, op), Then(t, <<>>),
         \A e \in Editors : waiting'[e] => waiting[e]
  PROVE  Monitors'
<1>1. <<>> \in Seq(Steps(typed)) /\ DOMAIN <<>> = {} /\ todo[t] # <<>>
  BY DEF Next1
<1>. QED BY <1>1, ThenGuarded

\* The variables that hold no content.
mapVars == <<loadedObject, docVars, loadJob, again, noticed, enabled, waiting, posted>>
flowVars == <<typed, latest, stored, page, oldHtml, saveJobs, accepted, task, waiting>>

LEMMA MapsRest == Maps /\ UNCHANGED mapVars => Maps'
BY DEF Maps, mapVars, docVars

LEMMA FlowRests == Flowing /\ UNCHANGED flowVars => Flowing'
BY DEF Flowing, flowVars

LEMMA UnregisteredTyped ==
  ASSUME Maps, NEW e \in Editors
  PROVE  Unregistered(e) \in [Docs -> Seq(Editors)]
<1>1. CASE loadedObject[e] = NoDoc
  BY <1>1 DEF Unregistered, Maps
<1>2. CASE loadedObject[e] # NoDoc
  <2>1. loadedObject[e] \in Docs /\ responsibleEditors[loadedObject[e]] \in Seq(Editors)
    BY <1>2 DEF Maps
  <2>2. RemoveFirst(responsibleEditors[loadedObject[e]], e) \in Seq(Editors)
    BY <2>1, RemoveFirstIs
  <2>3. Unregistered(e) = [responsibleEditors EXCEPT ![loadedObject[e]] = RemoveFirst(responsibleEditors[loadedObject[e]], e)]
    BY <1>2 DEF Unregistered
  <2>. QED BY <2>1, <2>2, <2>3 DEF Maps
<1>. QED BY <1>1, <1>2

LEMMA CancelledTyped ==
  ASSUME Calls, NEW e \in Editors
  PROVE  /\ \A rest \in Cancelled(e) : rest \in [Threads -> Seq(Steps(typed))]
         /\ \A rest \in Cancelled(e), t \in Threads : rest[t] \in {todo[t], <<>>, <<Step("quit", e, NoDoc)>>}
<1>1. <<>> \in Seq(Steps(typed)) /\ <<Step("quit", e, NoDoc)>> \in Seq(Steps(typed))
  BY QuitIsAStep
<1>. QED BY <1>1 DEF Cancelled, Calls

\* The steps of a call of the notifier and the composer.
LEMMA CallTypes ==
  ASSUME Types, NEW t \in Threads,
         NotifyNow(t) \/ LeaveMonitor(t) \/ AssignOldHtml(t) \/ SetPage(t) \/ SetEnabled(t) \/ (t = UI /\ Modify)
  PROVE  Types'
<1>0. Maps /\ Flowing /\ Calls /\ Monitors /\ <<>> \in Seq(Steps(typed)) /\ typed \in Nat
  BY EditorsDiffer DEF Types, Flowing
<1>1. CASE NotifyNow(t)
  <2>1. /\ Next1(t, "notify") /\ typed' = typed /\ At(t).on \in Editors
    BY <1>0, <1>1, HeadIs DEF NotifyNow, history
  <2>2. Calls'
    <3>1. CASE task[At(t).on] = {}
      BY <3>1, <1>0, <1>1, <2>1, ThenTyped DEF NotifyNow, Next1
    <3>2. CASE task[At(t).on] # {}
      <4>1. PICK h \in task[At(t).on] : Then(t, <<Step("save", At(t).on, h), Step("leave", At(t).on, Blank)>>)
        BY <3>2, <1>1 DEF NotifyNow
      <4>2. h \in Contents(typed)
        BY <4>1, <2>1, <1>0 DEF Flowing
      <4>3. <<Step("save", At(t).on, h), Step("leave", At(t).on, Blank)>> \in Seq(Steps(typed))
        BY <4>2, <2>1, <1>0, IsAStep, BlankIs
      <4>. QED BY <4>1, <4>3, <1>0, <2>1, ThenTyped DEF Next1
    <3>. QED BY <3>1, <3>2
  <2>3. Maps'
    BY <1>0, <1>1, <2>1 DEF NotifyNow, Maps, docVars, history, composerVars
  <2>4. Flowing'
    BY <1>0, <1>1, <2>1 DEF NotifyNow, Flowing, Maps, docVars, history, composerVars
  <2>5. Monitors'
    <3>0. /\ waiting' = [waiting EXCEPT ![At(t).on] = FALSE]
          /\ \A e \in Editors : waiting'[e] => waiting[e]
      BY <1>0, <1>1, <2>1 DEF NotifyNow, Maps
    <3>1. CASE task[At(t).on] = {}
      <4>1. Then(t, <<>>)
        BY <3>1, <1>1 DEF NotifyNow
      <4>. QED BY <3>0, <4>1, <1>0, <2>1, DropGuarded
    <3>2. CASE task[At(t).on] # {}
      <4>1. PICK h \in task[At(t).on] : Then(t, <<Step("save", At(t).on, h), Step("leave", At(t).on, Blank)>>)
        BY <3>2, <1>1 DEF NotifyNow
      <4>. DEFINE p == <<Step("save", At(t).on, h), Step("leave", At(t).on, Blank)>>
      <4>2. h \in Contents(typed)
        BY <4>1, <2>1, <1>0 DEF Flowing
      <4>3. p \in Seq(Steps(typed))
        BY <4>2, <2>1, <1>0, IsAStep, BlankIs
      <4>4. \A i \in DOMAIN p : p[i].op # "modify" /\ (p[i].op = "leave" => ~waiting'[p[i].on])
        BY <3>0, <2>1, <1>0 DEF Step, Maps
      <4>. QED BY <4>1, <4>3, <4>4, <3>0, <1>0, <2>1, ThenGuarded DEF Next1
    <3>. QED BY <3>1, <3>2
  <2>. QED BY <2>2, <2>3, <2>4, <2>5 DEF Types
<1>2. CASE LeaveMonitor(t)
  <2>1. /\ Next1(t, "leave") /\ Then(t, <<>>) /\ typed' = typed /\ At(t).on \in Editors
    BY <1>0, <1>2, HeadIs DEF LeaveMonitor, history
  <2>2. Calls'
    BY <1>0, <2>1, ThenTyped DEF Next1
  <2>3. Maps'
    BY <1>0, <1>2, MapsRest DEF LeaveMonitor, mapVars, docVars, history, composerVars
  <2>4. Flowing'
    <3>1. task' = [task EXCEPT ![At(t).on] = {}]
      BY <1>2 DEF LeaveMonitor
    <3>2. task' \in [Editors -> {{}} \cup {{h} : h \in Contents(typed)}]
      BY <3>1, <2>1, <1>0 DEF Flowing
    <3>3. \A e \in Editors : waiting'[e] => task'[e] # {}
      <4>1. ~waiting[At(t).on] /\ waiting' = waiting
        <5>1. 1 \in DOMAIN todo[t] /\ At(t) = todo[t][1] /\ At(t).op = "leave"
          BY <1>0, <2>1, HeadIs
        <5>2. waiting' = waiting
          BY <1>2 DEF LeaveMonitor
        <5>. QED BY <1>0, <5>1, <5>2 DEF Monitors
      <4>. QED BY <4>1, <3>1, <2>1, <1>0 DEF Flowing
    <3>. QED BY <1>0, <1>2, <3>2, <3>3 DEF LeaveMonitor, Flowing, history, composerVars
  <2>5. Monitors'
    <3>1. waiting' = waiting
      BY <1>2 DEF LeaveMonitor, notifierVars
    <3>. QED BY <1>0, <2>1, <3>1, DropGuarded
  <2>. QED BY <2>2, <2>3, <2>4, <2>5 DEF Types
<1>3. CASE AssignOldHtml(t)
  <2>1. /\ Next1(t, "assign") /\ Then(t, <<>>) /\ typed' = typed /\ At(t).on \in Editors
        /\ At(t).arg \in Contents(typed)
    BY <1>0, <1>3, HeadIs, StepIs DEF AssignOldHtml, history
  <2>2. Calls'
    BY <1>0, <2>1, ThenTyped DEF Next1
  <2>3. Maps'
    BY <1>0, <1>3, MapsRest DEF AssignOldHtml, mapVars, docVars, history, notifierVars
  <2>4. Flowing'
    BY <1>0, <1>3, <2>1 DEF AssignOldHtml, Flowing, notifierVars, history
  <2>5. Monitors'
    <3>1. waiting' = waiting
      BY <1>3 DEF AssignOldHtml, notifierVars
    <3>. QED BY <1>0, <2>1, <3>1, DropGuarded
  <2>. QED BY <2>2, <2>3, <2>4, <2>5 DEF Types
<1>4. CASE SetPage(t)
  <2>1. /\ Next1(t, "page") /\ Then(t, <<>>) /\ typed' = typed /\ At(t).on \in Editors
        /\ At(t).arg \in Contents(typed)
    BY <1>0, <1>4, HeadIs, StepIs DEF SetPage, history
  <2>2. Calls'
    BY <1>0, <2>1, ThenTyped DEF Next1
  <2>3. Maps'
    BY <1>0, <1>4, <2>1 DEF SetPage, Maps, docVars, history, notifierVars
  <2>4. Flowing'
    BY <1>0, <1>4, <2>1 DEF SetPage, Flowing, notifierVars, history
  <2>5. Monitors'
    <3>1. waiting' = waiting
      BY <1>4 DEF SetPage, notifierVars
    <3>. QED BY <1>0, <2>1, <3>1, DropGuarded
  <2>. QED BY <2>2, <2>3, <2>4, <2>5 DEF Types
<1>5. CASE SetEnabled(t)
  <2>1. /\ Next1(t, "enable") /\ Then(t, <<>>) /\ typed' = typed /\ At(t).on \in Editors
        /\ At(t).arg \in BOOLEAN
    BY <1>0, <1>5, HeadIs, StepIs DEF SetEnabled, history
  <2>2. Calls'
    BY <1>0, <2>1, ThenTyped DEF Next1
  <2>3. Maps'
    BY <1>0, <1>5, <2>1 DEF SetEnabled, Maps, docVars, history, notifierVars
  <2>4. Flowing'
    BY <1>0, <1>5, FlowRests DEF SetEnabled, flowVars, notifierVars, history
  <2>5. Monitors'
    <3>1. waiting' = waiting
      BY <1>5 DEF SetEnabled, notifierVars
    <3>. QED BY <1>0, <2>1, <3>1, DropGuarded
  <2>. QED BY <2>2, <2>3, <2>4, <2>5 DEF Types
<1>6. CASE t = UI /\ Modify
  <2>1. /\ Next1(UI, "modify") /\ Then(UI, <<>>) /\ typed' = typed /\ At(UI).on \in Editors
        /\ At(UI).arg \in Contents(typed) /\ UI \in Threads
    BY <1>0, <1>6, HeadIs, StepIs, ThreadsDiffer DEF Modify, history
  <2>2. Calls'
    BY <1>0, <2>1, ThenTyped DEF Next1
  <2>3. Maps'
    BY <1>0, <1>6, <2>1 DEF Modify, Maps, docVars, history, composerVars
  <2>4. Flowing'
    <3>1. /\ task' = [task EXCEPT ![At(UI).on] = {At(UI).arg}]
          /\ waiting' = [waiting EXCEPT ![At(UI).on] = TRUE]
      BY <1>6 DEF Modify
    <3>2. task' \in [Editors -> {{}} \cup {{h} : h \in Contents(typed)}]
      BY <3>1, <2>1, <1>0 DEF Flowing
    <3>3. \A e \in Editors : waiting'[e] => task'[e] # {}
      BY <3>1, <2>1, <1>0 DEF Flowing, Maps
    <3>. QED BY <1>0, <1>6, <3>2, <3>3 DEF Modify, Flowing, history, composerVars
  <2>5. Monitors'
    <3>1. todo[UI] \in Seq(Steps(typed)) /\ todo[UI] # <<>> /\ Len(todo[UI]) = 1
      BY <1>0, <2>1, HeadIs DEF Monitors
    <3>2. todo'[UI] = <<>> /\ \A u \in Threads \ {UI} : todo'[u] = todo[u]
      BY <3>1, <2>1, <1>0 DEF Then, Calls
    <3>3. \A u \in Threads \ {UI} : \A i \in DOMAIN todo[u] : todo[u][i].op = "leave" => todo[u][i].on # At(UI).on
      BY <1>6 DEF Modify, MayEnter, InMonitor
    <3>4. \A u \in Threads \ {UI} : \A i \in DOMAIN todo[u] :
            /\ todo[u][i].on \in Editors
            /\ todo[u][i].op = "leave" => ~waiting[todo[u][i].on] /\ ~waiting'[todo[u][i].on]
            /\ todo[u][i].op # "modify"
      <4>. SUFFICES ASSUME NEW u \in Threads \ {UI}, NEW i \in DOMAIN todo[u]
                    PROVE  /\ todo[u][i].on \in Editors
                           /\ todo[u][i].op = "leave" => ~waiting[todo[u][i].on] /\ ~waiting'[todo[u][i].on]
                           /\ todo[u][i].op # "modify"
        OBVIOUS
      <4>1. todo[u][i].on \in Editors
        BY <1>0, StepIs DEF Calls
      <4>2. waiting' = [waiting EXCEPT ![At(UI).on] = TRUE]
        BY <1>6 DEF Modify
      <4>. QED BY <4>1, <4>2, <3>3, <1>0 DEF Monitors, Maps
    <3>. QED BY <3>2, <3>4 DEF Monitors
  <2>. QED BY <2>2, <2>3, <2>4, <2>5 DEF Types
<1>. QED BY <1>1, <1>2, <1>3, <1>4, <1>5, <1>6

\* The steps of save and of the save jobs.
LEMMA SaveTypes ==
  ASSUME Types, \/ \E t \in Threads : Save(t) \/ ScheduleSave(t)
                \/ \E j \in saveJobs : StartSaveJob(j) \/ FinishSaveJob(j)
  PROVE  Types'
<1>0. /\ Maps /\ Flowing /\ Calls /\ Monitors /\ <<>> \in Seq(Steps(typed)) /\ typed \in Nat
      /\ \A j \in saveJobs : j \in SaveJobs(typed)
  BY EditorsDiffer DEF Types, Flowing
<1>1. ASSUME NEW t \in Threads, Save(t) PROVE Types'
  <2>1. /\ Next1(t, "save") /\ typed' = typed /\ At(t).on \in Editors /\ At(t).arg \in Contents(typed)
        /\ waiting' = waiting /\ todo[t] # <<>>
    BY <1>0, <1>1, HeadIs, StepIs DEF Save, history, notifierVars, Next1
  <2>. DEFINE e == At(t).on
              d == loadedObject[e]
              html == At(t).arg
              p == SetSources(responsibleEditors[d], e, html) \o <<Step("store", e, html)>>
  <2>2. CASE d = NoDoc \/ lastFocussedEditor[d] # e
    <3>1. Then(t, <<>>)
      BY <1>1, <2>2 DEF Save
    <3>. QED BY <3>1, <2>1, <1>0, ThenTyped, DropGuarded, <1>1, MapsRest, FlowRests
         DEF Save, mapVars, flowVars, composerVars, notifierVars, history, docVars, Types
  <2>3. CASE ~(d = NoDoc \/ lastFocussedEditor[d] # e)
    <3>1. Then(t, p)
      BY <1>1, <2>3 DEF Save
    <3>2. d \in Docs /\ responsibleEditors[d] \in Seq(Editors)
      BY <2>1, <2>3, <1>0 DEF Maps
    <3>3. SetSources(responsibleEditors[d], e, html) \in Seq(Steps(typed)) /\ <<Step("store", e, html)>> \in Seq(Steps(typed))
      BY <3>2, <2>1, SetSourcesTyped, IsAStep
    <3>4. p \in Seq(Steps(typed))
      BY <3>3
    <3>5. \A i \in DOMAIN p : p[i].op \notin {"modify", "leave"}
      <4>. DEFINE All == UNION {{Step("notify", f, html), Step("assign", f, html), Step("page", f, html)} :
                                  f \in {responsibleEditors[d][k] : k \in 1 .. Len(responsibleEditors[d])} \ {e}}
                  q == SetSources(responsibleEditors[d], e, html)
      <4>1. q \in Seq(All)
        BY <3>2, SetSourcesAre DEF LoopDone
      <4>2. \A s \in All : s.op \notin {"modify", "leave"}
        BY DEF Step
      <4>3. Step("store", e, html).op \notin {"modify", "leave"}
        BY DEF Step
      <4>. HIDE DEF All, q
      <4>4. \A i \in DOMAIN q : q[i].op \notin {"modify", "leave"}
        BY <4>1, <4>2
      <4>5. \A i \in DOMAIN (q \o <<Step("store", e, html)>>) :
              \/ i \in DOMAIN q /\ (q \o <<Step("store", e, html)>>)[i] = q[i]
              \/ (q \o <<Step("store", e, html)>>)[i] = Step("store", e, html)
        BY <4>1, ConcatProperties, LenProperties
      <4>. QED BY <4>3, <4>4, <4>5 DEF q
    <3>. HIDE DEF p
    <3>6. Calls'
      BY <3>1, <3>4, <2>1, <1>0, ThenTyped
    <3>7. Monitors'
      BY <3>1, <3>4, <3>5, <2>1, <1>0, ThenGuarded
    <3>. QED BY <3>6, <3>7, <1>0, <1>1, MapsRest, FlowRests
         DEF Save, mapVars, flowVars, composerVars, notifierVars, history, docVars, Types
  <2>. QED BY <2>2, <2>3
<1>2. ASSUME NEW t \in Threads, ScheduleSave(t) PROVE Types'
  <2>1. /\ Next1(t, "store") /\ typed' = typed /\ At(t).on \in Editors /\ At(t).arg \in Contents(typed)
        /\ Then(t, <<>>) /\ waiting' = waiting /\ todo[t] # <<>>
    BY <1>0, <1>2, HeadIs, StepIs DEF ScheduleSave, history, notifierVars, Next1
  <2>2. Calls' /\ Monitors'
    BY <2>1, <1>0, ThenTyped, DropGuarded
  <2>3. Maps'
    BY <1>0, <1>2, MapsRest DEF ScheduleSave, mapVars, docVars, composerVars, notifierVars, history
  <2>4. saveJobs' \subseteq SaveJobs(typed)
    <3>1. CASE loadedObject[At(t).on] = NoDoc
      BY <3>1, <1>0, <1>2 DEF ScheduleSave, Flowing
    <3>2. CASE loadedObject[At(t).on] # NoDoc
      <4>1. [by |-> At(t).on, doc |-> loadedObject[At(t).on], html |-> At(t).arg, running |-> FALSE] \in SaveJobs(typed)
        BY <3>2, <2>1, <1>0 DEF SaveJobs, Maps
      <4>. QED BY <4>1, <3>2, <1>0, <1>2 DEF ScheduleSave, Flowing
    <3>. QED BY <3>1, <3>2
  <2>5. Flowing'
    BY <2>4, <1>0, <1>2 DEF ScheduleSave, Flowing, composerVars, notifierVars, history
  <2>. QED BY <2>2, <2>3, <2>5 DEF Types
<1>3. ASSUME NEW j \in saveJobs, StartSaveJob(j) PROVE Types'
  <2>1. [j EXCEPT !.running = TRUE] \in SaveJobs(typed)
    BY <1>0 DEF SaveJobs
  <2>2. Flowing'
    BY <2>1, <1>0, <1>3 DEF StartSaveJob, Flowing, composerVars, notifierVars, history
  <2>. QED BY <2>2, <1>0, <1>3, MapsRest
       DEF StartSaveJob, mapVars, docVars, composerVars, notifierVars, history, Types, Calls, Monitors
<1>4. ASSUME NEW j \in saveJobs, FinishSaveJob(j) PROVE Types'
  <2>1. j.doc \in Docs /\ j.html \in Contents(typed)
    BY <1>0 DEF SaveJobs
  <2>2. Flowing'
    BY <2>1, <1>0, <1>4 DEF FinishSaveJob, Flowing, composerVars, notifierVars, history
  <2>. QED BY <2>2, <1>0, <1>4, MapsRest
       DEF FinishSaveJob, mapVars, docVars, composerVars, notifierVars, history, Types, Calls, Monitors
<1>. QED BY <1>1, <1>2, <1>3, <1>4

\* A job gets its first step, or loses it; nobody enters a monitor by that.
LEMMA JobGuarded ==
  ASSUME Calls, Monitors, NEW n \in 1 .. MaxLoads, NEW e \in Editors,
         \/ \E d \in Docs, rest \in Cancelled(e) : todo' = [rest EXCEPT ![LoadJob(n)] = <<Step("start", e, d)>>]
         \/ todo' \in Cancelled(e),
         waiting' = waiting
  PROVE  Monitors'
<1>1. \A t \in Threads : \/ todo'[t] \in {todo[t], <<>>, <<Step("quit", e, NoDoc)>>}
                         \/ \E d \in Docs : todo'[t] = <<Step("start", e, d)>>
  <2>1. CASE todo' \in Cancelled(e)
    BY <2>1, CancelledTyped
  <2>2. CASE \E d \in Docs, rest \in Cancelled(e) : todo' = [rest EXCEPT ![LoadJob(n)] = <<Step("start", e, d)>>]
    <3>1. PICK d \in Docs, rest \in Cancelled(e) : todo' = [rest EXCEPT ![LoadJob(n)] = <<Step("start", e, d)>>]
      BY <2>2
    <3>2. /\ rest \in [Threads -> Seq(Steps(typed))]
          /\ \A t \in Threads : rest[t] \in {todo[t], <<>>, <<Step("quit", e, NoDoc)>>}
      BY CancelledTyped
    <3>. QED BY <3>1, <3>2
  <2>. QED BY <2>1, <2>2
<1>. SUFFICES ASSUME NEW t \in Threads, NEW i \in DOMAIN todo'[t]
              PROVE  /\ todo'[t][i].op = "leave" => ~waiting'[todo'[t][i].on]
                     /\ todo'[t][i].op = "modify" => t = UI /\ Len(todo'[t]) = 1
  BY DEF Monitors
<1>2. CASE todo'[t] = todo[t]
  BY <1>2 DEF Monitors
<1>3. ASSUME NEW op \in {"start", "quit"}, NEW d, todo'[t] = <<Step(op, e, d)>>
      PROVE  todo'[t][i].op \notin {"leave", "modify"}
  BY <1>3 DEF Step
<1>. QED BY <1>1, <1>2, <1>3

\* The steps of load and of the load jobs.
LEMMA LoadTypes ==
  ASSUME Types, \/ \E e \in Editors : LoadAgain(e) \/ LoadNothing(e) \/ \E d \in Docs : Load(e, d)
                \/ \E n \in 1 .. MaxLoads : RunLoadJob(n) \/ LoadJobFails(n) \/ Register(n)
  PROVE  Types'
<1>0. Maps /\ Flowing /\ Calls /\ Monitors /\ <<>> \in Seq(Steps(typed)) /\ typed \in Nat
  BY EditorsDiffer DEF Types, Flowing
<1>1. ASSUME NEW e \in Editors, NEW d \in Docs, Load(e, d) PROVE Types'
  <2>1. Jobs \in Nat /\ Jobs + 1 \in 1 .. MaxLoads
    BY <1>1, JobIs DEF Load
  <2>2. /\ \E rest \in Cancelled(e) : todo' = [rest EXCEPT ![LoadJob(Jobs + 1)] = <<Step("start", e, d)>>]
        /\ typed' = typed /\ waiting' = waiting
    BY <1>1 DEF Load, history, notifierVars
  <2>3. <<Step("start", e, d)>> \in Seq(Steps(typed))
    BY IsAStep
  <2>4. Calls'
    <3>1. PICK rest \in Cancelled(e) : todo' = [rest EXCEPT ![LoadJob(Jobs + 1)] = <<Step("start", e, d)>>]
      BY <2>2
    <3>2. rest \in [Threads -> Seq(Steps(typed))]
      BY <1>0, CancelledTyped
    <3>. QED BY <3>1, <3>2, <2>2, <2>3 DEF Calls
  <2>5. Monitors'
    BY <2>1, <2>2, <1>0, JobGuarded
  <2>6. Flowing'
    BY <1>0, <1>1, FlowRests DEF Load, flowVars, composerVars, notifierVars, history
  <2>7. responsibleEditors' \in [Docs -> Seq(Editors)] /\ loadJob' \in [Editors -> 0 .. MaxLoads]
    <3>1. responsibleEditors' = Unregistered(e) /\ loadJob' = [loadJob EXCEPT ![e] = Jobs + 1]
      BY <1>1 DEF Load
    <3>2. Jobs + 1 \in 0 .. MaxLoads
      BY <2>1, EditorsDiffer
    <3>. QED BY <3>1, <3>2, <1>0, UnregisteredTyped DEF Maps
  <2>8. Maps'
    BY <2>7, <1>0, <1>1 DEF Load, Maps, composerVars, notifierVars, history
  <2>. QED BY <2>4, <2>5, <2>6, <2>8 DEF Types
<1>2. ASSUME NEW e \in Editors, LoadAgain(e) PROVE Types'
  <2>1. Flowing'
    BY <1>0, <1>2, FlowRests DEF LoadAgain, flowVars, composerVars, notifierVars
  <2>2. Calls' /\ Monitors'
    BY <1>0, <1>2 DEF LoadAgain, Calls, Monitors, notifierVars
  <2>3. responsibleEditors' \in [Docs -> Seq(Editors)]
    BY <1>0, <1>2, UnregisteredTyped DEF LoadAgain
  <2>4. again' \subseteq Docs /\ IsFiniteSet(again')
    <3>1. again' = again \cup {loadedObject[e]} /\ loadedObject[e] \in Docs
      BY <1>0, <1>2 DEF LoadAgain, Maps
    <3>2. again \subseteq Docs /\ IsFiniteSet(again)
      BY <1>0 DEF Maps
    <3>. QED BY <3>1, <3>2, FS_AddElement
  <2>5. Maps'
    BY <2>3, <2>4, <1>0, <1>2 DEF LoadAgain, Maps, composerVars, notifierVars
  <2>. QED BY <2>1, <2>2, <2>5 DEF Types
<1>3. ASSUME NEW e \in Editors, LoadNothing(e) PROVE Types'
  <2>1. Flowing'
    BY <1>0, <1>3, FlowRests DEF LoadNothing, flowVars, composerVars, notifierVars, history
  <2>2. todo' \in Cancelled(e) /\ typed' = typed /\ waiting' = waiting
    BY <1>3 DEF LoadNothing, history, notifierVars
  <2>3. Calls'
    BY <2>2, <1>0, CancelledTyped DEF Calls
  <2>4. Monitors'
    <3>1. \A t \in Threads : todo'[t] \in {todo[t], <<>>, <<Step("quit", e, NoDoc)>>}
      BY <2>2, <1>0, CancelledTyped
    <3>2. \A t \in Threads : \A i \in DOMAIN todo'[t] : todo'[t] = todo[t] \/ todo'[t][i].op = "quit"
      BY <3>1 DEF Step
    <3>. QED BY <3>2, <2>2, <1>0 DEF Monitors
  <2>5. Maps'
    BY <1>0, <1>3, UnregisteredTyped DEF LoadNothing, Maps, composerVars, notifierVars, history
  <2>. QED BY <2>1, <2>3, <2>4, <2>5 DEF Types
<1>4. ASSUME NEW n \in 1 .. MaxLoads, RunLoadJob(n) PROVE Types'
  <2>. DEFINE t == LoadJob(n)
              e == At(t).on
              d == At(t).arg
              p == SetSource(e, stored[d]) \o <<Step("loaded", e, d), Step("enable", e, TRUE)>>
  <2>1. t \in Threads /\ Next1(t, "start") /\ typed' = typed /\ waiting' = waiting
    BY <1>4, ThreadsDiffer DEF RunLoadJob, history, notifierVars
  <2>2. e \in Editors /\ d \in Docs /\ todo[t] # <<>>
    BY <2>1, <1>0, HeadIs, StepIs DEF Next1
  <2>3. Then(t, p)
    BY <1>4 DEF RunLoadJob
  <2>4. stored[d] \in Contents(typed)
    BY <2>2, <1>0 DEF Flowing
  <2>5. p \in Seq(Steps(typed))
    <3>1. SetSource(e, stored[d]) \in Seq(Steps(typed))
      BY <2>2, <2>4, SetSourceTyped
    <3>2. <<Step("loaded", e, d), Step("enable", e, TRUE)>> \in Seq(Steps(typed))
      <4>1. Step("loaded", e, d) \in Steps(typed) /\ Step("enable", e, TRUE) \in Steps(typed)
        BY <2>2, IsAStep, EnableIsAStep
      <4>. QED BY <4>1, TupleTyped, Zenon
    <3>. QED BY <3>1, <3>2, ConcatTyped, Zenon
  <2>6. \A i \in DOMAIN p : p[i].op \notin {"modify", "leave"}
    BY DEF SetSource, Step
  <2>. HIDE DEF p, t, e, d
  <2>7. Calls' /\ Monitors'
    BY <2>1, <2>2, <2>3, <2>5, <2>6, <1>0, ThenTyped, ThenGuarded
  <2>8. Maps' /\ Flowing'
    BY <1>0, <1>4, MapsRest, FlowRests
    DEF RunLoadJob, mapVars, flowVars, docVars, composerVars, notifierVars, history
  <2>. QED BY <2>7, <2>8 DEF Types
<1>5. ASSUME NEW n \in 1 .. MaxLoads, LoadJobFails(n) PROVE Types'
  <2>1. /\ LoadJob(n) \in Threads /\ todo' = [todo EXCEPT ![LoadJob(n)] = <<>>]
        /\ typed' = typed /\ waiting' = waiting
    BY <1>5, ThreadsDiffer DEF LoadJobFails, history, notifierVars
  <2>2. Calls' /\ Monitors'
    <3>1. \A t \in Threads : todo'[t] = todo[t] \/ todo'[t] = <<>>
      BY <2>1, <1>0 DEF Calls
    <3>. QED BY <2>1, <3>1, <1>0 DEF Calls, Monitors
  <2>3. Flowing'
    BY <1>0, <1>5, FlowRests DEF LoadJobFails, flowVars, composerVars, notifierVars, history
  <2>4. Maps'
    BY <1>0, <1>5 DEF LoadJobFails, Maps, docVars, composerVars, notifierVars, history
  <2>. QED BY <2>2, <2>3, <2>4 DEF Types
<1>6. ASSUME NEW n \in 1 .. MaxLoads, Register(n) PROVE Types'
  <2>1. LoadJob(n) \in Threads /\ Next1(LoadJob(n), "loaded") /\ Then(LoadJob(n), <<>>) /\ typed' = typed /\ waiting' = waiting
        /\ todo[LoadJob(n)] # <<>>
    BY <1>6, ThreadsDiffer DEF Register, history, notifierVars, Next1
  <2>2. Calls' /\ Monitors'
    BY <2>1, <1>0, ThenTyped, DropGuarded
  <2>3. Flowing'
    BY <1>0, <1>6, FlowRests DEF Register, flowVars, composerVars, notifierVars, history
  <2>4. At(LoadJob(n)).on \in Editors /\ At(LoadJob(n)).arg \in Docs
    BY <2>1, <1>0, HeadIs, StepIs
  <2>5. PICK e \in Editors, d \in Docs :
          /\ loadedObject' = [loadedObject EXCEPT ![e] = d]
          /\ responsibleEditors' = [responsibleEditors EXCEPT ![d] = Append(@, e)]
    BY <2>4, <1>6 DEF Register
  <2>6. Append(responsibleEditors[d], e) \in Seq(Editors)
    BY <1>0 DEF Maps
  <2>7. Maps'
    BY <2>5, <2>6, <1>0, <1>6 DEF Register, Maps, composerVars, notifierVars, history
  <2>. QED BY <2>2, <2>3, <2>7 DEF Types
<1>. QED BY <1>1, <1>2, <1>3, <1>4, <1>5, <1>6

\* What the timer, the page and the user do.
LEMMA EventTypes ==
  ASSUME Types, NEW e \in Editors, TimerFires(e) \/ Notice(e) \/ RunPosted(e) \/ Type(e) \/ Focus(e)
  PROVE  Types'
<1>0. Maps /\ Flowing /\ Calls /\ Monitors /\ typed \in Nat /\ UI \in Threads /\ Timer(e) \in Threads
  BY EditorsDiffer, ThreadsDiffer DEF Types, Flowing
<1>1. ASSUME NEW t \in Threads, NEW q \in Seq(Steps(typed)), todo[t] = <<>>, todo' = [todo EXCEPT ![t] = q],
             \A i \in DOMAIN q : q[i].op # "leave" /\ (q[i].op = "modify" => t = UI /\ Len(q) = 1),
             typed' = typed, \A f \in Editors : waiting'[f] => waiting[f]
      PROVE  Calls' /\ Monitors'
  <2>1. Calls'
    BY <1>0, <1>1 DEF Calls
  <2>2. \A u \in Threads \ {t} : todo'[u] = todo[u] /\ \A i \in DOMAIN todo[u] : todo[u][i].on \in Editors
    <3>1. \A u \in Threads : \A i \in DOMAIN todo[u] : todo[u][i].on \in Editors
      <4>. SUFFICES ASSUME NEW u \in Threads, NEW i \in DOMAIN todo[u] PROVE todo[u][i].on \in Editors
        OBVIOUS
      <4>. QED BY <1>0, StepIs DEF Calls
    <3>. QED BY <3>1, <1>0, <1>1 DEF Calls
  <2>3. todo'[t] = q
    BY <1>0, <1>1 DEF Calls
  <2>4. Monitors'
    <3>. SUFFICES ASSUME NEW u \in Threads, NEW i \in DOMAIN todo'[u]
                  PROVE  /\ todo'[u][i].op = "leave" => ~waiting'[todo'[u][i].on]
                         /\ todo'[u][i].op = "modify" => u = UI /\ Len(todo'[u]) = 1
      BY DEF Monitors
    <3>1. CASE u = t
      BY <3>1, <2>3, <1>1
    <3>2. CASE u # t
      BY <3>2, <2>2, <1>0, <1>1 DEF Monitors
    <3>. QED BY <3>1, <3>2
  <2>. QED BY <2>1, <2>4
<1>2. CASE TimerFires(e)
  <2>1. PICK h \in task[e] : todo' = [todo EXCEPT ![Timer(e)] = <<Step("save", e, h)>>]
    BY <1>2 DEF TimerFires
  <2>2. h \in Contents(typed) /\ <<Step("save", e, h)>> \in Seq(Steps(typed))
    BY <2>1, <1>0, IsAStep DEF Flowing
  <2>3. waiting' = [waiting EXCEPT ![e] = FALSE] /\ todo[Timer(e)] = <<>> /\ typed' = typed
    BY <1>2 DEF TimerFires, history
  <2>4. \A f \in Editors : waiting'[f] => waiting[f]
    BY <2>3, <1>0 DEF Maps
  <2>5. Calls' /\ Monitors'
    <3>1. \A i \in DOMAIN <<Step("save", e, h)>> : <<Step("save", e, h)>>[i].op = "save"
      BY DEF Step
    <3>. QED BY <3>1, <2>1, <2>2, <2>3, <2>4, <1>0, <1>1
  <2>6. Maps'
    BY <1>0, <1>2, <2>3 DEF TimerFires, Maps, docVars, composerVars, history
  <2>7. Flowing'
    BY <1>0, <1>2, <2>4 DEF TimerFires, Flowing, docVars, composerVars, history
  <2>. QED BY <2>5, <2>6, <2>7 DEF Types
<1>3. CASE Notice(e)
  <2>1. typed' = typed /\ waiting' = waiting /\ todo[UI] = <<>> /\ page[e] \in Contents(typed)
    BY <1>0, <1>3 DEF Notice, UIFree, history, notifierVars, Flowing
  <2>2. Calls' /\ Monitors'
    <3>1. CASE \E h \in {oldHtml[e]} \cup accepted[e] : Same(page[e], h)
      BY <3>1, <1>0, <1>3, <2>1 DEF Notice, Calls, Monitors
    <3>2. CASE ~ \E h \in {oldHtml[e]} \cup accepted[e] : Same(page[e], h)
      <4>1. todo' = [todo EXCEPT ![UI] = <<Step("modify", e, page[e])>>]
        BY <3>2, <1>3 DEF Notice
      <4>2. <<Step("modify", e, page[e])>> \in Seq(Steps(typed)) /\ Len(<<Step("modify", e, page[e])>>) = 1
        BY <2>1, IsAStep
      <4>3. \A i \in DOMAIN <<Step("modify", e, page[e])>> : <<Step("modify", e, page[e])>>[i].op = "modify"
        BY DEF Step
      <4>. QED BY <4>1, <4>2, <4>3, <2>1, <1>0, <1>1
    <3>. QED BY <3>1, <3>2
  <2>3. Maps'
    BY <1>0, <1>3 DEF Notice, Maps, docVars, composerVars, notifierVars, history
  <2>4. oldHtml' \in [Editors -> Contents(typed)] /\ accepted' \in [Editors -> SUBSET Contents(typed)]
    BY <1>0, <1>3 DEF Notice, Flowing
  <2>5. Flowing'
    BY <1>0, <1>3, <2>4 DEF Notice, Flowing, notifierVars, history
  <2>. QED BY <2>2, <2>3, <2>5 DEF Types
<1>4. CASE RunPosted(e)
  <2>. DEFINE q == SetSource(e, Blank) \o <<Step("enable", e, FALSE)>>
  <2>1. todo' = [todo EXCEPT ![UI] = q] /\ todo[UI] = <<>> /\ typed' = typed /\ waiting' = waiting
    BY <1>4 DEF RunPosted, UIFree, history, notifierVars
  <2>2. q \in Seq(Steps(typed))
    <3>1. SetSource(e, Blank) \in Seq(Steps(typed)) /\ <<Step("enable", e, FALSE)>> \in Seq(Steps(typed))
      <4>1. Blank \in Contents(typed) /\ Step("enable", e, FALSE) \in Steps(typed)
        BY <1>0, BlankIs, EnableIsAStep
      <4>2. <<Step("enable", e, FALSE)>> \in Seq(Steps(typed))
        BY <4>1, TupleTyped, Zenon
      <4>. QED BY <4>1, <4>2, SetSourceTyped, Zenon
    <3>. QED BY <3>1, ConcatTyped, Zenon
  <2>3. \A i \in DOMAIN q : q[i].op \notin {"leave", "modify"}
    BY DEF SetSource, Step
  <2>. HIDE DEF q
  <2>4. Calls' /\ Monitors'
    BY <2>1, <2>2, <2>3, <1>0, <1>1
  <2>5. Maps'
    BY <1>0, <1>4 DEF RunPosted, Maps, docVars, composerVars, notifierVars, history
  <2>6. Flowing'
    BY <1>0, <1>4, FlowRests DEF RunPosted, flowVars, docVars, composerVars, notifierVars, history
  <2>. QED BY <2>4, <2>5, <2>6 DEF Types
<1>5. CASE Type(e)
  <2>1. typed' = typed + 1 /\ typed' \in 0 .. MaxRev /\ typed' \in Nat /\ typed <= typed'
    BY <1>0, <1>5, EditorsDiffer DEF Type, Flowing
  <2>2. /\ Contents(typed) \subseteq Contents(typed') /\ Steps(typed) \subseteq Steps(typed')
        /\ SaveJobs(typed) \subseteq SaveJobs(typed') /\ Seq(Steps(typed)) \subseteq Seq(Steps(typed'))
    BY <2>1, <1>0, ContentsGrow
  <2>3. Calls' /\ Monitors'
    <3>1. todo' = todo /\ waiting' = waiting
      BY <1>5 DEF Type, notifierVars
    <3>2. todo \in [Threads -> Seq(Steps(typed'))]
      BY <2>2, <1>0 DEF Calls
    <3>. QED BY <3>1, <3>2, <1>0 DEF Calls, Monitors
  <2>4. Maps'
    BY <1>0, <1>5 DEF Type, Maps, docVars, notifierVars
  <2>5. Flowing'
    <3>1. latest' \in [Docs -> 0 .. typed']
      BY <1>0, <1>5, <2>1 DEF Type, Flowing
    <3>2. page' \in [Editors -> Contents(typed')]
      <4>1. PICK r \in 0 .. typed + 1 : page' = [page EXCEPT ![e] = [page[e] EXCEPT !.rev = r]]
        BY <1>5 DEF Type
      <4>2. page \in [Editors -> Contents(typed')] /\ page[e] \in Contents(typed')
        BY <2>2, <1>0 DEF Flowing
      <4>3. [page[e] EXCEPT !.rev = r] \in Contents(typed')
        BY <4>2, <2>1 DEF Contents
      <4>. QED BY <4>1, <4>2, <4>3
    <3>3. /\ stored' \in [Docs -> Contents(typed')] /\ oldHtml' \in [Editors -> Contents(typed')]
          /\ saveJobs' \subseteq SaveJobs(typed') /\ accepted' \in [Editors -> SUBSET Contents(typed')]
      BY <2>2, <1>0, <1>5 DEF Type, Flowing, notifierVars
    <3>4. task' \in [Editors -> {{}} \cup {{h} : h \in Contents(typed')}] /\ \A f \in Editors : waiting'[f] => task'[f] # {}
      BY <2>2, <1>0, <1>5 DEF Type, Flowing, notifierVars
    <3>. QED BY <3>1, <3>2, <3>3, <3>4, <2>1 DEF Flowing
  <2>. QED BY <2>3, <2>4, <2>5 DEF Types
<1>6. CASE Focus(e)
  <2>1. Maps'
    BY <1>0, <1>6 DEF Focus, Maps, composerVars, notifierVars, history
  <2>2. Flowing'
    BY <1>0, <1>6, FlowRests DEF Focus, flowVars, composerVars, notifierVars, history
  <2>. QED BY <2>1, <2>2, <1>0, <1>6 DEF Focus, Types, Calls, Monitors, notifierVars, history
<1>. QED BY <1>2, <1>3, <1>4, <1>5, <1>6

LEMMA StepKeepsTypes == Types /\ [Next]_vars => Types'
<1>. SUFFICES ASSUME Types, [Next]_vars PROVE Types'
  OBVIOUS
<1>1. ASSUME NEW t \in Threads, Proceed(t) PROVE Types'
  BY <1>1, CallTypes, SaveTypes, LoadTypes, Zenon DEF Proceed
<1>2. ASSUME NEW e \in Editors, EventLoop(e) \/ TimerFires(e) PROVE Types'
  BY <1>2, EventTypes, Zenon DEF EventLoop
<1>3. ASSUME NEW j \in saveJobs, StartSaveJob(j) \/ FinishSaveJob(j) PROVE Types'
  BY <1>3, SaveTypes, Zenon
<1>4. CASE User
  BY <1>4, EventTypes, LoadTypes, Zenon DEF User
<1>5. CASE UNCHANGED vars
  <2>1. UNCHANGED mapVars /\ UNCHANGED flowVars
    BY <1>5 DEF vars, mapVars, flowVars, docVars, composerVars, notifierVars, history
  <2>2. Maps' /\ Flowing'
    BY <2>1, MapsRest, FlowRests DEF Types
  <2>. QED BY <2>2, <1>5 DEF Types, Calls, Monitors, vars, docVars, composerVars, notifierVars, history
<1>. QED BY <1>1, <1>2, <1>3, <1>4, <1>5 DEF Next, System

\* The variables of Editor have their types, and only a task waits in a timer,
\* however the users and clients behave.
THEOREM EditorTypes == Spec => []EditorTypeOK
<1>1. Types => EditorTypeOK
  <2>. SUFFICES ASSUME Types PROVE EditorTypeOK
    OBVIOUS
  <2>1. Contents(typed) \subseteq Html
    <3>1. 0 .. typed \subseteq 0 .. MaxRev
      BY EditorsDiffer DEF Types, Flowing
    <3>. QED BY <3>1 DEF Contents, Html
  <2>2. \A e \in Editors : task[e] \subseteq Html /\ Cardinality(task[e]) <= 1
    <3>. TAKE e \in Editors
    <3>1. CASE task[e] = {}
      <4>1. Cardinality({}) = 0
        BY FS_EmptySet
      <4>. QED BY <3>1, <4>1
    <3>2. ASSUME NEW h \in Contents(typed), task[e] = {h} PROVE task[e] \subseteq Html /\ Cardinality(task[e]) <= 1
      <4>1. Cardinality({h}) = 1
        BY FS_Singleton, Zenon
      <4>. QED BY <3>2, <2>1, <4>1
    <3>. QED BY <3>1, <3>2 DEF Types, Flowing
  <2>3. \A j \in saveJobs : j.by \in Editors /\ j.doc \in Docs /\ j.html \in Html
    BY <2>1 DEF Types, Flowing, SaveJobs
  <2>4. stored \in [Docs -> Html] /\ page \in [Editors -> Html] /\ oldHtml \in [Editors -> Html]
    BY <2>1 DEF Types, Flowing
  <2>5. accepted \in [Editors -> SUBSET Html]
    BY <2>1 DEF Types, Flowing
  <2>6. typed \in 0 .. MaxRev /\ latest \in [Docs -> 0 .. MaxRev]
    BY EditorsDiffer DEF Types, Flowing
  <2>. QED BY <2>2, <2>3, <2>4, <2>5, <2>6 DEF Types, Maps, Flowing, EditorTypeOK
<1>. QED BY <1>1, InitTypes, StepKeepsTypes, PTL DEF Spec
=============================================================================
