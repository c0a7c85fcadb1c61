------------------------------ MODULE TreeProofs ----------------------------
(***************************************************************************)
(* What the trees and their dumps are, for any tokens, any inputs and any  *)
(* verdicts of code generation.                                            *)
(*                                                                         *)
(* The third invariant of the parser says which tokens each function that  *)
(* waits has taken, and that each node is spelled by its own: it is why    *)
(* the trees are those of the rules in Grammar.                            *)
(* The fourth says what the lines printed so far show of the tree: those   *)
(* of the nodes being visited the parts visited, the others all parts.     *)
(***************************************************************************)
EXTENDS FrontendProofs

-----------------------------------------------------------------------------
\* The third invariant: the tokens read so far are spelled by the nodes built and by
\* what the functions that wait have taken.  It is stated over a text t and a tree a,
\* so that what is shown of it serves before a step and behind it.
TokIn(t, p) == IF p <= Len(t) THEN t[p] ELSE "eof"

ItemType == [class : SUBSET Token, at : Nat, sub : Nat]

\* Nothing but parentheses is around the tokens from..to between p and e.
Enclosed(t, p, from, to, e) ==
    /\ p <= from /\ e = to + (from - p) + 1
    /\ \A i \in 0..from - p - 1 : TokIn(t, p + i) = "(" /\ TokIn(t, to + 1 + i) = ")"

\* The tokens from p up to e are what the item asks for.
Takes(t, a, p, item, e) ==
    IF item.sub # 0
    THEN item.sub \in 1..Len(a) /\ Enclosed(t, p, a[item.sub].from, a[item.sub].to, e)
    ELSE TokIn(t, p) \in item.class /\ item.at \in {AnyPlace, p} /\ e = p + 1

\* They are what the items ask for, one behind the other.
Path(t, a, items, w) == \A i \in 1..Len(items) : Takes(t, a, w[i - 1], items[i], w[i])
Built(t, a, items, p, e) ==
    /\ items \in Seq(ItemType)
    /\ \E w \in [0..Len(items) -> Nat \ {0}] :
        w[0] = p /\ w[Len(items)] = e /\ Path(t, a, items, w)

\* Two functions that agree at b, and at i whenever they agree at i - 1, are the same.
InStep(b, n, u, v) == u[b] = v[b] /\ \A i \in b + 1..n : u[i - 1] = v[i - 1] => u[i] = v[i]

LEMMA SameSteps ==
    ASSUME NEW b \in Nat, NEW n \in Nat, NEW u, NEW v, InStep(b, n, u, v)
    PROVE  \A i \in b..n : u[i] = v[i]
<1> DEFINE D == {i \in b..n : u[i] # v[i]}
<1>1. SUFFICES ASSUME D # {} PROVE FALSE
  OBVIOUS
<1>2. D \subseteq Nat
  OBVIOUS
<1>3. PICK m \in D : \A k \in D : m <= k
  BY <1>1, <1>2, LeastExists
<1>4. m \in b..n /\ u[m] # v[m]
  OBVIOUS
<1>5. m # b
  BY <1>4 DEF InStep
<1>6. m \in b + 1..n /\ m - 1 \in b..n /\ m - 1 < m
  BY <1>4, <1>5
<1>7. m - 1 \notin D
  BY <1>3, <1>6
<1>8. u[m - 1] = v[m - 1]
  BY <1>6, <1>7
<1> QED
  BY <1>4, <1>6, <1>8 DEF InStep

\* Parentheses around a part, as Grammar finds them.
LEMMA EnclosedAround ==
    ASSUME NEW q \in Nat, NEW from \in Nat, NEW z \in Int, NEW e, Enclosed(text, q, from, z, e)
    PROVE  Around(q, from, z) = e
<1>1. PICK d : d = from - q
  OBVIOUS
<1>2. d >= 0 /\ e = z + d + 1 /\ d \in Int
  BY <1>1 DEF Enclosed
<1>3. \A k \in 0..d - 1 : TokIn(text, q + k) = "(" /\ TokIn(text, z + 1 + k) = ")"
  BY <1>1 DEF Enclosed
<1>4. \A k : Tok(k) = TokIn(text, k)
  BY DEF Tok, TokIn
<1> QED
  BY <1>1, <1>2, <1>3, <1>4 DEF Around

\* What Grammar asks of a node follows.
LEMMA BuiltSpells ==
    ASSUME ast \in Seq(NodeType), NEW items, NEW p, NEW to, Built(text, ast, items, p, to + 1)
    PROVE  Spells(items, p, to)
<1> DEFINE Eq(f) == f = [i \in 0..Len(items) |->
                IF i = 0 THEN p ELSE IF f[i - 1] = 0 THEN 0 ELSE After(f[i - 1], items[i])]
           r == CHOOSE f : Eq(f)
<1>1. PICK w \in [0..Len(items) -> Nat \ {0}] :
        w[0] = p /\ w[Len(items)] = to + 1 /\ Path(text, ast, items, w)
  BY DEF Built
<1>2. Len(items) \in Nat
  BY DEF Built
<1>3. ASSUME NEW i \in 1..Len(items) PROVE w[i] = After(w[i - 1], items[i]) /\ w[i - 1] # 0
  <2>1. i - 1 \in 0..Len(items) /\ i \in 0..Len(items)
    BY <1>2
  <2>2. PICK q, x, e : q = w[i - 1] /\ x = items[i] /\ e = w[i]
    OBVIOUS
  <2>3. q \in Nat \ {0} /\ e \in Nat \ {0} /\ Takes(text, ast, q, x, e)
    BY <1>1, <2>1, <2>2 DEF Path
  <2>4. CASE x.sub # 0
    <3>1. PICK from, z : from = ast[x.sub].from /\ z = ast[x.sub].to
      OBVIOUS
    <3>2. x.sub \in 1..Len(ast) /\ Enclosed(text, q, from, z, e)
      BY <2>3, <2>4, <3>1 DEF Takes
    <3>3. from \in Nat /\ z \in Int
      <4>1. ast[x.sub] \in NodeType
        BY <3>2, ElementOfSeq
      <4> QED
        BY <3>1, <4>1 DEF NodeType
    <3>4. After(q, x) = Around(q, from, z)
      BY <2>4, <3>1 DEF After
    <3>5. Around(q, from, z) = e
      BY <2>3, <3>2, <3>3, EnclosedAround
    <3> QED
      BY <2>2, <2>3, <3>4, <3>5
  <2>5. CASE x.sub = 0
    <3>1. Tok(q) \in x.class /\ x.at \in {AnyPlace, q} /\ e = q + 1
      BY <2>3, <2>5 DEF Takes, TokIn, Tok
    <3> QED
      BY <2>2, <2>3, <2>5, <3>1 DEF After
  <2> QED
    BY <2>4, <2>5
<1>4. \A i \in 0..Len(items) : w[i] = IF i = 0 THEN p ELSE
                                IF w[i - 1] = 0 THEN 0 ELSE After(w[i - 1], items[i])
  <2>1. \A i \in 0..Len(items) : i = 0 \/ i \in 1..Len(items)
    BY <1>2
  <2> QED
    BY <1>1, <1>3, <2>1
<1>5. Eq(w)
  BY <1>4
<1>6. Eq(r)
  BY <1>5, Zenon
<1>7. \A i \in 0..Len(items) : r[i] = IF i = 0 THEN p ELSE
                                IF r[i - 1] = 0 THEN 0 ELSE After(r[i - 1], items[i])
  BY <1>6
<1>8. Spells(items, p, to) <=> r[Len(items)] = to + 1
  BY DEF Spells
<1> HIDE DEF r
<1>9. r[0] = w[0]
  BY <1>1, <1>2, <1>7
<1>10. ASSUME NEW i \in 1..Len(items), r[i - 1] = w[i - 1] PROVE r[i] = w[i]
  <2>1. i \in 0..Len(items) /\ i # 0
    BY <1>2
  <2> QED
    BY <1>3, <1>7, <1>10, <2>1
<1>11. \A i \in 0..Len(items) : r[i] = w[i]
  <2>1. PICK u, n : u = r /\ n = Len(items)
    OBVIOUS
  <2>2. n \in Nat /\ 0 \in Nat /\ InStep(0, n, u, w)
    BY <1>2, <1>9, <1>10, <2>1 DEF InStep
  <2>3. \A i \in 0..n : u[i] = w[i]
    BY <2>2, SameSteps
  <2> QED
    BY <2>1, <2>3
<1> QED
  BY <1>1, <1>2, <1>8, <1>11

-----------------------------------------------------------------------------
\* How what is spelled grows: nothing, an item, one list behind another.
LEMMA BuiltNone ==
    ASSUME NEW t, NEW a, NEW p \in Nat \ {0}
    PROVE  Built(t, a, <<>>, p, p)
<1>1. PICK s : s = <<>>
  OBVIOUS
<1>2. s \in Seq(ItemType) /\ Len(s) = 0
  BY <1>1
<1>3. PICK w : w = [i \in 0..0 |-> p]
  OBVIOUS
<1>4. w \in [0..Len(s) -> Nat \ {0}] /\ w[0] = p /\ w[Len(s)] = p
  BY <1>2, <1>3
<1>5. Path(t, a, s, w)
  BY <1>2 DEF Path
<1>6. Built(t, a, s, p, p)
  BY <1>2, <1>4, <1>5 DEF Built
<1> QED
  BY <1>1, <1>6

LEMMA BuiltOne ==
    ASSUME NEW t, NEW a, NEW p \in Nat \ {0}, NEW e \in Nat \ {0}, NEW x \in ItemType,
           Takes(t, a, p, x, e)
    PROVE  Built(t, a, <<x>>, p, e)
<1>1. PICK s : s = <<x>>
  OBVIOUS
<1>2. s \in Seq(ItemType) /\ Len(s) = 1 /\ s[1] = x
  BY <1>1
<1>3. PICK w : w = [i \in 0..1 |-> IF i = 0 THEN p ELSE e]
  OBVIOUS
<1>4. w \in [0..1 -> Nat \ {0}] /\ w[0] = p /\ w[1] = e
  BY <1>3
<1>5. \A i \in 1..1 : i = 1 /\ i - 1 = 0
  OBVIOUS
<1>6. Path(t, a, s, w)
  BY <1>2, <1>4, <1>5 DEF Path
<1>7. Built(t, a, s, p, e)
  BY <1>2, <1>4, <1>6 DEF Built
<1> QED
  BY <1>1, <1>7

LEMMA BuiltJoin ==
    ASSUME NEW t, NEW a, NEW u, NEW v, NEW p, NEW q, NEW e,
           Built(t, a, u, p, q), Built(t, a, v, q, e)
    PROVE  Built(t, a, u \o v, p, e)
<1>1. u \in Seq(ItemType) /\ v \in Seq(ItemType)
  BY DEF Built
<1>2. PICK f \in [0..Len(u) -> Nat \ {0}] : f[0] = p /\ f[Len(u)] = q /\ Path(t, a, u, f)
  BY DEF Built
<1>3. PICK g \in [0..Len(v) -> Nat \ {0}] : g[0] = q /\ g[Len(v)] = e /\ Path(t, a, v, g)
  BY DEF Built
<1>4. PICK s, m, n : s = u \o v /\ m = Len(u) /\ n = Len(v)
  OBVIOUS
<1>5. /\ s \in Seq(ItemType) /\ m \in Nat /\ n \in Nat /\ Len(s) = m + n
      /\ \A i \in 1..m + n : s[i] = IF i <= m THEN u[i] ELSE v[i - m]
  BY <1>1, <1>4, ConcatProperties, LenProperties
<1>6. PICK w : w = [i \in 0..m + n |-> IF i <= m THEN f[i] ELSE g[i - m]]
  OBVIOUS
<1>7. \A i \in 0..m : f[i] \in Nat \ {0}
  BY <1>2, <1>4
<1>8. \A i \in 0..n : g[i] \in Nat \ {0}
  BY <1>3, <1>4
<1>9. ASSUME NEW i \in 0..m + n PROVE w[i] \in Nat \ {0} /\ w[i] = IF i <= m THEN f[i] ELSE g[i - m]
  <2>1. w[i] = IF i <= m THEN f[i] ELSE g[i - m]
    BY <1>6
  <2>2. i <= m => i \in 0..m
    BY <1>5
  <2>3. i > m => i - m \in 0..n
    BY <1>5
  <2> QED
    BY <1>5, <1>7, <1>8, <2>1, <2>2, <2>3
<1>10. w \in [0..Len(s) -> Nat \ {0}]
  BY <1>5, <1>6, <1>9
<1>11. w[0] = p
  BY <1>2, <1>5, <1>9
<1>12. w[m] = q
  BY <1>2, <1>4, <1>5, <1>9
<1>13. \A i \in 0..n : w[m + i] = g[i]
  <2>1. ASSUME NEW i \in 0..n PROVE w[m + i] = g[i]
    <3>1. m + i \in 0..m + n
      BY <1>5
    <3>2. CASE i = 0
      BY <1>3, <1>5, <1>12, <3>2
    <3>3. CASE i # 0
      <4>1. PICK k : k = m + i
        OBVIOUS
      <4>2. k \in 0..m + n /\ ~(k <= m) /\ k - m = i
        BY <1>5, <3>1, <3>3, <4>1
      <4>3. w[k] = g[k - m]
        BY <1>9, <4>2
      <4> QED
        BY <4>1, <4>2, <4>3
    <3> QED
      BY <3>2, <3>3
  <2> QED
    BY <2>1
<1>14. w[Len(s)] = e
  BY <1>3, <1>4, <1>5, <1>13
<1>15. ASSUME NEW i \in 1..Len(s) PROVE Takes(t, a, w[i - 1], s[i], w[i])
  <2>1. i \in 1..m + n
    BY <1>5
  <2>2. CASE i <= m
    <3>1. i \in 1..Len(u) /\ i - 1 \in 0..m + n /\ i \in 0..m + n /\ i - 1 <= m
      BY <1>4, <1>5, <2>1, <2>2
    <3>2. Takes(t, a, f[i - 1], u[i], f[i])
      BY <1>2, <3>1 DEF Path
    <3>3. w[i - 1] = f[i - 1] /\ w[i] = f[i] /\ s[i] = u[i]
      BY <1>5, <1>9, <2>1, <2>2, <3>1
    <3> QED
      BY <3>2, <3>3
  <2>3. CASE ~(i <= m)
    <3>1. PICK k : k = i - m
      OBVIOUS
    <3>2. k \in 1..n /\ k - 1 \in 0..n /\ k \in 0..n /\ i = m + k /\ i - 1 = m + (k - 1)
      BY <1>5, <2>1, <2>3, <3>1
    <3>3. Takes(t, a, g[k - 1], v[k], g[k])
      BY <1>3, <1>4, <3>2 DEF Path
    <3>4. w[i - 1] = g[k - 1] /\ w[i] = g[k]
      BY <1>13, <3>2
    <3>5. s[i] = v[k]
      BY <1>5, <2>1, <2>3, <3>1
    <3> QED
      BY <3>3, <3>4, <3>5
  <2> QED
    BY <2>2, <2>3
<1>16. Path(t, a, s, w)
  BY <1>15 DEF Path
<1>17. Built(t, a, s, p, e)
  BY <1>5, <1>10, <1>11, <1>14, <1>16 DEF Built
<1> QED
  BY <1>4, <1>17

\* Where it begins and ends.
LEMMA BuiltPlaces ==
    ASSUME NEW t, NEW a, NEW items, NEW p, NEW e, Built(t, a, items, p, e)
    PROVE  p \in Nat \ {0} /\ e \in Nat \ {0} /\ items \in Seq(ItemType)
<1>1. items \in Seq(ItemType)
  BY DEF Built
<1>2. PICK w \in [0..Len(items) -> Nat \ {0}] : w[0] = p /\ w[Len(items)] = e
  BY DEF Built
<1>3. Len(items) \in Nat
  BY <1>1
<1>4. 0 \in 0..Len(items) /\ Len(items) \in 0..Len(items)
  BY <1>3
<1> QED
  BY <1>1, <1>2, <1>4

\* A tree that keeps its nodes keeps what is spelled with them.
SameNodes(a, b) == Len(a) <= Len(b) /\ \A i \in 1..Len(a) : b[i].from = a[i].from /\ b[i].to = a[i].to

LEMMA BuiltKept ==
    ASSUME NEW t, NEW a, NEW b, Len(a) \in Nat, Len(b) \in Nat, SameNodes(a, b),
           NEW items, NEW p, NEW e, Built(t, a, items, p, e)
    PROVE  Built(t, b, items, p, e)
<1>1. items \in Seq(ItemType)
  BY DEF Built
<1>2. PICK w \in [0..Len(items) -> Nat \ {0}] :
        w[0] = p /\ w[Len(items)] = e /\ Path(t, a, items, w)
  BY DEF Built
<1>3. ASSUME NEW i \in 1..Len(items) PROVE Takes(t, b, w[i - 1], items[i], w[i])
  <2>1. PICK q, x, z : q = w[i - 1] /\ x = items[i] /\ z = w[i]
    OBVIOUS
  <2>2. Takes(t, a, q, x, z)
    BY <1>2, <2>1 DEF Path
  <2>3. CASE x.sub # 0
    <3>1. x.sub \in 1..Len(a) /\ Enclosed(t, q, a[x.sub].from, a[x.sub].to, z)
      BY <2>2, <2>3 DEF Takes
    <3>2. x.sub \in 1..Len(b) /\ b[x.sub].from = a[x.sub].from /\ b[x.sub].to = a[x.sub].to
      BY <3>1 DEF SameNodes
    <3>3. Takes(t, b, q, x, z)
      BY <2>3, <3>1, <3>2 DEF Takes
    <3> QED
      BY <2>1, <3>3
  <2>4. CASE x.sub = 0
    <3>1. Takes(t, b, q, x, z)
      BY <2>2, <2>4 DEF Takes
    <3> QED
      BY <2>1, <3>1
  <2> QED
    BY <2>3, <2>4
<1>4. Path(t, b, items, w)
  BY <1>3 DEF Path
<1> QED
  BY <1>1, <1>2, <1>4 DEF Built

-----------------------------------------------------------------------------
\* The items themselves, and lists of a few of them.
LEMMA WordItem ==
    ASSUME NEW C, C \subseteq Token, NEW k \in Nat
    PROVE  Word(C, k) \in ItemType /\ Word(C, k).sub = 0
BY DEF Word, ItemType

LEMMA BuiltWord ==
    ASSUME NEW t, NEW a, NEW p \in Nat \ {0}, NEW C, C \subseteq Token, NEW k \in Nat,
           k = p \/ k = 0, TokIn(t, p) \in C
    PROVE  Built(t, a, <<Word(C, k)>>, p, p + 1)
<1>1. PICK x, e : x = Word(C, k) /\ e = p + 1
  OBVIOUS
<1>2. x \in ItemType /\ x.sub = 0
  BY <1>1, WordItem
<1>3. x.class = C /\ x.at = k
  BY <1>1 DEF Word
<1>4. Takes(t, a, p, x, e)
  BY <1>1, <1>2, <1>3 DEF Takes, AnyPlace
<1>5. e \in Nat \ {0}
  BY <1>1
<1>6. Built(t, a, <<x>>, p, e)
  BY <1>2, <1>4, <1>5, BuiltOne
<1> QED
  BY <1>1, <1>6

LEMMA BuiltThe ==
    ASSUME NEW t, NEW a, NEW p \in Nat \ {0}, NEW w \in Token, TokIn(t, p) = w
    PROVE  Built(t, a, <<The(w)>>, p, p + 1)
<1>1. PICK C, k : C = {w} /\ k = 0
  OBVIOUS
<1>2. C \subseteq Token /\ k \in Nat /\ TokIn(t, p) \in C
  BY <1>1
<1>3. Built(t, a, <<Word(C, k)>>, p, p + 1)
  BY <1>1, <1>2, BuiltWord
<1>4. Word(C, k) = The(w)
  BY <1>1 DEF The, AnyPlace
<1> QED
  BY <1>3, <1>4

LEMMA SubItem ==
    ASSUME NEW k \in Nat
    PROVE  Sub(k) \in ItemType /\ Sub(k).sub = k
<1>1. {} \in SUBSET Token
  OBVIOUS
<1> QED
  BY <1>1 DEF Sub, ItemType, AnyPlace

LEMMA BuiltSub ==
    ASSUME NEW t, NEW a, NEW p \in Nat \ {0}, NEW e \in Nat \ {0}, NEW k \in 1..Len(a),
           Enclosed(t, p, a[k].from, a[k].to, e)
    PROVE  Built(t, a, <<Sub(k)>>, p, e)
<1>1. PICK x : x = Sub(k)
  OBVIOUS
<1>2. k \in Nat /\ k # 0
  OBVIOUS
<1>3. x \in ItemType /\ x.sub = k
  BY <1>1, <1>2, SubItem
<1>4. Takes(t, a, p, x, e)
  BY <1>2, <1>3 DEF Takes
<1>5. Built(t, a, <<x>>, p, e)
  BY <1>3, <1>4, BuiltOne
<1> QED
  BY <1>1, <1>5

LEMMA JoinTwo ==
    ASSUME NEW S, NEW u \in S, NEW v \in S
    PROVE  <<u>> \o <<v>> = <<u, v>>
<1>1. PICK l, r, b : l = <<u>> /\ r = <<v>> /\ b = <<u, v>>
  OBVIOUS
<1>2. l \in Seq(S) /\ Len(l) = 1
  BY <1>1
<1>3. r \in Seq(S) /\ Len(r) = 1
  BY <1>1
<1>4. b \in Seq(S) /\ Len(b) = 2
  BY <1>1
<1>5. l[1] = u /\ r[1] = v
  BY <1>1
<1>6. b[1] = u /\ b[2] = v
  BY <1>1
<1>7. /\ l \o r \in Seq(S) /\ Len(l \o r) = 2
      /\ \A i \in 1..2 : (l \o r)[i] = IF i <= 1 THEN l[i] ELSE r[i - 1]
  <2>1. /\ l \o r \in Seq(S) /\ Len(l \o r) = Len(l) + Len(r)
        /\ \A i \in 1..Len(l) + Len(r) : (l \o r)[i] = IF i <= Len(l) THEN l[i] ELSE r[i - Len(l)]
    BY <1>2, <1>3, ConcatProperties
  <2>2. Len(l) + Len(r) = 2
    BY <1>2, <1>3
  <2> QED
    BY <1>2, <2>1, <2>2
<1>8. (l \o r)[1] = u /\ (l \o r)[2] = v
  BY <1>5, <1>7
<1>9. \A i \in 1..2 : i = 1 \/ i = 2
  OBVIOUS
<1>10. \A i \in 1..2 : (l \o r)[i] = b[i]
  BY <1>8, <1>9, <1>6
<1>11. l \o r = b
  BY <1>4, <1>7, <1>10, SeqEqual
<1> QED
  BY <1>1, <1>11

LEMMA JoinThree ==
    ASSUME NEW S, NEW u \in S, NEW v \in S, NEW w \in S
    PROVE  <<u, v>> \o <<w>> = <<u, v, w>>
<1>1. PICK l, r, b : l = <<u, v>> /\ r = <<w>> /\ b = <<u, v, w>>
  OBVIOUS
<1>2. l \in Seq(S) /\ Len(l) = 2
  BY <1>1
<1>3. r \in Seq(S) /\ Len(r) = 1
  BY <1>1
<1>4. b \in Seq(S) /\ Len(b) = 3
  BY <1>1
<1>5. l[1] = u /\ l[2] = v /\ r[1] = w
  BY <1>1
<1>6. b[1] = u /\ b[2] = v /\ b[3] = w
  BY <1>1
<1>7. /\ l \o r \in Seq(S) /\ Len(l \o r) = 3
      /\ \A i \in 1..3 : (l \o r)[i] = IF i <= 2 THEN l[i] ELSE r[i - 2]
  <2>1. /\ l \o r \in Seq(S) /\ Len(l \o r) = Len(l) + Len(r)
        /\ \A i \in 1..Len(l) + Len(r) : (l \o r)[i] = IF i <= Len(l) THEN l[i] ELSE r[i - Len(l)]
    BY <1>2, <1>3, ConcatProperties
  <2>2. Len(l) + Len(r) = 3
    BY <1>2, <1>3
  <2> QED
    BY <1>2, <2>1, <2>2
<1>8. (l \o r)[1] = u /\ (l \o r)[2] = v /\ (l \o r)[3] = w
  BY <1>5, <1>7
<1>9. \A i \in 1..3 : i = 1 \/ i = 2 \/ i = 3
  OBVIOUS
<1>10. \A i \in 1..3 : (l \o r)[i] = b[i]
  BY <1>8, <1>9, <1>6
<1>11. l \o r = b
  BY <1>4, <1>7, <1>10, SeqEqual
<1> QED
  BY <1>1, <1>11

LEMMA JoinFive ==
    ASSUME NEW S, NEW u \in S, NEW v \in S, NEW w \in S, NEW x \in S, NEW y \in S
    PROVE  <<u, v, w>> \o <<x, y>> = <<u, v, w, x, y>>
<1>1. PICK l, r, b : l = <<u, v, w>> /\ r = <<x, y>> /\ b = <<u, v, w, x, y>>
  OBVIOUS
<1>2. l \in Seq(S) /\ Len(l) = 3
  BY <1>1
<1>3. r \in Seq(S) /\ Len(r) = 2
  BY <1>1
<1>4. b \in Seq(S) /\ Len(b) = 5
  BY <1>1
<1>5. l[1] = u /\ l[2] = v /\ l[3] = w /\ r[1] = x /\ r[2] = y
  BY <1>1
<1>6. b[1] = u /\ b[2] = v /\ b[3] = w /\ b[4] = x /\ b[5] = y
  BY <1>1
<1>7. /\ l \o r \in Seq(S) /\ Len(l \o r) = 5
      /\ \A i \in 1..5 : (l \o r)[i] = IF i <= 3 THEN l[i] ELSE r[i - 3]
  <2>1. /\ l \o r \in Seq(S) /\ Len(l \o r) = Len(l) + Len(r)
        /\ \A i \in 1..Len(l) + Len(r) : (l \o r)[i] = IF i <= Len(l) THEN l[i] ELSE r[i - Len(l)]
    BY <1>2, <1>3, ConcatProperties
  <2>2. Len(l) + Len(r) = 5
    BY <1>2, <1>3
  <2> QED
    BY <1>2, <2>1, <2>2
<1>8. (l \o r)[1] = u /\ (l \o r)[2] = v /\ (l \o r)[3] = w /\ (l \o r)[4] = x /\ (l \o r)[5] = y
  BY <1>5, <1>7
<1>9. \A i \in 1..5 : i = 1 \/ i = 2 \/ i = 3 \/ i = 4 \/ i = 5
  OBVIOUS
<1>10. \A i \in 1..5 : (l \o r)[i] = b[i]
  BY <1>8, <1>9, <1>6
<1>11. l \o r = b
  BY <1>4, <1>7, <1>10, SeqEqual
<1> QED
  BY <1>1, <1>11

LEMMA JoinSix ==
    ASSUME NEW S, NEW u \in S, NEW v \in S, NEW w \in S, NEW x \in S, NEW y \in S, NEW z \in S
    PROVE  <<u, v, w, x, y>> \o <<z>> = <<u, v, w, x, y, z>>
<1>1. PICK l, r, b : l = <<u, v, w, x, y>> /\ r = <<z>> /\ b = <<u, v, w, x, y, z>>
  OBVIOUS
<1>2. l \in Seq(S) /\ Len(l) = 5
  BY <1>1
<1>3. r \in Seq(S) /\ Len(r) = 1
  BY <1>1
<1>4. b \in Seq(S) /\ Len(b) = 6
  BY <1>1
<1>5. l[1] = u /\ l[2] = v /\ l[3] = w /\ l[4] = x /\ l[5] = y /\ r[1] = z
  BY <1>1
<1>6. b[1] = u /\ b[2] = v /\ b[3] = w /\ b[4] = x /\ b[5] = y /\ b[6] = z
  BY <1>1
<1>7. /\ l \o r \in Seq(S) /\ Len(l \o r) = 6
      /\ \A i \in 1..6 : (l \o r)[i] = IF i <= 5 THEN l[i] ELSE r[i - 5]
  <2>1. /\ l \o r \in Seq(S) /\ Len(l \o r) = Len(l) + Len(r)
        /\ \A i \in 1..Len(l) + Len(r) : (l \o r)[i] = IF i <= Len(l) THEN l[i] ELSE r[i - Len(l)]
    BY <1>2, <1>3, ConcatProperties
  <2>2. Len(l) + Len(r) = 6
    BY <1>2, <1>3
  <2> QED
    BY <1>2, <2>1, <2>2
<1>8. (l \o r)[1] = u /\ (l \o r)[2] = v /\ (l \o r)[3] = w /\ (l \o r)[4] = x /\ (l \o r)[5] = y /\ (l \o r)[6] = z
  BY <1>5, <1>7
<1>9. \A i \in 1..6 : i = 1 \/ i = 2 \/ i = 3 \/ i = 4 \/ i = 5 \/ i = 6
  OBVIOUS
<1>10. \A i \in 1..6 : (l \o r)[i] = b[i]
  BY <1>8, <1>9, <1>6
<1>11. l \o r = b
  BY <1>4, <1>7, <1>10, SeqEqual
<1> QED
  BY <1>1, <1>11

-----------------------------------------------------------------------------
\* The arguments of a call, each with the comma behind it.
Comma == The(",")
Separate(kids) == [i \in 1..2 * Len(kids) |-> IF i % 2 = 1 THEN Sub(kids[(i + 1) \div 2]) ELSE Comma]

LEMMA Halve ==
    ASSUME NEW i \in Nat
    PROVE  /\ i % 2 \in {0, 1} /\ i \div 2 \in Nat /\ i = 2 * (i \div 2) + (i % 2)
           /\ (i + 1) % 2 = 1 - (i % 2) /\ (i + 1) \div 2 = (i \div 2) + (i % 2)
OBVIOUS

LEMMA SeparateIs ==
    ASSUME NEW kids \in Seq(Nat)
    PROVE  /\ Separate(kids) \in Seq(ItemType) /\ Len(Separate(kids)) = 2 * Len(kids)
           /\ Len(kids) \in Nat
           /\ \A i \in 1..2 * Len(kids) : Separate(kids)[i] =
                IF i % 2 = 1 THEN Sub(kids[(i + 1) \div 2]) ELSE Comma
<1>1. PICK n : n = Len(kids)
  OBVIOUS
<1>2. n \in Nat
  BY <1>1
<1>3. "," \in Token
  BY CharAssumption DEF Token
<1>4. Comma \in ItemType
  <2>1. PICK C : C = {","}
    OBVIOUS
  <2>2. C \subseteq Token
    BY <1>3, <2>1
  <2>3. Word(C, 0) \in ItemType
    BY <2>2, WordItem
  <2> QED
    BY <2>1, <2>3 DEF The, AnyPlace, Comma
<1>5. ASSUME NEW i \in 1..2 * n, i % 2 = 1 PROVE Sub(kids[(i + 1) \div 2]) \in ItemType
  <2>1. i \in Nat
    BY <1>2
  <2>2. i \div 2 \in Nat /\ i = 2 * (i \div 2) + 1 /\ (i + 1) \div 2 = (i \div 2) + 1
    BY <1>5, <2>1, Halve
  <2>3. (i + 1) \div 2 \in 1..n
    BY <1>2, <2>2
  <2>4. kids[(i + 1) \div 2] \in Nat
    BY <1>1, <2>3, ElementOfSeq
  <2> QED
    BY <2>4, SubItem
<1>6. PICK s : s = [i \in 1..2 * n |-> IF i % 2 = 1 THEN Sub(kids[(i + 1) \div 2]) ELSE Comma]
  OBVIOUS
<1>7. \A i \in 1..2 * n : s[i] = IF i % 2 = 1 THEN Sub(kids[(i + 1) \div 2]) ELSE Comma
  BY <1>6
<1>8. \A i \in 1..2 * n : s[i] \in ItemType
  BY <1>4, <1>5, <1>7
<1>9. s \in Seq(ItemType) /\ Len(s) = 2 * n
  <2>1. 2 * n \in Nat
    BY <1>2
  <2>2. PICK m \in Nat : m = 2 * n
    BY <2>1
  <2>3. s \in [1..m -> ItemType]
    BY <1>6, <1>8, <2>2
  <2> QED
    BY <2>2, <2>3
<1>10. Separate(kids) = s
  BY <1>1, <1>6 DEF Separate
<1> QED
  BY <1>1, <1>2, <1>7, <1>9, <1>10

LEMMA PairFacts ==
    ASSUME NEW S, NEW x \in S, NEW y \in S
    PROVE  <<x, y>> \in Seq(S) /\ Len(<<x, y>>) = 2 /\ <<x, y>>[1] = x /\ <<x, y>>[2] = y
OBVIOUS

LEMMA OneFacts ==
    ASSUME NEW S, NEW x \in S
    PROVE  <<x>> \in Seq(S) /\ Len(<<x>>) = 1 /\ <<x>>[1] = x
OBVIOUS

\* With an argument more, and what the rule of a call has of them.
LEMMA SeparateMore ==
    ASSUME NEW kids \in Seq(Nat), NEW k \in Nat
    PROVE  Separate(Append(kids, k)) = Separate(kids) \o <<Sub(k), Comma>>
<1>1. PICK ks, n : ks = Append(kids, k) /\ n = Len(kids)
  OBVIOUS
<1>2. ks \in Seq(Nat) /\ Len(ks) = n + 1 /\ n \in Nat /\ (\A i \in 1..n : ks[i] = kids[i]) /\ ks[n + 1] = k
  BY <1>1, PushFacts
<1>3. PICK s, u : s = Separate(kids) /\ u = Separate(ks)
  OBVIOUS
<1>4. /\ s \in Seq(ItemType) /\ Len(s) = 2 * n
      /\ \A i \in 1..2 * n : s[i] = IF i % 2 = 1 THEN Sub(kids[(i + 1) \div 2]) ELSE Comma
  BY <1>1, <1>3, SeparateIs
<1>5. u \in Seq(ItemType) /\ Len(u) = 2 * (n + 1)
  BY <1>2, <1>3, SeparateIs
<1>18. Len(u) = 2 * n + 2
  BY <1>2, <1>5
<1>19. ASSUME NEW i \in 1..2 * n + 2
       PROVE  u[i] = IF i % 2 = 1 THEN Sub(ks[(i + 1) \div 2]) ELSE Comma
  <2>1. i \in 1..2 * Len(ks)
    BY <1>2
  <2> QED
    BY <1>2, <1>3, <2>1, SeparateIs
<1>6. PICK x, y, d : x = Sub(k) /\ y = Comma /\ d = <<x, y>>
  OBVIOUS
<1>7. 2 * n \in Nat /\ (2 * n) % 2 = 0 /\ (2 * n) \div 2 = n
  BY <1>2
<1>8. (2 * n + 1) % 2 = 1 /\ (2 * n + 1) \div 2 = n /\ (2 * n + 2) % 2 = 0 /\ (2 * n + 2) \div 2 = n + 1
  BY <1>2
<1>9. u[2 * n + 1] = x /\ u[2 * n + 2] = y
  <2>1. PICK i, j : i = 2 * n + 1 /\ j = 2 * n + 2
    OBVIOUS
  <2>2. i \in 1..2 * n + 2 /\ j \in 1..2 * n + 2 /\ i + 1 = j
    BY <1>2, <2>1
  <2>3. i % 2 = 1 /\ j \div 2 = n + 1 /\ j % 2 = 0
    BY <1>8, <2>1
  <2>4. u[i] = Sub(ks[j \div 2]) /\ u[j] = Comma
    BY <1>19, <2>2, <2>3
  <2> QED
    BY <1>2, <1>6, <2>1, <2>3, <2>4
<1>10. ASSUME NEW i \in 1..2 * n PROVE u[i] = s[i]
  <2>1. i \in Nat /\ i \in 1..2 * n + 2
    BY <1>2
  <2>2. ASSUME i % 2 = 1 PROVE kids[(i + 1) \div 2] = ks[(i + 1) \div 2]
    <3>1. i \div 2 \in Nat /\ i = 2 * (i \div 2) + 1 /\ (i + 1) \div 2 = (i \div 2) + 1
      BY <2>1, <2>2, Halve
    <3>2. (i + 1) \div 2 \in 1..n
      BY <1>2, <3>1
    <3> QED
      BY <1>2, <3>2
  <2> QED
    BY <1>4, <1>19, <2>1, <2>2
<1>11. y \in ItemType /\ x \in ItemType
  <2>1. 2 * n + 2 \in 1..Len(u)
    BY <1>2, <1>18
  <2>2. u[2 * n + 2] \in ItemType
    BY <1>5, <2>1, ElementOfSeq
  <2> QED
    BY <1>6, <1>9, <2>2, SubItem
<1>12. d \in Seq(ItemType) /\ Len(d) = 2 /\ d[1] = x /\ d[2] = y
  BY <1>6, <1>11, PairFacts
<1>13. PICK v : v = s \o d
  OBVIOUS
<1>14. /\ v \in Seq(ItemType) /\ Len(v) = 2 * n + 2
       /\ \A i \in 1..2 * n + 2 : v[i] = IF i <= 2 * n THEN s[i] ELSE d[i - 2 * n]
  <2>1. /\ v \in Seq(ItemType) /\ Len(v) = Len(s) + Len(d)
        /\ \A i \in 1..Len(s) + Len(d) : v[i] = IF i <= Len(s) THEN s[i] ELSE d[i - Len(s)]
    BY <1>4, <1>12, <1>13, ConcatProperties
  <2> QED
    BY <1>4, <1>12, <2>1
<1>15. ASSUME NEW i \in 1..Len(u) PROVE u[i] = v[i]
  <2>1. i \in 1..2 * n + 2 /\ i \in Nat
    BY <1>2, <1>18
  <2>2. CASE i <= 2 * n
    BY <1>10, <1>14, <2>1, <2>2
  <2>3. CASE i = 2 * n + 1
    <3>1. ~(i <= 2 * n) /\ i - 2 * n = 1
      BY <1>2, <2>3
    <3>2. v[i] = d[i - 2 * n]
      BY <1>14, <2>1, <3>1
    <3> QED
      BY <1>9, <1>12, <2>3, <3>1, <3>2
  <2>4. CASE i = 2 * n + 2
    <3>1. ~(i <= 2 * n) /\ i - 2 * n = 2
      BY <1>2, <2>4
    <3>2. v[i] = d[i - 2 * n]
      BY <1>14, <2>1, <3>1
    <3> QED
      BY <1>9, <1>12, <2>4, <3>1, <3>2
  <2>5. i <= 2 * n \/ i = 2 * n + 1 \/ i = 2 * n + 2
    BY <1>2, <2>1
  <2> QED
    BY <2>2, <2>3, <2>4, <2>5
<1>16. Len(u) = Len(v)
  BY <1>14, <1>18
<1>17. u = v
  BY <1>5, <1>14, <1>15, <1>16, SeqEqual
<1> QED
  BY <1>1, <1>3, <1>6, <1>13, <1>17

LEMMA SeparateNone == Separate(<<>>) = <<>>
<1>1. PICK e : e = <<>>
  OBVIOUS
<1>2. e \in Seq(Nat) /\ Len(e) = 0
  BY <1>1
<1>3. Separate(e) \in Seq(ItemType) /\ Len(Separate(e)) = 2 * Len(e)
  BY <1>2, SeparateIs
<1>5. Len(Separate(e)) = 0
  BY <1>2, <1>3
<1>4. Separate(e) = <<>>
  BY <1>3, <1>5, EmptySeq
<1> QED
  BY <1>1, <1>4

Listed(ks) == Tail([i \in 1..2 * Len(ks) |-> IF i % 2 = 0 THEN Sub(ks[i \div 2]) ELSE Comma])

LEMMA SeparateRule ==
    ASSUME NEW kids \in Seq(Nat), NEW k \in Nat
    PROVE  Listed(Append(kids, k)) = Separate(kids) \o <<Sub(k)>>
<1>1. PICK ks, n : ks = Append(kids, k) /\ n = Len(kids)
  OBVIOUS
<1>2. ks \in Seq(Nat) /\ Len(ks) = n + 1 /\ n \in Nat /\ (\A i \in 1..n : ks[i] = kids[i]) /\ ks[n + 1] = k
  BY <1>1, PushFacts
<1>3. PICK s, x, d : s = Separate(kids) /\ x = Sub(k) /\ d = <<x>>
  OBVIOUS
<1>4. /\ s \in Seq(ItemType) /\ Len(s) = 2 * n
      /\ \A i \in 1..2 * n : s[i] = IF i % 2 = 1 THEN Sub(kids[(i + 1) \div 2]) ELSE Comma
  BY <1>1, <1>3, SeparateIs
<1>5. PICK m \in Nat : m = 2 * (n + 1)
  BY <1>2
<1>6. PICK f : f = [i \in 1..m |-> IF i % 2 = 0 THEN Sub(ks[i \div 2]) ELSE Comma]
  OBVIOUS
<1>7. \A i \in 1..m : f[i] = IF i % 2 = 0 THEN Sub(ks[i \div 2]) ELSE Comma
  BY <1>6
<1>8. d \in Seq(ItemType) /\ Len(d) = 1 /\ d[1] = x
  BY <1>3, SubItem, OneFacts
<1>9. PICK v : v = s \o d
  OBVIOUS
<1>10. /\ v \in Seq(ItemType) /\ Len(v) = 2 * n + 1
       /\ \A i \in 1..2 * n + 1 : v[i] = IF i <= 2 * n THEN s[i] ELSE d[i - 2 * n]
  <2>1. /\ v \in Seq(ItemType) /\ Len(v) = Len(s) + Len(d)
        /\ \A i \in 1..Len(s) + Len(d) : v[i] = IF i <= Len(s) THEN s[i] ELSE d[i - Len(s)]
    BY <1>4, <1>8, <1>9, ConcatProperties
  <2> QED
    BY <1>4, <1>8, <2>1
<1>11. ASSUME NEW i \in 1..2 * n + 1 PROVE f[i + 1] = v[i]
  <2>1. i \in Nat /\ i + 1 \in 1..m
    BY <1>2, <1>5
  <2>2. /\ f[i + 1] = IF (i + 1) % 2 = 0 THEN Sub(ks[(i + 1) \div 2]) ELSE Comma
    BY <1>7, <2>1
  <2>3. /\ i % 2 \in {0, 1} /\ i \div 2 \in Nat /\ i = 2 * (i \div 2) + (i % 2)
        /\ (i + 1) % 2 = 1 - (i % 2) /\ (i + 1) \div 2 = (i \div 2) + (i % 2)
    BY <2>1, Halve
  <2>4. CASE i <= 2 * n
    <3>1. v[i] = s[i] /\ i \in 1..2 * n
      BY <1>2, <1>10, <2>1, <2>4
    <3>2. s[i] = IF i % 2 = 1 THEN Sub(kids[(i + 1) \div 2]) ELSE Comma
      BY <1>4, <3>1
    <3>3. CASE i % 2 = 1
      <4>1. (i + 1) \div 2 \in 1..n /\ (i + 1) % 2 = 0
        BY <1>2, <2>3, <2>4, <3>3
      <4>2. ks[(i + 1) \div 2] = kids[(i + 1) \div 2]
        BY <1>2, <4>1
      <4> QED
        BY <2>2, <3>1, <3>2, <3>3, <4>1, <4>2
    <3>4. CASE i % 2 = 0
      <4>1. (i + 1) % 2 = 1
        BY <2>3, <3>4
      <4>2. f[i + 1] = Comma
        BY <2>2, <4>1
      <4>3. s[i] = Comma
        BY <3>2, <3>4
      <4> QED
        BY <3>1, <4>2, <4>3
    <3> QED
      BY <2>3, <3>3, <3>4
  <2>5. CASE ~(i <= 2 * n)
    <3>1. i = 2 * n + 1 /\ i - 2 * n = 1
      BY <1>2, <2>1, <2>5
    <3>2. i % 2 = 1 /\ (i + 1) \div 2 = n + 1 /\ (i + 1) % 2 = 0
      BY <1>2, <2>3, <3>1
    <3>3. v[i] = d[i - 2 * n]
      BY <1>10, <2>5
    <3> QED
      BY <1>2, <1>3, <1>8, <2>2, <3>1, <3>2, <3>3
  <2> QED
    BY <2>4, <2>5
<1>12. PICK T : T = {f[i] : i \in 1..m}
  OBVIOUS
<1>18. f \in [1..m -> T] /\ m # 0
  BY <1>2, <1>5, <1>6, <1>12
<1>13. f \in Seq(T) /\ Len(f) = m
  BY <1>18
<1>14. f # <<>>
  BY <1>13, <1>18, EmptySeq
<1>15. Tail(f) \in Seq(T) /\ Len(Tail(f)) = m - 1 /\ \A i \in 1..Len(Tail(f)) : Tail(f)[i] = f[i + 1]
  BY <1>13, <1>14, HeadTailProperties
<1>19. Tail(f) = [i \in 1..m - 1 |-> Tail(f)[i]]
  BY <1>15, LenProperties
<1>20. v = [i \in 1..2 * n + 1 |-> v[i]]
  BY <1>10, LenProperties
<1>21. m - 1 = 2 * n + 1
  BY <1>2, <1>5
<1>16. Tail(f) = v
  BY <1>11, <1>15, <1>19, <1>20, <1>21
<1>17. Listed(ks) = Tail(f)
  BY <1>2, <1>5, <1>6, Zenon DEF Listed
<1> QED
  BY <1>1, <1>3, <1>9, <1>16, <1>17
-----------------------------------------------------------------------------
\* The variables of a `var`: the recursive definition of the grammar has a value, the
\* first item is its beginning, and a name more is one item more.
Upto(it, c, n, f) == f = [i \in 1..n |-> IF i = 1 THEN it[1] ELSE f[i - 1] \o c \o it[i]]

LEMMA UptoExists ==
    ASSUME NEW it, NEW c, NEW n \in Nat
    PROVE  \E f : Upto(it, c, n, f)
<1> DEFINE D == {k \in Nat : ~ \E f : Upto(it, c, k, f)}
<1>1. SUFFICES ASSUME D # {} PROVE FALSE
  OBVIOUS
<1>2. PICK m \in D : \A k \in D : m <= k
  BY <1>1, LeastExists
<1>3. m \in Nat /\ ~ \E f : Upto(it, c, m, f)
  OBVIOUS
<1>4. CASE m = 0
  <2>1. PICK f : f = [i \in 1..0 |-> 0]
    OBVIOUS
  <2>2. Upto(it, c, 0, f)
    BY <2>1 DEF Upto
  <2> QED
    BY <1>3, <1>4, <2>2
<1>5. CASE m # 0
  <2>1. m - 1 \in Nat /\ ~ (m <= m - 1)
    BY <1>3, <1>5
  <2>2. m - 1 \notin D
    BY <1>2, <2>1
  <2>3. PICK f : Upto(it, c, m - 1, f)
    BY <2>1, <2>2
  <2>4. \A i \in 1..m - 1 : f[i] = IF i = 1 THEN it[1] ELSE f[i - 1] \o c \o it[i]
    BY <2>3 DEF Upto
  <2>5. PICK g : g = [i \in 1..m |-> IF i = m /\ m # 1 THEN f[m - 1] \o c \o it[m]
                                     ELSE IF i = 1 THEN it[1] ELSE f[i]]
    OBVIOUS
  <2>6. \A i \in 1..m : g[i] = IF i = m /\ m # 1 THEN f[m - 1] \o c \o it[m]
                               ELSE IF i = 1 THEN it[1] ELSE f[i]
    BY <2>5
  <2>7. \A i \in 1..m - 1 : g[i] = f[i]
    <3>1. ASSUME NEW i \in 1..m - 1 PROVE g[i] = f[i]
      <4>1. i \in 1..m /\ i # m /\ (i = 1 => i \in 1..m - 1)
        BY <2>1
      <4> QED
        BY <2>4, <2>6, <4>1
    <3> QED
      BY <3>1
  <2>8. ASSUME NEW i \in 1..m
        PROVE  g[i] = IF i = 1 THEN it[1] ELSE g[i - 1] \o c \o it[i]
    <3>1. CASE i = 1
      BY <1>3, <2>6, <3>1
    <3>2. CASE i # 1 /\ i = m
      <4>1. m - 1 \in 1..m - 1
        BY <1>3, <3>2
      <4>2. g[m - 1] = f[m - 1]
        BY <2>7, <4>1
      <4> QED
        BY <2>6, <3>2, <4>2
    <3>3. CASE i # 1 /\ i # m
      <4>1. i \in 1..m - 1 /\ i - 1 \in 1..m - 1
        BY <1>3, <3>3
      <4>2. g[i] = f[i] /\ g[i - 1] = f[i - 1]
        BY <2>7, <4>1
      <4> QED
        BY <2>4, <3>3, <4>1, <4>2
    <3> QED
      BY <3>1, <3>2, <3>3
  <2>9. g = [i \in 1..m |-> IF i = 1 THEN it[1] ELSE g[i - 1] \o c \o it[i]]
    BY <2>5, <2>8
  <2>10. Upto(it, c, m, g)
    BY <2>9 DEF Upto
  <2> QED
    BY <1>3, <2>10
<1> QED
  BY <1>4, <1>5

ItemOf(n, i) == <<Word(Ident, n.names[i])>> \o Optional("=", n.kids[i])
Items(n) == [i \in 1..Len(n.names) |-> ItemOf(n, i)]

ItemsUpto(n, m, f) == \A i \in 1..m :
    f[i] = IF i = 1 THEN ItemOf(n, 1) ELSE f[i - 1] \o <<Comma>> \o ItemOf(n, i)

LEMMA VarItemsIs ==
    ASSUME NEW n, Len(n.names) \in Nat
    PROVE  \E f : VarItems(n) = f[Len(n.names)] /\ ItemsUpto(n, Len(n.names), f)
<1> DEFINE Eq(f) == f = [i \in 1..Len(n.names) |->
                IF i = 1 THEN ItemOf(n, 1) ELSE f[i - 1] \o <<Comma>> \o ItemOf(n, i)]
           r == CHOOSE f : Eq(f)
<1>1. PICK it, c : it = Items(n) /\ c = <<Comma>>
  OBVIOUS
<1>2. PICK g : Upto(it, c, Len(n.names), g)
  BY UptoExists
<1>3. \A i \in 1..Len(n.names) : it[i] = ItemOf(n, i)
  BY <1>1 DEF Items
<1>4. \A i \in 1..Len(n.names) : i = 1 => 1 \in 1..Len(n.names)
  OBVIOUS
<1>5. Eq(g)
  BY <1>1, <1>2, <1>3, <1>4 DEF Upto
<1>6. Eq(r)
  BY <1>5, Zenon
<1>7. \A i \in 1..Len(n.names) :
        r[i] = IF i = 1 THEN ItemOf(n, 1) ELSE r[i - 1] \o <<Comma>> \o ItemOf(n, i)
  BY <1>6
<1>8. VarItems(n) = r[Len(n.names)]
  BY DEF VarItems, ItemOf, Comma
<1> QED
  BY <1>7, <1>8 DEF ItemsUpto

LEMMA VarItemsSame ==
    ASSUME NEW f, NEW g, NEW m \in Nat \ {0}, Len(g.names) = m, Len(f.names) \in {m, m + 1},
           \A i \in 1..m : f.names[i] = g.names[i] /\ f.kids[i] = g.kids[i]
    PROVE  VarItems(f) = IF Len(f.names) = m THEN VarItems(g)
                         ELSE VarItems(g) \o <<Comma>> \o ItemOf(f, m + 1)
<1>1. Len(f.names) \in Nat /\ Len(g.names) \in Nat
  OBVIOUS
<1>2. PICK u : VarItems(g) = u[m] /\ ItemsUpto(g, m, u)
  BY <1>1, VarItemsIs
<1>14. \A i \in 1..m : u[i] = IF i = 1 THEN ItemOf(g, 1) ELSE u[i - 1] \o <<Comma>> \o ItemOf(g, i)
  BY <1>2 DEF ItemsUpto
<1>15. PICK v : VarItems(f) = v[Len(f.names)] /\ ItemsUpto(f, Len(f.names), v)
  BY <1>1, VarItemsIs
<1>3. \A i \in 1..Len(f.names) :
        v[i] = IF i = 1 THEN ItemOf(f, 1) ELSE v[i - 1] \o <<Comma>> \o ItemOf(f, i)
  BY <1>15 DEF ItemsUpto
<1>4. \A i \in 1..m : ItemOf(f, i) = ItemOf(g, i)
  BY DEF ItemOf
<1>5. \A i \in 1..m : i \in 1..Len(f.names)
  OBVIOUS
<1>6. 1 \in 1..m
  OBVIOUS
<1>7. v[1] = u[1]
  BY <1>3, <1>4, <1>5, <1>6, <1>14
<1>8. ASSUME NEW i \in 2..m, v[i - 1] = u[i - 1] PROVE v[i] = u[i]
  <2>1. i \in 1..m /\ i # 1
    OBVIOUS
  <2>2. v[i] = v[i - 1] \o <<Comma>> \o ItemOf(f, i)
    BY <1>3, <1>5, <2>1
  <2>3. u[i] = u[i - 1] \o <<Comma>> \o ItemOf(g, i)
    BY <1>14, <2>1
  <2> QED
    BY <1>4, <1>8, <2>1, <2>2, <2>3
<1>9. InStep(1, m, v, u)
  <2>1. 1 + 1 = 2
    OBVIOUS
  <2> QED
    BY <1>7, <1>8, <2>1 DEF InStep
<1>10. \A i \in 1..m : v[i] = u[i]
  BY <1>9, SameSteps
<1>11. v[m] = u[m]
  BY <1>10
<1>12. CASE Len(f.names) = m
  BY <1>2, <1>11, <1>12, <1>15
<1>13. CASE Len(f.names) # m
  <2>1. PICK n : n = m + 1
    OBVIOUS
  <2>4. Len(f.names) = n /\ n \in 1..n /\ n # 1 /\ n - 1 = m
    BY <1>13, <2>1
  <2>2. VarItems(f) = v[n]
    BY <1>15, <2>4
  <2>3. v[n] = v[n - 1] \o <<Comma>> \o ItemOf(f, n)
    BY <1>3, <2>4
  <2> QED
    BY <1>2, <1>11, <1>13, <2>1, <2>2, <2>3, <2>4
<1> QED
  BY <1>12, <1>13

LEMMA VarItemsOne ==
    ASSUME NEW f, Len(f.names) = 1
    PROVE  VarItems(f) = ItemOf(f, 1)
<1>1. Len(f.names) \in Nat /\ 1 \in 1..Len(f.names)
  OBVIOUS
<1>2. PICK u : VarItems(f) = u[Len(f.names)] /\ ItemsUpto(f, Len(f.names), u)
  BY <1>1, VarItemsIs
<1>3. u[1] = ItemOf(f, 1)
  BY <1>1, <1>2 DEF ItemsUpto
<1> QED
  BY <1>2, <1>3

\* The list of a `var` that has been read up to q, where a name comes next.
NameNext(t, a, f, q) ==
    /\ TokIn(t, f.at) = "var" /\ Len(f.kids) = Len(f.names)
    /\ f.names = <<>> => q = f.at + 1
    /\ f.names # <<>> => Built(t, a, VarItems(f) \o <<Comma>>, f.at + 1, q)

LEMMA ListGoesOn ==
    ASSUME NEW t, NEW a, NEW g, NEW f, NEW q, NEW k, NEW e, g.names \in Seq(Nat), g.kids \in Seq(Nat),
           q \in Nat, k \in Nat, f.names = Append(g.names, q), f.kids = Append(g.kids, k),
           f.at = g.at, NameNext(t, a, g, q), Built(t, a, <<Word(Ident, q)>> \o Optional("=", k), q, e)
    PROVE  /\ TokIn(t, f.at) = "var" /\ Len(f.kids) = Len(f.names) /\ f.names # <<>>
           /\ Built(t, a, VarItems(f), f.at + 1, e)
<1>1. PICK m : m = Len(g.names)
  OBVIOUS
<1>2. /\ Len(f.names) = m + 1 /\ m \in Nat /\ f.names # <<>>
      /\ \A i \in 1..m : f.names[i] = g.names[i]
      /\ f.names[m + 1] = q
  BY <1>1, PushFacts
<1>3. /\ Len(f.kids) = m + 1
      /\ \A i \in 1..m : f.kids[i] = g.kids[i]
      /\ f.kids[m + 1] = k
  <2>1. Len(g.kids) = m
    BY <1>1 DEF NameNext
  <2> QED
    BY <2>1, PushFacts
<1>4. ItemOf(f, m + 1) = <<Word(Ident, q)>> \o Optional("=", k)
  BY <1>2, <1>3 DEF ItemOf
<1>5. TokIn(t, f.at) = "var"
  BY DEF NameNext
<1>6. CASE g.names = <<>>
  <2>1. m = 0
    BY <1>1, <1>6
  <2>6. Len(f.names) = 1
    BY <1>2, <2>1
  <2>2. VarItems(f) = ItemOf(f, 1)
    BY <2>6, VarItemsOne
  <2>3. q = f.at + 1
    BY <1>6 DEF NameNext
  <2>4. m + 1 = 1
    BY <2>1
  <2>5. Built(t, a, VarItems(f), f.at + 1, e)
    BY <1>4, <2>2, <2>3, <2>4
  <2> QED
    BY <1>2, <1>3, <1>5, <2>5
<1>7. CASE g.names # <<>>
  <2>1. m \in Nat \ {0}
    BY <1>1, <1>7, EmptySeq
  <2>2. Len(f.names) # m
    BY <1>2
  <2>3. VarItems(f) = VarItems(g) \o <<Comma>> \o ItemOf(f, m + 1)
    <3>1. Len(g.names) = m /\ Len(f.names) \in {m, m + 1}
      BY <1>1, <1>2
    <3>2. \A i \in 1..m : f.names[i] = g.names[i] /\ f.kids[i] = g.kids[i]
      BY <1>2, <1>3
    <3>3. VarItems(f) = IF Len(f.names) = m THEN VarItems(g)
                        ELSE VarItems(g) \o <<Comma>> \o ItemOf(f, m + 1)
      BY <2>1, <3>1, <3>2, VarItemsSame
    <3> QED
      BY <2>2, <3>3, Zenon
  <2>4. Built(t, a, VarItems(g) \o <<Comma>>, f.at + 1, q)
    BY <1>7 DEF NameNext
  <2>5. Built(t, a, (VarItems(g) \o <<Comma>>) \o ItemOf(f, m + 1), f.at + 1, e)
    BY <1>4, <2>4, BuiltJoin
  <2> QED
    BY <1>2, <1>3, <1>5, <2>3, <2>5
<1> QED
  BY <1>6, <1>7
-----------------------------------------------------------------------------
\* A node is spelled by the tokens it was built from; a variable is one token, its name.
Made(n) ==
    /\ n.kind = "variable" => n.names = <<n.at>> /\ n.from = n.at /\ n.to = n.at
    /\ IF n.kind = "assign"
       THEN /\ n.names[1] \in Nat /\ TokIn(text, n.names[1]) \in Ident
            /\ Enclosed(text, n.from, n.names[1], n.names[1], n.at)
            /\ Built(text, ast, <<The("="), Sub(n.kids[1])>>, n.at, n.to + 1)
       ELSE Built(text, ast, Rule(n), n.from, n.to + 1)
TreeMade == \A i \in 1..Len(ast) : \A n \in {ast[i]} : Made(n)

\* The operand a parseBinOpRHS holds ends before q.
Holds(t, a, f, q) == Enclosed(t, f.at, a[f.kids[1]].from, a[f.kids[1]].to, q)

\* What a function has taken of the tokens between its beginning and q, where the part
\* it waits for begins.
ThenPart(f)   == <<Word({"if"}, f.at), Sub(f.kids[1]), The("then")>>
ElsePart(f)   == <<Word({"if"}, f.at), Sub(f.kids[1]), The("then"), Sub(f.kids[2]), The("else")>>
ForHead(f)    == <<Word({"for"}, f.at), Word(Ident, f.names[1]), The("=")>>
ForStart(f)   == <<Word({"for"}, f.at), Word(Ident, f.names[1]), The("="), Sub(f.kids[1]), Comma>>
ForEnd(f)     == <<Word({"for"}, f.at), Word(Ident, f.names[1]), The("="), Sub(f.kids[1]), Comma,
                   Sub(f.kids[2])>>
ForStep(f)    == ForEnd(f) \o IF f.kids[3] = 0 THEN <<>> ELSE <<Comma, Sub(f.kids[3])>>
CallParts(f)  == <<Word(Ident, f.at), The("(")>> \o Separate(f.kids)
VarParts(f)   == <<Word({"var"}, f.at)>> \o VarItems(f)

IfBegun(t, a, f, q) ==
    /\ Len(f.kids) <= 2
    /\ Len(f.kids) = 0 => Built(t, a, <<Word({"if"}, f.at)>>, f.at, q)
    /\ Len(f.kids) = 1 => Built(t, a, ThenPart(f), f.at, q)
    /\ Len(f.kids) = 2 => Built(t, a, ElsePart(f), f.at, q)
IsComma(t, p) == TokIn(t, p) = ","
ForBegun(t, a, f, q) ==
    /\ Len(f.kids) = 0 => Built(t, a, ForHead(f), f.at, q)
    /\ Len(f.kids) = 1 => Built(t, a, ForStart(f), f.at, q)
    /\ Len(f.kids) = 2 => Built(t, a, ForEnd(f), f.at, q - 1) /\ IsComma(t, q - 1)
    /\ Len(f.kids) = 3 => Built(t, a, ForStep(f), f.at, q - 1) /\ TokIn(t, q - 1) = "in"

LastName(f) == f.names[Len(f.names)]
Unnamed(f)  == [f EXCEPT !.names = AllButLast(@)]
VarBegun(t, a, f, q) ==
    /\ f.names # <<>> /\ NameNext(t, a, Unnamed(f), LastName(f))
    /\ TokIn(t, LastName(f)) \in Ident /\ TokIn(t, LastName(f) + 1) = "=" /\ q = LastName(f) + 2
BodyBegun(t, a, f, q) ==
    /\ Len(f.kids) = Len(f.names) /\ f.names # <<>>
    /\ Built(t, a, VarParts(f), f.at, q - 1) /\ TokIn(t, q - 1) = "in"
DefBegun(t, a, f, q) == a[1].kind # "anonproto" /\ Built(t, a, <<Word({"def"}, f.at), Sub(1)>>, f.at, q)

Begun(t, a, f, q) ==
    /\ f.fn # "rhs"
    /\ f.fn \in {"expr", "top"} => q = f.at
    /\ f.fn = "unary" => TokIn(t, f.at) \in Char \ {"(", ","} /\ q = f.at + 1
    /\ f.fn = "paren" => TokIn(t, f.at) = "(" /\ q = f.at + 1
    /\ f.fn \in {"operand", "merge"} => TokIn(t, f.op) \in Char /\ Holds(t, a, f, f.op) /\ q = f.op + 1
    /\ f.fn = "call" => Built(t, a, CallParts(f), f.at, q)
    /\ f.fn = "if" => IfBegun(t, a, f, q)
    /\ f.fn = "for" => ForBegun(t, a, f, q)
    /\ f.fn = "var" => VarBegun(t, a, f, q)
    /\ f.fn = "varbody" => BodyBegun(t, a, f, q)
    /\ f.fn = "def" => DefBegun(t, a, f, q)

\* Each function has taken what is before the one it called, and the innermost what is
\* before the token at work.
StackBegun(t, a, s) == \A i \in 1..Len(s) - 1 : Begun(t, a, s[i], s[i + 1].at)
Answered(t, a, f, x, p) == \E q \in Nat \ {0} : Begun(t, a, f, q) /\ Enclosed(t, q, x.from, x.to, p)
AtWork(t, a, s, ph, p, r) ==
    /\ ph = "unary" => s # <<>> /\ Begun(t, a, s[Len(s)], p)
    /\ ph = "name" => s # <<>> /\ NameNext(t, a, s[Len(s)], p)
    /\ ph = "binop" => s # <<>> /\ Holds(t, a, s[Len(s)], p)
    /\ ph = "return" /\ r # 0 /\ s # <<>> => Answered(t, a, s[Len(s)], a[r], p)

MatchInv == /\ TreeMade
            /\ StackBegun(text, ast, stack)
            /\ AtWork(text, ast, stack, phase, pos, ret)

\* The grammar follows.
LEMMA MatchesTokens ==
    ASSUME ParserInv, MatchInv
    PROVE  TreeMatchesTokens
<1>1. ast \in Seq(NodeType) /\ DOMAIN ast = 1..Len(ast)
  BY LenProperties DEF ParserInv, AstOK
<1>2. SUFFICES ASSUME NEW i \in 1..Len(ast), NEW n, n = ast[i]
               PROVE  IF n.kind = "assign"
                      THEN LET value == Around(n.from, n.names[1], n.names[1])
                           IN  Tok(n.names[1]) \in Ident /\ value = n.at
                               /\ Spells(<<The("="), Sub(n.kids[1])>>, n.at, n.to)
                      ELSE Spells(Rule(n), n.from, n.to)
  BY <1>1 DEF TreeMatchesTokens
<1>3. Made(n)
  BY <1>2 DEF MatchInv, TreeMade
<1>4. CASE n.kind # "assign"
  <2>1. Built(text, ast, Rule(n), n.from, n.to + 1)
    BY <1>3, <1>4 DEF Made
  <2>2. Spells(Rule(n), n.from, n.to)
    BY <1>1, <2>1, BuiltSpells
  <2> QED
    BY <1>4, <2>2
<1>5. CASE n.kind = "assign"
  <2>1. /\ n.names[1] \in Nat /\ TokIn(text, n.names[1]) \in Ident
        /\ Enclosed(text, n.from, n.names[1], n.names[1], n.at)
        /\ Built(text, ast, <<The("="), Sub(n.kids[1])>>, n.at, n.to + 1)
    BY <1>3, <1>5 DEF Made
  <2>2. Spells(<<The("="), Sub(n.kids[1])>>, n.at, n.to)
    BY <1>1, <2>1, BuiltSpells
  <2>3. Tok(n.names[1]) \in Ident
    BY <2>1 DEF TokIn, Tok
  <2>4. PICK p, z : p = n.from /\ z = n.names[1]
    OBVIOUS
  <2>5. n \in NodeType
    BY <1>1, <1>2, ElementOfSeq
  <2>6. p \in Nat
    BY <2>4, <2>5 DEF NodeType
  <2>8. /\ z \in Nat /\ p <= z /\ n.at = z + (z - p) + 1
        /\ \A k \in 0..z - p - 1 : TokIn(text, p + k) = "(" /\ TokIn(text, z + 1 + k) = ")"
    BY <2>1, <2>4 DEF Enclosed
  <2>9. \A k : Tok(k) = TokIn(text, k)
    BY DEF Tok, TokIn
  <2>10. z - p >= 0 /\ \A k \in 0..z - p - 1 : Tok(p + k) = "(" /\ Tok(z + 1 + k) = ")"
    <3>1. \A k \in 0..z - p - 1 : Tok(p + k) = "(" /\ Tok(z + 1 + k) = ")"
      BY <2>8, <2>9, Zenon
    <3>2. z - p >= 0
      BY <2>6, <2>8
    <3> QED
      BY <3>1, <3>2
  <2>11. Around(p, z, z) = z + (z - p) + 1
    BY <2>10, Zenon DEF Around
  <2>7. Around(p, z, z) = n.at
    BY <2>8, <2>11
  <2> QED
    BY <1>5, <2>2, <2>3, <2>4, <2>7
<1> QED
  BY <1>4, <1>5

LEMMA RuleStays ==
    ASSUME text' = text, NEW n, n.kind = "function" => ast'[n.kids[1]].kind = ast[n.kids[1]].kind
    PROVE  Rule(n)' = Rule(n)
BY DEF Rule, Tok

\* The rule of each kind of node.
LEMMA RuleIs ==
    ASSUME NEW n
    PROVE  /\ n.kind = "number" => Rule(n) = <<Word(Number, n.at)>>
           /\ n.kind = "variable" => Rule(n) = <<Word(Ident, n.at)>>
           /\ n.kind = "unary" => Rule(n) = <<Word(Char \ {"(", ","}, n.at), Sub(n.kids[1])>>
           /\ n.kind = "binary" => Rule(n) = <<Sub(n.kids[1]), Word(Char \ {"="}, n.at), Sub(n.kids[2])>>
           /\ n.kind = "if" => Rule(n) = <<Word({"if"}, n.at), Sub(n.kids[1]), The("then"), Sub(n.kids[2]),
                                           The("else"), Sub(n.kids[3])>>
           /\ n.kind = "for" => Rule(n) = ForStep(n) \o <<The("in"), Sub(n.kids[4])>>
           /\ n.kind = "var" => Rule(n) = VarParts(n) \o <<The("in"), Sub(n.kids[Len(n.kids)])>>
           /\ n.kind = "call" => Rule(n) = <<Word(Ident, n.at), The("(")>>
                                    \o (IF n.kids = <<>> THEN <<>> ELSE Listed(n.kids)) \o <<The(")")>>
<1>1. n.kind = "number" => Rule(n) = <<Word(Number, n.at)>>
  BY DEF Rule
<1>2. n.kind = "variable" => Rule(n) = <<Word(Ident, n.at)>>
  BY DEF Rule
<1>3. n.kind = "unary" => Rule(n) = <<Word(Char \ {"(", ","}, n.at), Sub(n.kids[1])>>
  BY DEF Rule
<1>4. n.kind = "binary" => Rule(n) = <<Sub(n.kids[1]), Word(Char \ {"="}, n.at), Sub(n.kids[2])>>
  BY DEF Rule
<1>5. n.kind = "if" => Rule(n) = <<Word({"if"}, n.at), Sub(n.kids[1]), The("then"), Sub(n.kids[2]),
                                   The("else"), Sub(n.kids[3])>>
  BY DEF Rule
<1>6. n.kind = "for" => Rule(n) = ForStep(n) \o <<The("in"), Sub(n.kids[4])>>
  BY DEF Rule, ForStep, ForEnd, Optional, Comma
<1>7. n.kind = "var" => Rule(n) = VarParts(n) \o <<The("in"), Sub(n.kids[Len(n.kids)])>>
  BY DEF Rule, VarParts
<1>8. n.kind = "call" => Rule(n) = <<Word(Ident, n.at), The("(")>>
                                    \o (IF n.kids = <<>> THEN <<>> ELSE Listed(n.kids)) \o <<The(")")>>
  BY DEF Rule, Listed, Separated, Comma
<1> QED
  BY <1>1, <1>2, <1>3, <1>4, <1>5, <1>6, <1>7, <1>8

LEMMA PrototypeRules ==
    ASSUME NEW n
    PROVE  /\ n.kind = "proto" => Rule(n) = <<Word(Ident, n.at)>> \o Arguments(n)
           /\ n.kind = "unaryproto" =>
                Rule(n) = <<Word({"unary"}, n.at), Word(Char, n.at + 1)>> \o Arguments(n)
           /\ n.kind = "binaryproto" =>
                Rule(n) = <<Word({"binary"}, n.at), Word(Char, n.at + 1)>>
                            \o (IF Tok(n.at + 2) \in Number THEN <<Word(Number, n.at + 2)>> ELSE <<>>)
                            \o Arguments(n)
           /\ n.kind = "anonproto" => Rule(n) = <<>>
           /\ n.kind = "function" =>
                Rule(n) = IF ast[n.kids[1]].kind = "anonproto" THEN <<Sub(n.kids[2])>>
                          ELSE <<Word({"def"}, n.at), Sub(n.kids[1]), Sub(n.kids[2])>>
<1>1. n.kind = "proto" => Rule(n) = <<Word(Ident, n.at)>> \o Arguments(n)
  BY DEF Rule
<1>2. n.kind = "unaryproto" =>
        Rule(n) = <<Word({"unary"}, n.at), Word(Char, n.at + 1)>> \o Arguments(n)
  BY DEF Rule
<1>3. n.kind = "binaryproto" =>
        Rule(n) = <<Word({"binary"}, n.at), Word(Char, n.at + 1)>>
                    \o (IF Tok(n.at + 2) \in Number THEN <<Word(Number, n.at + 2)>> ELSE <<>>)
                    \o Arguments(n)
  BY DEF Rule
<1>4. n.kind = "anonproto" => Rule(n) = <<>>
  BY DEF Rule
<1>5. n.kind = "function" =>
        Rule(n) = IF ast[n.kids[1]].kind = "anonproto" THEN <<Sub(n.kids[2])>>
                  ELSE <<Word({"def"}, n.at), Sub(n.kids[1]), Sub(n.kids[2])>>
  BY DEF Rule
<1> QED
  BY <1>1, <1>2, <1>3, <1>4, <1>5
-----------------------------------------------------------------------------
\* How the third invariant survives a longer tree, a shorter and a longer stack.
Grows(a, b) == /\ Len(a) \in Nat /\ Len(b) \in Nat /\ Len(a) <= Len(b)
               /\ \A i \in 1..Len(a) : b[i] = a[i]

LEMMA GrowsKeeps ==
    ASSUME NEW t, NEW a, NEW b, Grows(a, b), NEW items, NEW p, NEW e, Built(t, a, items, p, e)
    PROVE  Built(t, b, items, p, e)
<1>1. Len(a) \in Nat /\ Len(b) \in Nat /\ SameNodes(a, b)
  BY DEF Grows, SameNodes
<1> QED
  BY <1>1, BuiltKept

LEMMA GrowsByOne ==
    ASSUME NEW a \in Seq(NodeType), NEW x \in NodeType
    PROVE  Grows(a, Append(a, x)) /\ Grows(a, a)
<1>1. PICK b : b = Append(a, x)
  OBVIOUS
<1>2. Len(b) = Len(a) + 1 /\ Len(a) \in Nat /\ \A i \in 1..Len(a) : b[i] = a[i]
  BY <1>1, PushFacts
<1>3. Grows(a, b) /\ Grows(a, a)
  BY <1>2 DEF Grows
<1> QED
  BY <1>1, <1>3

LEMMA NextKept ==
    ASSUME NEW t, NEW a, NEW b, Grows(a, b), NEW f, NEW q, NameNext(t, a, f, q)
    PROVE  NameNext(t, b, f, q)
BY GrowsKeeps DEF NameNext

LEMMA HoldsKept ==
    ASSUME NEW t, NEW a, NEW b, Grows(a, b), NEW f, f.kids[1] \in 1..Len(a), NEW q
    PROVE  Holds(t, a, f, q) => Holds(t, b, f, q)
<1>1. b[f.kids[1]] = a[f.kids[1]]
  BY DEF Grows
<1> QED
  BY <1>1 DEF Holds

LEMMA ClimbKids ==
    ASSUME NEW t, NEW a, Len(a) \in Nat, NEW f, FrameOK(t, a, f), f.fn \in Climbs
    PROVE  f.kids[1] \in 1..Len(a) /\ f.kids[1] # 0
<1>1. Len(f.kids) = 1 /\ f.kids[1] # 0 /\ Within(f.kids, 0..Len(a))
  BY DEF FrameOK
<1>2. f.kids[1] \in 0..Len(a)
  BY <1>1 DEF Within
<1> QED
  BY <1>1, <1>2

LEMMA BegunKept ==
    ASSUME NEW t, NEW a, NEW b, Grows(a, b), NEW f, FrameOK(t, a, f), NEW q, Begun(t, a, f, q)
    PROVE  Begun(t, b, f, q)
<1>1. Len(a) \in Nat
  BY DEF Grows
<1>2. f.fn \in {"operand", "merge"} =>
        TokIn(t, f.op) \in Char /\ Holds(t, b, f, f.op) /\ q = f.op + 1
  <2>1. SUFFICES ASSUME f.fn \in {"operand", "merge"}
                 PROVE  TokIn(t, f.op) \in Char /\ Holds(t, b, f, f.op) /\ q = f.op + 1
    OBVIOUS
  <2>2. TokIn(t, f.op) \in Char /\ Holds(t, a, f, f.op) /\ q = f.op + 1
    BY <2>1 DEF Begun
  <2>3. f.fn \in Climbs
    BY <2>1 DEF Climbs
  <2>4. f.kids[1] \in 1..Len(a)
    BY <1>1, <2>3, ClimbKids
  <2> QED
    BY <2>2, <2>4, HoldsKept
<1>3. f.fn = "call" => Built(t, b, CallParts(f), f.at, q)
  BY GrowsKeeps DEF Begun
<1>4. f.fn = "if" => IfBegun(t, b, f, q)
  BY GrowsKeeps DEF Begun, IfBegun
<1>5. f.fn = "for" => ForBegun(t, b, f, q)
  BY GrowsKeeps DEF Begun, ForBegun
<1>6. f.fn = "var" => VarBegun(t, b, f, q)
  BY NextKept DEF Begun, VarBegun
<1>7. f.fn = "varbody" => BodyBegun(t, b, f, q)
  BY GrowsKeeps DEF Begun, BodyBegun
<1>8. f.fn = "def" => DefBegun(t, b, f, q)
  <2>1. SUFFICES ASSUME f.fn = "def" PROVE DefBegun(t, b, f, q)
    OBVIOUS
  <2>2. Len(a) # 0
    BY <2>1 DEF FrameOK
  <2>3. 1 \in 1..Len(a)
    BY <1>1, <2>2
  <2>4. b[1] = a[1]
    BY <2>3 DEF Grows
  <2>5. DefBegun(t, a, f, q)
    BY <2>1 DEF Begun
  <2> QED
    BY <2>4, <2>5, GrowsKeeps DEF DefBegun
<1> QED
  BY <1>2, <1>3, <1>4, <1>5, <1>6, <1>7, <1>8 DEF Begun

LEMMA StackKept ==
    ASSUME NEW t, NEW a, NEW b, Grows(a, b), NEW s, StackOK(t, a, s), StackBegun(t, a, s)
    PROVE  StackBegun(t, b, s)
<1>1. Len(s) \in Nat
  BY LenProperties DEF StackOK
<1>2. ASSUME NEW i \in 1..Len(s) - 1 PROVE Begun(t, b, s[i], s[i + 1].at)
  <2>1. i \in 1..Len(s)
    BY <1>1
  <2>2. FrameOK(t, a, s[i]) /\ Begun(t, a, s[i], s[i + 1].at)
    BY <2>1 DEF StackOK, StackBegun
  <2> QED
    BY <2>2, BegunKept
<1> QED
  BY <1>2 DEF StackBegun

LEMMA BegunPush ==
    ASSUME NEW t, NEW a, NEW s \in Seq(FrameType), StackBegun(t, a, s), NEW f \in FrameType,
           s # <<>> => Begun(t, a, s[Len(s)], f.at)
    PROVE  /\ StackBegun(t, a, Append(s, f)) /\ Append(s, f) \in Seq(FrameType)
           /\ Append(s, f) # <<>> /\ Append(s, f)[Len(Append(s, f))] = f
<1>1. PICK u : u = Append(s, f)
  OBVIOUS
<1>2. /\ u \in Seq(FrameType) /\ Len(u) = Len(s) + 1 /\ Len(s) \in Nat /\ u # <<>>
      /\ \A i \in 1..Len(s) : u[i] = s[i]
      /\ u[Len(s) + 1] = f
  BY <1>1, PushFacts
<1>3. ASSUME NEW i \in 1..Len(u) - 1 PROVE Begun(t, a, u[i], u[i + 1].at)
  <2>1. i \in 1..Len(s)
    BY <1>2
  <2>2. CASE i = Len(s)
    <3>1. s # <<>>
      BY <2>1, <2>2
    <3> QED
      BY <1>2, <2>1, <2>2, <3>1
  <2>3. CASE i # Len(s)
    <3>1. i \in 1..Len(s) - 1 /\ i + 1 \in 1..Len(s)
      BY <1>2, <2>1, <2>3
    <3>2. Begun(t, a, s[i], s[i + 1].at)
      BY <3>1 DEF StackBegun
    <3> QED
      BY <1>2, <2>1, <3>1, <3>2
  <2> QED
    BY <2>2, <2>3
<1>4. StackBegun(t, a, u) /\ u[Len(u)] = f
  BY <1>2, <1>3 DEF StackBegun
<1> QED
  BY <1>1, <1>2, <1>4

LEMMA BegunPop ==
    ASSUME NEW t, NEW a, stack \in Seq(FrameType), stack # <<>>, StackBegun(t, a, stack)
    PROVE  /\ StackBegun(t, a, Rest) /\ Rest \in Seq(FrameType)
           /\ Rest # <<>> => Begun(t, a, Rest[Len(Rest)], Top.at)
<1>1. /\ Rest \in Seq(FrameType) /\ Len(stack) \in Nat \ {0} /\ Len(Rest) = Len(stack) - 1
      /\ \A i \in 1..Len(stack) - 1 : Rest[i] = stack[i]
  BY PopFacts DEF Rest, AllButLast
<1>2. StackBegun(t, a, Rest)
  <2>1. ASSUME NEW i \in 1..Len(Rest) - 1 PROVE Begun(t, a, Rest[i], Rest[i + 1].at)
    <3>1. i \in 1..Len(stack) - 1 /\ i + 1 \in 1..Len(stack) - 1
      BY <1>1
    <3>2. Begun(t, a, stack[i], stack[i + 1].at) /\ Rest[i] = stack[i] /\ Rest[i + 1] = stack[i + 1]
      BY <1>1, <3>1 DEF StackBegun
    <3> QED
      BY <3>2
  <2> QED
    BY <2>1 DEF StackBegun
<1>3. ASSUME Rest # <<>> PROVE Begun(t, a, Rest[Len(Rest)], Top.at)
  <2>1. Len(Rest) \in Nat \ {0}
    BY <1>1, <1>3, PopFacts
  <2>2. PICK n : n = Len(Rest)
    OBVIOUS
  <2>3. n \in 1..Len(stack) - 1 /\ n + 1 = Len(stack)
    BY <1>1, <2>1, <2>2
  <2>4. Begun(t, a, stack[n], stack[n + 1].at) /\ Rest[n] = stack[n]
    BY <1>1, <2>3 DEF StackBegun
  <2> QED
    BY <2>2, <2>3, <2>4 DEF Top
<1> QED
  BY <1>1, <1>2, <1>3
-----------------------------------------------------------------------------
\* What a step of the parser may do to the third invariant.
MatchHere == Here /\ Good /\ MatchInv

LEMMA MatchFacts ==
    ASSUME MatchHere
    PROVE  /\ ParserInv /\ ParserInv' /\ text \in Seq(Token) /\ text' = text
           /\ pos \in Nat \ {0} /\ pos' \in Nat \ {0} /\ pos <= pos' /\ pos \in 1..Len(text) + 1
           /\ ast \in Seq(NodeType) /\ Len(ast) \in Nat /\ ast' \in Seq(NodeType)
           /\ stack \in Seq(FrameType) /\ StackOK(text, ast, stack) /\ AstOK(text, ast)
           /\ TreeMade /\ StackBegun(text, ast, stack) /\ AtWork(text, ast, stack, phase, pos, ret)
           /\ Grows(ast, ast)
<1>1. /\ ParserInv /\ UNCHANGED <<text, table>> /\ Steps(pos, pos') /\ ParserInv' /\ MatchInv
  BY DEF MatchHere, Here, Good
<1>2. pos \in 1..Len(text) + 1 /\ pos \in Nat /\ pos # 0 /\ Len(text) \in Nat
  BY <1>1, Facts DEF ParserInv
<1>3. pos' \in Position /\ pos <= pos'
  BY <1>1 DEF Steps
<1>4. pos' \in Nat \ {0}
  BY <1>2, <1>3 DEF Position
<1>5. ast' \in Seq(NodeType)
  BY <1>1 DEF ParserInv, AstOK
<1>6. stack \in Seq(FrameType)
  BY <1>1 DEF ParserInv, StackOK
<1>7. ast \in Seq(NodeType) /\ Len(ast) \in Nat /\ Grows(ast, ast)
  BY <1>1, Facts DEF Grows
<1> QED
  BY <1>1, <1>2, <1>3, <1>4, <1>5, <1>6, <1>7, Facts DEF MatchInv

LEMMA MadeKept ==
    ASSUME text' = text, Grows(ast, ast'), NEW n, Made(n),
           n.kind = "function" => n.kids[1] \in 1..Len(ast)
    PROVE  Made(n)'
<1>1. n.kind = "function" => ast'[n.kids[1]].kind = ast[n.kids[1]].kind
  BY DEF Grows
<1>2. Rule(n)' = Rule(n)
  BY <1>1, RuleStays
<1>3. CASE n.kind = "assign"
  BY <1>3, GrowsKeeps DEF Made
<1>4. CASE n.kind # "assign"
  <2>1. Built(text, ast, Rule(n), n.from, n.to + 1)
    BY <1>4 DEF Made
  <2>2. Built(text, ast', Rule(n), n.from, n.to + 1)
    BY <2>1, GrowsKeeps
  <2> QED
    BY <1>2, <1>4, <2>2 DEF Made
<1> QED
  BY <1>3, <1>4

\* A new node is made of what is there.
TreeMakes == \/ ast' = ast
             \/ \E y \in NodeType : ast' = Append(ast, y) /\ Made(y)
                                    /\ (y.kind = "function" => y.kids[1] \in 1..Len(ast))

LEMMA FunctionKid ==
    ASSUME NEW t, NEW a, AstOK(t, a), Len(a) \in Nat, NEW i \in 1..Len(a), a[i].kind = "function"
    PROVE  a[i].kids[1] \in 1..Len(a)
<1>1. NodeOK(t, a, a[i], i - 1)
  BY DEF AstOK
<1>2. Len(a[i].kids) = 2 /\ a[i].kids[1] # 0 /\ Within(a[i].kids, 0..i - 1)
  BY <1>1 DEF NodeOK
<1>3. a[i].kids[1] \in 0..i - 1
  BY <1>2 DEF Within
<1> QED
  BY <1>2, <1>3

LEMMA TreeSurvives ==
    ASSUME ParserInv, TreeMade, text' = text, TreeMakes
    PROVE  TreeMade' /\ Grows(ast, ast')
<1>1. /\ text' = text /\ ast \in Seq(NodeType) /\ Len(ast) \in Nat /\ TreeMade
      /\ AstOK(text, ast) /\ Grows(ast, ast)
  BY Facts DEF Grows
<1>2. CASE ast' = ast
  <2>1. ASSUME NEW i \in 1..Len(ast), NEW n \in {ast[i]} PROVE Made(n)'
    <3>1. Made(n) /\ (n.kind = "function" => n.kids[1] \in 1..Len(ast))
      BY <1>1, FunctionKid DEF TreeMade
    <3>2. Grows(ast, ast')
      BY <1>1, <1>2
    <3> QED
      BY <1>1, <3>1, <3>2, MadeKept
  <2> QED
    BY <1>1, <1>2, <2>1 DEF TreeMade
<1>3. CASE \E y \in NodeType : ast' = Append(ast, y) /\ Made(y)
                               /\ (y.kind = "function" => y.kids[1] \in 1..Len(ast))
  <2>1. PICK y \in NodeType : ast' = Append(ast, y) /\ Made(y)
                              /\ (y.kind = "function" => y.kids[1] \in 1..Len(ast))
    BY <1>3
  <2>2. Grows(ast, ast')
    BY <1>1, <2>1, GrowsByOne
  <2>3. Len(ast') = Len(ast) + 1 /\ ast'[Len(ast) + 1] = y /\ \A i \in 1..Len(ast) : ast'[i] = ast[i]
    BY <1>1, <2>1, PushFacts
  <2>4. ASSUME NEW i \in 1..Len(ast'), NEW n \in {ast'[i]} PROVE Made(n)'
    <3>1. Made(n) /\ (n.kind = "function" => n.kids[1] \in 1..Len(ast))
      <4>1. CASE i = Len(ast) + 1
        BY <2>1, <2>3, <4>1
      <4>2. CASE i \in 1..Len(ast)
        BY <1>1, <2>3, <4>2, FunctionKid DEF TreeMade
      <4> QED
        BY <1>1, <2>3, <4>1, <4>2
    <3> QED
      BY <1>1, <2>2, <3>1, MadeKept
  <2> QED
    BY <2>2, <2>4 DEF TreeMade
<1> QED
  BY <1>2, <1>3 DEF TreeMakes

LEMMA TreeGoesOn ==
    ASSUME MatchHere, TreeMakes
    PROVE  TreeMade' /\ Grows(ast, ast')
BY MatchFacts, TreeSurvives

LEMMA Rematch ==
    ASSUME MatchHere, TreeMakes, StackBegun(text, ast', stack'),
           AtWork(text, ast', stack', phase', pos', ret')
    PROVE  MatchInv'
<1>1. TreeMade' /\ text' = text
  BY TreeGoesOn, MatchFacts
<1> QED
  BY <1>1 DEF MatchInv

LEMMA PopMatches ==
    ASSUME MatchHere, stack # <<>>
    PROVE  /\ StackBegun(text, ast, Rest) /\ Rest \in Seq(FrameType) /\ StackOK(text, ast, Rest)
           /\ FrameOK(text, ast, Top) /\ Top \in FrameType /\ Top.at \in Nat \ {0} /\ Top.fn \in Function
           /\ Rest # <<>> => Begun(text, ast, Rest[Len(Rest)], Top.at)
<1>1. stack \in Seq(FrameType) /\ StackOK(text, ast, stack) /\ StackBegun(text, ast, stack)
  BY MatchFacts
<1>2. StackOK(text, ast, Rest) /\ FrameOK(text, ast, Top) /\ Top \in FrameType
  BY <1>1, SplitStack
<1>3. Top.fn \in Function
  BY <1>2 DEF FrameType
<1>4. Top.at \in Nat \ {0}
  BY <1>2 DEF FrameOK, FrameType
<1> QED
  BY <1>1, <1>2, <1>3, <1>4, BegunPop

\* A function returns nothing, or a node that is what its caller waits for.
LEMMA ReturnMatches ==
    ASSUME MatchHere, TreeMakes, NEW s, s = stack \/ (stack # <<>> /\ s = Rest),
           stack' = s, phase' = "return",
           (ret' # 0 /\ s # <<>>) => Answered(text, ast', s[Len(s)], ast'[ret'], pos')
    PROVE  MatchInv'
<1>1. StackBegun(text, ast, s) /\ StackOK(text, ast, s)
  BY MatchFacts, PopMatches
<1>2. Grows(ast, ast')
  BY TreeGoesOn
<1>3. StackBegun(text, ast', stack')
  BY <1>1, <1>2, StackKept
<1>4. AtWork(text, ast', stack', phase', pos', ret')
  BY DEF AtWork
<1> QED
  BY <1>3, <1>4, Rematch

LEMMA FailMatches ==
    ASSUME MatchHere, NEW s, s = stack \/ (stack # <<>> /\ s = Rest), NEW p, Fail(s, p)
    PROVE  MatchInv'
<1>1. stack' = s /\ phase' = "return" /\ ret' = 0 /\ ast' = ast
  BY DEF Fail, Return
<1> QED
  BY <1>1, ReturnMatches DEF TreeMakes

LEMMA Bare ==
    ASSUME NEW t, NEW p \in Nat, NEW z \in Int
    PROVE  Enclosed(t, p, p, z, z + 1)
BY DEF Enclosed

\* A function returns a new node, which begins where its caller waits for it.
LEMMA BuildMatches ==
    ASSUME MatchHere, NEW s, s = stack \/ (stack # <<>> /\ s = Rest),
           NEW y \in NodeType, y.from # 0, Made(y), y.kind = "function" => y.kids[1] \in 1..Len(ast),
           ast' = Append(ast, y), Return(s, Len(ast) + 1), pos' = y.to + 1,
           s # <<>> => Begun(text, ast, s[Len(s)], y.from)
    PROVE  MatchInv'
<1>1. /\ ast \in Seq(NodeType) /\ Len(ast) \in Nat /\ stack \in Seq(FrameType)
      /\ StackOK(text, ast, stack)
  BY MatchFacts
<1>2. TreeMakes
  BY DEF TreeMakes
<1>3. Grows(ast, ast') /\ ast'[Len(ast) + 1] = y
  BY <1>1, <1>2, TreeGoesOn, PushFacts
<1>4. stack' = s /\ phase' = "return" /\ ret' = Len(ast) + 1
  BY DEF Return
<1>5. ASSUME s # <<>> PROVE Answered(text, ast', s[Len(s)], ast'[ret'], pos')
  <2>1. PICK f : f = s[Len(s)]
    OBVIOUS
  <2>2. FrameOK(text, ast, f)
    <3>1. StackOK(text, ast, s) /\ s \in Seq(FrameType)
      BY <1>1, PopMatches DEF StackOK
    <3>2. Len(s) \in 1..Len(s)
      BY <1>5, <3>1, PopFacts
    <3> QED
      BY <2>1, <3>1, <3>2 DEF StackOK
  <2>3. Begun(text, ast', f, y.from)
    BY <1>3, <1>5, <2>1, <2>2, BegunKept
  <2>4. y.from \in Nat \ {0} /\ y.to \in Int
    BY DEF NodeType
  <2>5. Enclosed(text, y.from, y.from, y.to, pos')
    BY <2>4, Bare
  <2> QED
    BY <1>3, <1>4, <2>1, <2>3, <2>4, <2>5 DEF Answered
<1> QED
  BY <1>2, <1>4, <1>5, ReturnMatches

\* parseExpression is called by the innermost function, which waits for it at p.
LEMMA ExpressionMatches ==
    ASSUME MatchHere, ast' = ast, NEW s \in Seq(FrameType), StackBegun(text, ast, s), s # <<>>,
           NEW p \in Nat \ {0}, Begun(text, ast, s[Len(s)], p), Expression(s, p)
    PROVE  MatchInv'
<1>1. PICK g : g = Frame("expr", p)
  OBVIOUS
<1>2. g \in FrameType /\ g.fn = "expr" /\ g.at = p
  BY <1>1, FrameFields DEF Function
<1>3. PICK u : u = Append(s, g)
  OBVIOUS
<1>4. StackBegun(text, ast, u) /\ u # <<>> /\ u[Len(u)] = g
  BY <1>2, <1>3, BegunPush
<1>5. pos' = p /\ stack' = u /\ phase' = "unary"
  BY <1>1, <1>3 DEF Expression
<1>6. Begun(text, ast, g, p)
  BY <1>2 DEF Begun
<1>7. AtWork(text, ast', stack', phase', pos', ret')
  BY <1>4, <1>5, <1>6 DEF AtWork
<1>8. StackBegun(text, ast', stack') /\ TreeMakes
  BY <1>4, <1>5 DEF TreeMakes
<1> QED
  BY <1>7, <1>8, Rematch

\* The function at the top goes on, with what it has collected.
LEMMA GoesOnBegun ==
    ASSUME MatchHere, stack # <<>>, NEW h \in FrameType, h.at = Top.at
    PROVE  /\ StackBegun(text, ast, Append(Rest, h)) /\ Append(Rest, h) \in Seq(FrameType)
           /\ Append(Rest, h) # <<>> /\ Append(Rest, h)[Len(Append(Rest, h))] = h
<1>1. /\ StackBegun(text, ast, Rest) /\ Rest \in Seq(FrameType)
      /\ Rest # <<>> => Begun(text, ast, Rest[Len(Rest)], Top.at)
  BY PopMatches
<1> QED
  BY <1>1, BegunPush

LEMMA PartMatches ==
    ASSUME MatchHere, stack # <<>>, NEW h \in FrameType, h.at = Top.at, ast' = ast,
           NEW p \in Nat \ {0}, Begun(text, ast, h, p), Expression(Append(Rest, h), p)
    PROVE  MatchInv'
<1>1. PICK u : u = Append(Rest, h)
  OBVIOUS
<1>2. StackBegun(text, ast, u) /\ u \in Seq(FrameType) /\ u # <<>> /\ u[Len(u)] = h
  BY <1>1, GoesOnBegun
<1> QED
  BY <1>1, <1>2, ExpressionMatches

LEMMA ExpectsMatches ==
    ASSUME MatchHere, stack # <<>>, NEW h \in FrameType, h.at = Top.at, NEW w,
           CurTok = w => Begun(text, ast, h, pos + 1), Expects(Append(Rest, h), w)
    PROVE  MatchInv'
<1>1. CASE CurTok = w /\ Expression(Append(Rest, h), pos + 1) /\ ast' = ast
  <2>1. pos + 1 \in Nat \ {0}
    BY MatchFacts
  <2> QED
    BY <1>1, <2>1, PartMatches
<1>2. CASE Fail(Rest, pos)
  BY <1>2, FailMatches
<1> QED
  BY <1>1, <1>2, Zenon DEF Expects

\* A function is called with the current token, where the innermost waits for it.
LEMMA CalledMatches ==
    ASSUME MatchHere, phase = "unary", NEW f \in FrameType, f.at = pos
    PROVE  /\ StackBegun(text, ast, Append(stack, f)) /\ Append(stack, f) \in Seq(FrameType)
           /\ Append(stack, f) # <<>> /\ Append(stack, f)[Len(Append(stack, f))] = f
<1>1. /\ stack \in Seq(FrameType) /\ StackBegun(text, ast, stack)
      /\ stack # <<>> /\ Begun(text, ast, stack[Len(stack)], pos)
  BY MatchFacts DEF AtWork
<1> QED
  BY <1>1, BegunPush

LEMMA WaitMatches ==
    ASSUME MatchHere, phase = "unary", NEW f \in FrameType, f.at = pos,
           NEW p \in Nat \ {0}, Begun(text, ast, f, p), Wait(f, p)
    PROVE  MatchInv'
<1>1. PICK u : u = Append(stack, f)
  OBVIOUS
<1>2. StackBegun(text, ast, u) /\ u \in Seq(FrameType) /\ u # <<>> /\ u[Len(u)] = f
  BY <1>1, CalledMatches
<1>3. ast' = ast /\ Expression(u, p)
  BY <1>1 DEF Wait
<1> QED
  BY <1>2, <1>3, ExpressionMatches

\* What a function has when it gets the part it waited for.
LEMMA GotAnswer ==
    ASSUME MatchHere, NEW f, Got(f)
    PROVE  /\ stack # <<>> /\ Top.fn = f /\ ret \in 1..Len(ast) /\ ret # 0 /\ ret \in Nat /\ Top \in FrameType
           /\ f # "rhs"
           /\ \E q \in Nat \ {0} : /\ Begun(text, ast, Top, q)
                                   /\ Enclosed(text, q, ast[ret].from, ast[ret].to, pos)
                                   /\ Built(text, ast, <<Sub(ret)>>, q, pos)
<1>1. stack # <<>> /\ Top.fn = f /\ ret # 0 /\ phase = "return"
  BY DEF Got
<1>2. ret \in 1..Len(ast) /\ ret \in Nat /\ pos \in Nat \ {0}
  BY <1>1, MatchFacts, Facts
<1>3. Answered(text, ast, Top, ast[ret], pos)
  BY <1>1, MatchFacts DEF AtWork, Top
<1>4. PICK q \in Nat \ {0} : Begun(text, ast, Top, q) /\ Enclosed(text, q, ast[ret].from, ast[ret].to, pos)
  BY <1>3 DEF Answered
<1>5. Built(text, ast, <<Sub(ret)>>, q, pos)
  BY <1>2, <1>4, BuiltSub
<1>6. f # "rhs"
  BY <1>1, <1>4 DEF Begun
<1> QED
  BY <1>1, <1>2, <1>4, <1>5, <1>6, PopMatches

LEMMA TokIs == \A p : Tok(p) = TokIn(text, p)
BY DEF Tok, TokIn
-----------------------------------------------------------------------------
\* Primary expressions keep the third invariant.
Fits(y, k, p, ns, ks, e) ==
    /\ y \in NodeType /\ y.kind = k /\ y.at = p /\ y.from = p /\ y.names = ns /\ y.kids = ks
    /\ y.to + 1 = e

LEMMA NodeFits ==
    ASSUME NEW k \in Kind, NEW p \in Nat, NEW ns \in Seq(Nat), NEW ks \in Seq(Nat), NEW e \in Int,
           NEW z, z = e - 1
    PROVE  Fits([Node(k, p, p, ns, ks) EXCEPT !.to = z], k, p, ns, ks, e)
<1>1. PICK y : y = [Node(k, p, p, ns, ks) EXCEPT !.to = z]
  OBVIOUS
<1>2. z \in Int /\ z + 1 = e
  OBVIOUS
<1>3. y \in NodeType
  BY <1>1, <1>2 DEF Node, NodeType
<1>4. y.kind = k /\ y.at = p /\ y.from = p /\ y.names = ns /\ y.kids = ks /\ y.to = z
  BY <1>1 DEF Node
<1> QED
  BY <1>1, <1>2, <1>3, <1>4 DEF Fits

LEMMA NodeMatches ==
    ASSUME MatchHere, NEW s, s = stack \/ (stack # <<>> /\ s = Rest),
           NEW k \in {"number", "variable", "unary", "call", "if", "for", "var"},
           NEW p \in Nat \ {0}, NEW ns \in Seq(Nat), NEW ks \in Seq(Nat), NEW e,
           Build(s, Node(k, p, p, ns, ks), e),
           s # <<>> => Begun(text, ast, s[Len(s)], p),
           \A y : Fits(y, k, p, ns, ks, e) => Made(y)
    PROVE  MatchInv'
<1>1. PICK z, y : z = e - 1 /\ y = [Node(k, p, p, ns, ks) EXCEPT !.to = z]
  OBVIOUS
<1>2. ast' = Append(ast, y) /\ Return(s, Len(ast) + 1) /\ pos' = e
  BY <1>1, Zenon DEF Build
<1>3. e \in Int
  BY <1>2, MatchFacts
<1>4. k \in Kind /\ k # "function"
  BY DEF Kind
<1>5. Fits(y, k, p, ns, ks, e)
  BY <1>1, <1>3, <1>4, NodeFits
<1>6. Made(y)
  BY <1>5
<1>7. /\ y \in NodeType /\ y.from = p /\ y.kind # "function" /\ pos' = y.to + 1
  BY <1>2, <1>4, <1>5 DEF Fits
<1>8. y.from # 0
  BY <1>7
<1>9. s # <<>> => Begun(text, ast, s[Len(s)], y.from)
  BY <1>7
<1> QED
  BY <1>2, <1>6, <1>7, <1>8, <1>9, BuildMatches

LEMMA ClassesAreTokens ==
    /\ Number \subseteq Token /\ Ident \subseteq Token /\ Char \subseteq Token
    /\ \A S : Char \ S \subseteq Token
    /\ {"if"} \subseteq Token /\ {"for"} \subseteq Token /\ {"var"} \subseteq Token
    /\ {"def"} \subseteq Token /\ {"unary"} \subseteq Token /\ {"binary"} \subseteq Token
    /\ \A w \in {"=", "(", ")", ",", "then", "else", "in"} : w \in Token
<1>1. Number \subseteq Token /\ Ident \subseteq Token /\ Char \subseteq Token /\ Keyword \subseteq Token
  BY Zenon DEF Token
<1>2. \A w \in {"if", "for", "var", "def", "unary", "binary", "then", "else", "in"} : w \in Keyword
  BY DEF Keyword
<1>3. \A w \in {"=", "(", ")", ","} : w \in Char
  BY CharAssumption, Zenon
<1> QED
  BY <1>1, <1>2, <1>3, Zenon

LEMMA WaitedHere ==
    ASSUME MatchHere, phase = "unary"
    PROVE  stack # <<>> /\ Begun(text, ast, stack[Len(stack)], pos) /\ pos \in Nat \ {0}
BY MatchFacts DEF AtWork

LEMMA NumberMatches == ASSUME MatchHere, ParseNumber PROVE MatchInv'
<1>1. PICK k, e, ns : k = "number" /\ e = pos + 1 /\ ns = <<>>
  OBVIOUS
<1>2. phase = "unary" /\ Tok(pos) \in Number /\ Build(stack, Node(k, pos, pos, ns, ns), e)
  BY <1>1, Zenon DEF ParseNumber, CurTok
<1>3. Begun(text, ast, stack[Len(stack)], pos) /\ pos \in Nat \ {0} /\ ns \in Seq(Nat)
  BY <1>1, <1>2, WaitedHere, NoLists
<1>4. ASSUME NEW y, Fits(y, k, pos, ns, ns, e) PROVE Made(y)
  <2>1. y.kind = "number" /\ y.at = pos /\ y.from = pos /\ y.to + 1 = pos + 1
    BY <1>1, <1>4 DEF Fits
  <2>2. Number \subseteq Token /\ TokIn(text, pos) \in Number
    BY <1>2, TokIs, ClassesAreTokens
  <2>3. Built(text, ast, <<Word(Number, pos)>>, pos, pos + 1)
    BY <1>3, <2>2, BuiltWord
  <2>4. Rule(y) = <<Word(Number, pos)>>
    BY <2>1, RuleIs
  <2> QED
    BY <2>1, <2>3, <2>4 DEF Made
<1>5. k \in {"number", "variable", "unary", "call", "if", "for", "var"}
  BY <1>1
<1> QED
  BY <1>2, <1>3, <1>4, <1>5, NodeMatches

LEMMA VariableMatches ==
    ASSUME MatchHere, phase = "unary", Tok(pos) \in Ident, NEW ns, ns = <<pos>>, NEW e, e = pos + 1,
           Build(stack, Node("variable", pos, pos, ns, <<>>), e)
    PROVE  MatchInv'
<1>1. PICK k, ks : k = "variable" /\ ks = <<>>
  OBVIOUS
<1>2. Build(stack, Node(k, pos, pos, ns, ks), e)
  BY <1>1
<1>3. Begun(text, ast, stack[Len(stack)], pos) /\ pos \in Nat \ {0} /\ ks \in Seq(Nat)
  BY <1>1, WaitedHere, NoLists
<1>4. ns \in Seq(Nat)
  BY <1>3, WithinOne
<1>5. ASSUME NEW y, Fits(y, k, pos, ns, ks, e) PROVE Made(y)
  <2>1. y.kind = "variable" /\ y.at = pos /\ y.from = pos /\ y.to + 1 = pos + 1 /\ y.names = <<pos>>
        /\ y.to \in Int
    BY <1>1, <1>5 DEF Fits, NodeType
  <2>2. Ident \subseteq Token /\ TokIn(text, pos) \in Ident
    BY TokIs, ClassesAreTokens
  <2>3. Built(text, ast, <<Word(Ident, pos)>>, pos, pos + 1)
    BY <1>3, <2>2, BuiltWord
  <2>4. Rule(y) = <<Word(Ident, pos)>>
    BY <2>1, RuleIs
  <2>5. y.to = pos
    BY <1>3, <2>1
  <2> QED
    BY <2>1, <2>3, <2>4, <2>5 DEF Made
<1>6. k \in {"number", "variable", "unary", "call", "if", "for", "var"}
  BY <1>1
<1> QED
  BY <1>2, <1>3, <1>4, <1>5, <1>6, NodeMatches

LEMMA CallHead ==
    ASSUME NEW t, NEW a, NEW p \in Nat \ {0}, TokIn(t, p) \in Ident, TokIn(t, p + 1) = "("
    PROVE  Built(t, a, <<Word(Ident, p), The("(")>>, p, p + 2)
<1>1. PICK l : l = "("
  OBVIOUS
<1>2. Ident \subseteq Token /\ l \in Token
  BY <1>1, ClassesAreTokens, Zenon
<1>3. Built(t, a, <<Word(Ident, p)>>, p, p + 1)
  BY <1>2, BuiltWord
<1>4. Built(t, a, <<The(l)>>, p + 1, (p + 1) + 1)
  BY <1>1, <1>2, BuiltThe
<1>5. Built(t, a, <<Word(Ident, p)>> \o <<The(l)>>, p, (p + 1) + 1)
  BY <1>3, <1>4, BuiltJoin
<1>6. <<Word(Ident, p)>> \o <<The(l)>> = <<Word(Ident, p), The(l)>>
  <2>1. The(l) \in ItemType /\ Word(Ident, p) \in ItemType
    BY <1>2, WordItem DEF The, AnyPlace
  <2> QED
    BY <2>1, JoinTwo
<1>7. (p + 1) + 1 = p + 2
  OBVIOUS
<1> QED
  BY <1>1, <1>5, <1>6, <1>7

LEMMA NoCallMatches ==
    ASSUME MatchHere, phase = "unary", Tok(pos) \in Ident, Tok(pos + 1) = "(", Tok(pos + 2) = ")",
           NEW ns, ns = <<pos>>, NEW e, e = pos + 3, Build(stack, Node("call", pos, pos, ns, <<>>), e)
    PROVE  MatchInv'
<1>1. PICK k, ks : k = "call" /\ ks = <<>>
  OBVIOUS
<1>2. Build(stack, Node(k, pos, pos, ns, ks), e)
  BY <1>1
<1>3. Begun(text, ast, stack[Len(stack)], pos) /\ pos \in Nat \ {0} /\ ks \in Seq(Nat)
  BY <1>1, WaitedHere, NoLists
<1>4. ns \in Seq(Nat)
  BY <1>3, WithinOne
<1>5. ASSUME NEW y, Fits(y, k, pos, ns, ks, e) PROVE Made(y)
  <2>1. y.kind = "call" /\ y.at = pos /\ y.from = pos /\ y.to + 1 = pos + 3 /\ y.kids = <<>>
    BY <1>1, <1>5 DEF Fits
  <2>2. Built(text, ast, <<Word(Ident, pos), The("(")>>, pos, pos + 2)
    BY <1>3, TokIs, CallHead
  <2>3. Built(text, ast, <<The(")")>>, pos + 2, pos + 3)
    <3>1. PICK r, q : r = ")" /\ q = pos + 2
      OBVIOUS
    <3>2. r \in Token /\ TokIn(text, q) = r
      BY <3>1, TokIs, ClassesAreTokens, Zenon
    <3>3. q \in Nat \ {0} /\ q + 1 = pos + 3
      BY <1>3, <3>1
    <3>4. Built(text, ast, <<The(r)>>, q, q + 1)
      BY <3>2, <3>3, BuiltThe
    <3> QED
      BY <3>1, <3>3, <3>4
  <2>4. Built(text, ast, <<Word(Ident, pos), The("(")>> \o <<>>, pos, pos + 2)
    BY <1>3, <2>2, BuiltNone, BuiltJoin
  <2>5. Built(text, ast, (<<Word(Ident, pos), The("(")>> \o <<>>) \o <<The(")")>>, pos, pos + 3)
    BY <2>3, <2>4, BuiltJoin
  <2>6. Rule(y) = (<<Word(Ident, pos), The("(")>> \o <<>>) \o <<The(")")>>
    BY <2>1, RuleIs
  <2> QED
    BY <2>1, <2>5, <2>6 DEF Made
<1>6. k \in {"number", "variable", "unary", "call", "if", "for", "var"}
  BY <1>1
<1> QED
  BY <1>2, <1>3, <1>4, <1>5, <1>6, NodeMatches

LEMMA CallBegins ==
    ASSUME MatchHere, phase = "unary", Tok(pos) \in Ident, Tok(pos + 1) = "(",
           NEW ns, ns = <<pos>>, Wait([Frame("call", pos) EXCEPT !.names = ns], pos + 2)
    PROVE  MatchInv'
<1>1. PICK g, f : g = Frame("call", pos) /\ f = [g EXCEPT !.names = ns]
  OBVIOUS
<1>2. pos \in Nat \ {0} /\ pos + 2 \in Nat \ {0}
  BY WaitedHere
<1>3. "call" \in Function
  BY DEF Function
<1>4. g \in FrameType /\ g.fn = "call" /\ g.at = pos /\ g.kids = <<>> /\ ns \in Seq(Nat)
  BY <1>1, <1>2, <1>3, FrameFields, WithinOne
<1>5. f \in FrameType /\ f.fn = "call" /\ f.at = pos /\ f.kids = <<>>
  BY <1>1, <1>4 DEF FrameType
<1>6. Built(text, ast, CallParts(f), f.at, pos + 2)
  <2>1. Built(text, ast, <<Word(Ident, pos), The("(")>>, pos, pos + 2)
    BY <1>2, TokIs, CallHead
  <2>2. Built(text, ast, <<Word(Ident, pos), The("(")>> \o <<>>, pos, pos + 2)
    BY <1>2, <2>1, BuiltNone, BuiltJoin
  <2> QED
    BY <1>5, <2>2, SeparateNone DEF CallParts
<1>7. Begun(text, ast, f, pos + 2)
  BY <1>5, <1>6 DEF Begun
<1>8. Wait(f, pos + 2)
  BY <1>1
<1> QED
  BY <1>2, <1>5, <1>7, <1>8, WaitMatches

LEMMA IdentifierMatches == ASSUME MatchHere, ParseIdentifier PROVE MatchInv'
<1>1. phase = "unary" /\ Tok(pos) \in Ident
  BY DEF ParseIdentifier, CurTok
<1>2. (pos + 1) + 1 = pos + 2 /\ (pos + 1) + 2 = pos + 3
  BY MatchFacts
<1>3. PICK ns : ns = <<pos>>
  OBVIOUS
<1>4. \/ Build(stack, Node("variable", pos, pos, ns, <<>>), pos + 1)
      \/ /\ Tok(pos + 1) = "(" /\ Tok(pos + 2) = ")"
         /\ Build(stack, Node("call", pos, pos, ns, <<>>), pos + 3)
      \/ Tok(pos + 1) = "(" /\ Wait([Frame("call", pos) EXCEPT !.names = ns], pos + 2)
  BY <1>2, <1>3, Zenon DEF ParseIdentifier
<1> QED
  BY <1>1, <1>3, <1>4, VariableMatches, NoCallMatches, CallBegins

\* One pair of parentheses more.
LEMMA EnclosedMore ==
    ASSUME NEW t, NEW p \in Nat, NEW from \in Nat, NEW to \in Int, NEW e,
           Enclosed(t, p + 1, from, to, e), TokIn(t, p) = "(", TokIn(t, e) = ")"
    PROVE  Enclosed(t, p, from, to, e + 1)
<1>1. PICK d : d = from - p
  OBVIOUS
<1>2. d \in Nat \ {0} /\ e = to + d /\ p <= from /\ e + 1 = to + (from - p) + 1
  BY <1>1 DEF Enclosed
<1>3. \A i \in 0..d - 2 : TokIn(t, p + 1 + i) = "(" /\ TokIn(t, to + 1 + i) = ")"
  <2>1. from - (p + 1) - 1 = d - 2
    BY <1>1
  <2> QED
    BY <2>1 DEF Enclosed
<1>4. ASSUME NEW i \in 0..d - 1 PROVE TokIn(t, p + i) = "("
  <2>1. CASE i = 0
    <3>1. p + i = p
      BY <2>1
    <3> QED
      BY <3>1
  <2>2. CASE i # 0
    <3>1. i - 1 \in 0..d - 2 /\ p + 1 + (i - 1) = p + i
      BY <1>2, <2>2
    <3> QED
      BY <1>3, <3>1
  <2> QED
    BY <2>1, <2>2
<1>5. ASSUME NEW i \in 0..d - 1 PROVE TokIn(t, to + 1 + i) = ")"
  <2>1. CASE i = d - 1
    <3>1. to + 1 + i = e
      BY <1>2, <2>1
    <3> QED
      BY <3>1
  <2>2. CASE i # d - 1
    <3>1. i \in 0..d - 2
      BY <1>2, <2>2
    <3> QED
      BY <1>3, <3>1
  <2> QED
    BY <2>1, <2>2
<1> QED
  BY <1>1, <1>2, <1>4, <1>5 DEF Enclosed

LEMMA ParenMatches == ASSUME MatchHere, ParseParen PROVE MatchInv'
<1>1. PICK g : g = Frame("paren", pos)
  OBVIOUS
<1>2. phase = "unary" /\ Tok(pos) = "(" /\ Wait(g, pos + 1)
  BY <1>1, Zenon DEF ParseParen, At, CurTok
<1>3. "paren" \in Function /\ pos \in Nat \ {0} /\ pos + 1 \in Nat \ {0}
  BY MatchFacts DEF Function
<1>4. g \in FrameType /\ g.fn = "paren" /\ g.at = pos
  BY <1>1, <1>3, FrameFields
<1>5. TokIn(text, g.at) = "("
  BY <1>2, <1>4, TokIs
<1>6. Begun(text, ast, g, pos + 1)
  BY <1>4, <1>5 DEF Begun
<1> QED
  BY <1>2, <1>3, <1>4, <1>6, WaitMatches

LEMMA CloseParenMatches == ASSUME MatchHere, CloseParen PROVE MatchInv'
<1>1. PICK f : f = "paren"
  OBVIOUS
<1>2. Got(f)
  BY <1>1, Zenon DEF CloseParen
<1>3. stack # <<>> /\ Top.fn = f /\ ret \in 1..Len(ast) /\ Top \in FrameType
  BY <1>2, GotAnswer
<1>4. CASE CurTok = ")" /\ Return(Rest, ret) /\ ast' = ast /\ pos' = pos + 1
  <2>1. PICK q \in Nat \ {0} : Begun(text, ast, Top, q) /\ Enclosed(text, q, ast[ret].from, ast[ret].to, pos)
    BY <1>2, GotAnswer
  <2>2. TokIn(text, Top.at) = "(" /\ q = Top.at + 1
    BY <1>1, <1>3, <2>1 DEF Begun
  <2>3. /\ Top.at \in Nat \ {0} /\ Rest \in Seq(FrameType)
        /\ Rest # <<>> => Begun(text, ast, Rest[Len(Rest)], Top.at)
    BY <1>3, PopMatches
  <2>4. PICK x : x = ast[ret]
    OBVIOUS
  <2>5. x.from \in Nat /\ x.to \in Int
    <3>1. ast \in Seq(NodeType)
      BY MatchFacts
    <3>2. x \in NodeType
      BY <1>3, <2>4, <3>1
    <3> QED
      BY <3>2 DEF NodeType
  <2>6. TokIn(text, pos) = ")"
    BY <1>4, TokIs DEF CurTok
  <2>7. Enclosed(text, Top.at, x.from, x.to, pos + 1)
    BY <2>1, <2>2, <2>3, <2>4, <2>5, <2>6, EnclosedMore
  <2>8. stack' = Rest /\ phase' = "return" /\ ret' = ret
    BY <1>4 DEF Return
  <2>9. ASSUME Rest # <<>> PROVE Answered(text, ast', Rest[Len(Rest)], ast'[ret'], pos')
    BY <1>4, <2>3, <2>4, <2>7, <2>8, <2>9 DEF Answered
  <2> QED
    BY <1>3, <1>4, <2>8, <2>9, ReturnMatches DEF TreeMakes
<1>5. CASE Fail(Rest, pos)
  BY <1>3, <1>5, FailMatches
<1> QED
  BY <1>4, <1>5, Zenon DEF CloseParen

\* What WithKid is.
LEMMA CollectsKid ==
    ASSUME MatchHere, NEW f, Got(f)
    PROVE  /\ WithKid \in FrameType /\ WithKid.at = Top.at /\ WithKid.fn = f /\ WithKid.names = Top.names
           /\ Top.kids \in Seq(Nat) /\ Top.names \in Seq(Nat) /\ WithKid.kids \in Seq(Nat)
           /\ Len(WithKid.kids) = Len(Top.kids) + 1 /\ WithKid.kids[Len(WithKid.kids)] = ret
           /\ WithKid.kids[Len(Top.kids) + 1] = ret /\ Len(Top.kids) \in Nat
           /\ \A i \in 1..Len(Top.kids) : WithKid.kids[i] = Top.kids[i]
           /\ WithKid.kids = Append(Top.kids, ret) /\ Top.op = WithKid.op
<1>1. stack # <<>> /\ Top.fn = f /\ ret \in Nat /\ Top \in FrameType
  BY GotAnswer
<1>2. PICK ks : ks = Append(Top.kids, ret)
  OBVIOUS
<1>3. Top.kids \in Seq(Nat) /\ Top.names \in Seq(Nat)
  BY <1>1 DEF FrameType
<1>4. /\ ks \in Seq(Nat) /\ Len(ks) = Len(Top.kids) + 1 /\ Len(Top.kids) \in Nat
      /\ \A i \in 1..Len(Top.kids) : ks[i] = Top.kids[i]
      /\ ks[Len(Top.kids) + 1] = ret
  BY <1>1, <1>2, <1>3, PushFacts
<1>5. WithKid = [Top EXCEPT !.kids = ks]
  BY <1>2 DEF WithKid
<1>6. /\ WithKid \in FrameType /\ WithKid.at = Top.at /\ WithKid.fn = Top.fn
      /\ WithKid.names = Top.names /\ WithKid.kids = ks /\ WithKid.op = Top.op
  BY <1>1, <1>4, <1>5 DEF FrameType
<1> QED
  BY <1>1, <1>2, <1>3, <1>4, <1>6

LEMMA IfMatches == ASSUME MatchHere, ParseIf PROVE MatchInv'
<1>1. PICK g : g = Frame("if", pos)
  OBVIOUS
<1>2. phase = "unary" /\ Tok(pos) = "if" /\ Wait(g, pos + 1)
  BY <1>1, Zenon DEF ParseIf, At, CurTok
<1>3. "if" \in Function /\ pos \in Nat \ {0} /\ pos + 1 \in Nat \ {0}
  BY MatchFacts DEF Function
<1>4. g \in FrameType /\ g.fn = "if" /\ g.at = pos /\ g.kids = <<>> /\ Len(g.kids) = 0
  BY <1>1, <1>3, FrameFields, NoLists
<1>5. {"if"} \subseteq Token /\ TokIn(text, pos) \in {"if"}
  BY <1>2, TokIs, ClassesAreTokens
<1>6. Built(text, ast, <<Word({"if"}, g.at)>>, g.at, pos + 1)
  BY <1>3, <1>4, <1>5, BuiltWord
<1>7. IfBegun(text, ast, g, pos + 1)
  BY <1>4, <1>6 DEF IfBegun
<1>8. Begun(text, ast, g, pos + 1)
  BY <1>4, <1>7 DEF Begun
<1> QED
  BY <1>2, <1>3, <1>4, <1>8, WaitMatches

\* The part a function waited for, and the word behind it.
LEMMA AnswerAnd ==
    ASSUME MatchHere, NEW k \in Nat, NEW q, Built(text, ast, <<Sub(k)>>, q, pos),
           NEW w \in Token, CurTok = w
    PROVE  Built(text, ast, <<Sub(k), The(w)>>, q, pos + 1)
<1>1. pos \in Nat \ {0} /\ TokIn(text, pos) = w
  BY MatchFacts, TokIs DEF CurTok
<1>2. Built(text, ast, <<Sub(k)>> \o <<The(w)>>, q, pos + 1)
  BY <1>1, BuiltThe, BuiltJoin
<1>3. <<Sub(k)>> \o <<The(w)>> = <<Sub(k), The(w)>>
  <2>1. Sub(k) \in ItemType /\ The(w) \in ItemType
    BY SubItem, WordItem DEF The, AnyPlace
  <2> QED
    BY <2>1, JoinTwo
<1> QED
  BY <1>2, <1>3

LEMMA IfPartMatches == ASSUME MatchHere, IfPart PROVE MatchInv'
<1>1. PICK f : f = "if"
  OBVIOUS
<1>2. Got(f)
  BY <1>1, Zenon DEF IfPart
<1>3. /\ stack # <<>> /\ Top.fn = f /\ ret \in 1..Len(ast) /\ ret \in Nat /\ Top \in FrameType
      /\ Top.at \in Nat \ {0} /\ pos \in Nat \ {0}
  BY <1>2, GotAnswer, PopMatches, MatchFacts
<1>4. /\ WithKid \in FrameType /\ WithKid.at = Top.at /\ WithKid.fn = f /\ WithKid.kids \in Seq(Nat)
      /\ Len(Top.kids) \in Nat /\ Len(WithKid.kids) = Len(Top.kids) + 1
      /\ WithKid.kids[Len(Top.kids) + 1] = ret
      /\ \A i \in 1..Len(Top.kids) : WithKid.kids[i] = Top.kids[i]
      /\ Top.kids \in Seq(Nat)
  BY <1>2, CollectsKid
<1>5. PICK q \in Nat \ {0} : Begun(text, ast, Top, q) /\ Built(text, ast, <<Sub(ret)>>, q, pos)
  BY <1>2, GotAnswer
<1>6. IfBegun(text, ast, Top, q)
  BY <1>1, <1>3, <1>5 DEF Begun
<1>7. PICK th, el : th = "then" /\ el = "else" /\ th \in Token /\ el \in Token
  BY ClassesAreTokens, Zenon
<1>8. {"if"} \subseteq Token
  BY ClassesAreTokens
<1>9. /\ Word({"if"}, Top.at) \in ItemType /\ The(th) \in ItemType /\ The(el) \in ItemType
      /\ \A k \in Nat : Sub(k) \in ItemType
  BY <1>3, <1>7, <1>8, WordItem, SubItem DEF The, AnyPlace
<1>10. CASE Len(Top.kids) = 0
  <2>1. Top.kids = <<>> /\ WithKid.kids[1] = ret /\ Len(WithKid.kids) = 1
    BY <1>4, <1>10, EmptySeq
  <2>2. Built(text, ast, <<Word({"if"}, Top.at)>>, Top.at, q)
    BY <1>6, <1>10 DEF IfBegun
  <2>3. ASSUME CurTok = th PROVE Begun(text, ast, WithKid, pos + 1)
    <3>1. Built(text, ast, <<Word({"if"}, Top.at)>> \o <<Sub(ret)>>, Top.at, pos)
      BY <1>5, <2>2, BuiltJoin
    <3>2. <<Word({"if"}, Top.at)>> \o <<Sub(ret)>> = <<Word({"if"}, Top.at), Sub(ret)>>
      BY <1>3, <1>9, JoinTwo
    <3>6. Built(text, ast, <<The(th)>>, pos, pos + 1)
      BY <1>3, <1>7, <2>3, TokIs, BuiltThe DEF CurTok
    <3>7. Built(text, ast, <<Word({"if"}, Top.at), Sub(ret)>> \o <<The(th)>>, Top.at, pos + 1)
      BY <3>1, <3>2, <3>6, BuiltJoin
    <3>3. <<Word({"if"}, Top.at), Sub(ret)>> \o <<The(th)>> = <<Word({"if"}, Top.at), Sub(ret), The(th)>>
      BY <1>3, <1>9, JoinThree
    <3>4. Built(text, ast, ThenPart(WithKid), WithKid.at, pos + 1)
      BY <1>4, <1>7, <2>1, <3>3, <3>7 DEF ThenPart
    <3>5. IfBegun(text, ast, WithKid, pos + 1)
      BY <2>1, <3>4 DEF IfBegun
    <3> QED
      BY <1>1, <1>4, <3>5 DEF Begun
  <2>4. Len(WithKid.kids) # 3
    BY <2>1
  <2>5. Expects(Append(Rest, WithKid), th)
    BY <1>7, <2>1, <2>4, Zenon DEF IfPart
  <2> QED
    BY <1>3, <1>4, <2>3, <2>5, ExpectsMatches
<1>11. CASE Len(Top.kids) = 1
  <2>1. Top.kids # <<>> /\ WithKid.kids[2] = ret /\ Len(WithKid.kids) = 2 /\ WithKid.kids[1] = Top.kids[1]
        /\ Top.kids[1] \in Nat
    BY <1>4, <1>11, EmptySeq
  <2>2. Built(text, ast, ThenPart(Top), Top.at, q)
    BY <1>6, <1>11 DEF IfBegun
  <2>3. ASSUME CurTok = el PROVE Begun(text, ast, WithKid, pos + 1)
    <3>1. Built(text, ast, <<Sub(ret), The(el)>>, q, pos + 1)
      BY <1>3, <1>5, <1>7, <2>3, AnswerAnd
    <3>2. Built(text, ast, ThenPart(Top) \o <<Sub(ret), The(el)>>, Top.at, pos + 1)
      BY <2>2, <3>1, BuiltJoin
    <3>3. <<Word({"if"}, Top.at), Sub(Top.kids[1]), The(th)>> \o <<Sub(ret), The(el)>>
            = <<Word({"if"}, Top.at), Sub(Top.kids[1]), The(th), Sub(ret), The(el)>>
      BY <1>3, <1>9, <2>1, JoinFive
    <3>4. Built(text, ast, ElsePart(WithKid), WithKid.at, pos + 1)
      BY <1>4, <1>7, <2>1, <3>2, <3>3 DEF ThenPart, ElsePart
    <3>5. IfBegun(text, ast, WithKid, pos + 1)
      BY <2>1, <3>4 DEF IfBegun
    <3> QED
      BY <1>1, <1>4, <3>5 DEF Begun
  <2>4. Len(WithKid.kids) # 3
    BY <2>1
  <2>5. Expects(Append(Rest, WithKid), el)
    BY <1>7, <2>1, <2>4, Zenon DEF IfPart
  <2> QED
    BY <1>3, <1>4, <2>3, <2>5, ExpectsMatches
<1>12. CASE Len(Top.kids) = 2
  <2>1. /\ WithKid.kids[3] = ret /\ Len(WithKid.kids) = 3 /\ WithKid.kids[1] = Top.kids[1]
        /\ WithKid.kids[2] = Top.kids[2] /\ Top.kids[1] \in Nat /\ Top.kids[2] \in Nat
    BY <1>4, <1>12
  <2>2. PICK p, ns, ks : p = Top.at /\ ns = <<>> /\ ks = WithKid.kids
    OBVIOUS
  <2>3. Build(Rest, Node(f, p, p, ns, ks), pos)
    BY <1>1, <2>1, <2>2, Zenon DEF IfPart
  <2>4. Built(text, ast, ElsePart(Top), p, q)
    BY <1>6, <1>12, <2>2 DEF IfBegun
  <2>5. Built(text, ast, ElsePart(Top) \o <<Sub(ret)>>, p, pos)
    BY <1>5, <2>4, BuiltJoin
  <2>6. <<Word({"if"}, p), Sub(Top.kids[1]), The(th), Sub(Top.kids[2]), The(el)>> \o <<Sub(ret)>>
         = <<Word({"if"}, p), Sub(Top.kids[1]), The(th), Sub(Top.kids[2]), The(el), Sub(ret)>>
    <3>1. /\ Word({"if"}, p) \in ItemType /\ Sub(Top.kids[1]) \in ItemType
          /\ Sub(Top.kids[2]) \in ItemType /\ Sub(ret) \in ItemType
      BY <1>3, <1>9, <2>1, <2>2
    <3>2. PICK u, v, w, x, y, z : /\ u = Word({"if"}, p) /\ v = Sub(Top.kids[1]) /\ w = The(th)
                                  /\ x = Sub(Top.kids[2]) /\ y = The(el) /\ z = Sub(ret)
      OBVIOUS
    <3>3. /\ u \in ItemType /\ v \in ItemType /\ w \in ItemType /\ x \in ItemType
          /\ y \in ItemType /\ z \in ItemType
      BY <1>9, <3>1, <3>2
    <3>4. <<u, v, w, x, y>> \o <<z>> = <<u, v, w, x, y, z>>
      BY <3>3, JoinSix
    <3> QED
      BY <3>2, <3>4, Zenon
  <2>7. ASSUME NEW y, Fits(y, f, p, ns, ks, pos) PROVE Made(y)
    <3>1. /\ y.kind = "if" /\ y.at = p /\ y.from = p /\ y.to + 1 = pos /\ y.kids = ks
      BY <1>1, <2>7 DEF Fits
    <3>2. Rule(y) = <<Word({"if"}, p), Sub(Top.kids[1]), The(th), Sub(Top.kids[2]), The(el), Sub(ret)>>
      BY <1>7, <2>1, <2>2, <3>1, RuleIs
    <3>3. Built(text, ast, Rule(y), p, pos)
      BY <1>7, <2>2, <2>5, <2>6, <3>2 DEF ElsePart
    <3> QED
      BY <3>1, <3>3 DEF Made
  <2>8. Rest # <<>> => Begun(text, ast, Rest[Len(Rest)], p)
    BY <1>3, <2>2, PopMatches
  <2>9. p \in Nat \ {0} /\ ns \in Seq(Nat) /\ ks \in Seq(Nat)
    BY <1>3, <1>4, <2>2, NoLists
  <2>10. f \in {"number", "variable", "unary", "call", "if", "for", "var"}
    BY <1>1
  <2> QED
    BY <1>3, <2>3, <2>7, <2>8, <2>9, <2>10, NodeMatches
<1>13. Len(Top.kids) \in {0, 1, 2}
  <2>1. Len(Top.kids) <= 2
    BY <1>6 DEF IfBegun
  <2>2. PICK n : n = Len(Top.kids)
    OBVIOUS
  <2>3. n \in Nat /\ n <= 2
    BY <1>4, <2>1, <2>2
  <2>4. n \in {0, 1, 2}
    BY <2>3
  <2> QED
    BY <2>2, <2>4
<1> QED
  BY <1>10, <1>11, <1>12, <1>13

LEMMA SpelledComma == Comma \in ItemType /\ Comma.sub = 0
<1>1. PICK w, C : w = "," /\ C = {w} /\ w \in Token
  BY ClassesAreTokens, Zenon
<1>2. Word(C, 0) \in ItemType /\ Word(C, 0).sub = 0
  BY <1>1, WordItem
<1>3. Comma = Word(C, 0)
  BY <1>1, Zenon DEF Comma, The, AnyPlace
<1> QED
  BY <1>2, <1>3

LEMMA ConcatRegroups ==
    ASSUME NEW r \in Seq(ItemType), NEW s \in Seq(ItemType), NEW u \in Seq(ItemType)
    PROVE  (r \o s) \o u = r \o (s \o u)
BY ConcatAssociative

\* A call with one argument more.
LEMMA CallParse ==
    ASSUME NEW t, NEW a, NEW kids \in Seq(Nat), NEW k \in Nat, NEW p \in Nat, NEW q, NEW e,
           Built(t, a, <<Word(Ident, p), The("(")>> \o Separate(kids), p, q), Built(t, a, <<Sub(k)>>, q, e)
    PROVE  /\ Built(t, a, <<Word(Ident, p), The("(")>> \o Listed(Append(kids, k)), p, e)
           /\ Built(t, a, <<Comma>>, e, e + 1) =>
                Built(t, a, <<Word(Ident, p), The("(")>> \o Separate(Append(kids, k)), p, e + 1)
<1>1. PICK A, s, u : A = <<Word(Ident, p), The("(")>> /\ s = Separate(kids) /\ u = <<Sub(k)>>
  OBVIOUS
<1>2. Sub(k) \in ItemType /\ s \in Seq(ItemType) /\ u \in Seq(ItemType)
  BY <1>1, SubItem, SeparateIs, OneFacts
<1>3. A \in Seq(ItemType)
  <2>1. PICK l : l = "("
    OBVIOUS
  <2>2. Ident \subseteq Token /\ l \in Token
    BY <2>1, ClassesAreTokens, Zenon
  <2>3. Word(Ident, p) \in ItemType /\ The(l) \in ItemType
    BY <2>2, WordItem DEF The, AnyPlace
  <2> QED
    BY <1>1, <2>1, <2>3, PairFacts
<1>4. Built(t, a, (A \o s) \o u, p, e)
  BY <1>1, BuiltJoin
<1>5. (A \o s) \o u = A \o (s \o u)
  BY <1>2, <1>3, ConcatRegroups, Zenon
<1>6. Listed(Append(kids, k)) = s \o u
  BY <1>1, SeparateRule
<1>7. ASSUME Built(t, a, <<Comma>>, e, e + 1)
      PROVE  Built(t, a, A \o Separate(Append(kids, k)), p, e + 1)
  <2>1. Comma \in ItemType
    BY Zenon, SpelledComma
  <2>2. PICK c : c = <<Comma>>
    OBVIOUS
  <2>3. c \in Seq(ItemType) /\ s \o u \in Seq(ItemType)
    BY <1>2, <2>1, <2>2, OneFacts, ConcatProperties
  <2>4. Built(t, a, (A \o (s \o u)) \o c, p, e + 1)
    BY <1>4, <1>5, <1>7, <2>2, BuiltJoin
  <2>8. (s \o u) \o c = s \o (u \o c)
    BY <1>2, <2>3, ConcatRegroups, Zenon
  <2>9. PICK v : v = s \o u
    OBVIOUS
  <2>10. v \in Seq(ItemType) /\ c \in Seq(ItemType)
    BY <2>3, <2>9
  <2>11. (A \o v) \o c = A \o (v \o c)
    BY <1>3, <2>10, ConcatRegroups, Zenon
  <2>5. (A \o (s \o u)) \o c = A \o ((s \o u) \o c) /\ (s \o u) \o c = s \o (u \o c)
    BY <2>8, <2>9, <2>11, Zenon
  <2>6. u \o c = <<Sub(k), Comma>>
    BY <1>1, <1>2, <2>1, <2>2, JoinTwo
  <2>7. Separate(Append(kids, k)) = s \o (u \o c)
    BY <1>1, <2>6, SeparateMore
  <2> QED
    BY <2>4, <2>5, <2>7
<1> QED
  BY <1>1, <1>4, <1>5, <1>6, <1>7

LEMMA CallArgumentMatches == ASSUME MatchHere, CallArgument PROVE MatchInv'
<1>1. PICK f, r : f = "call" /\ r = ")"
  OBVIOUS
<1>2. Got(f)
  BY <1>1, Zenon DEF CallArgument
<1>3. /\ stack # <<>> /\ Top.fn = f /\ ret \in 1..Len(ast) /\ ret \in Nat /\ Top \in FrameType
      /\ Top.at \in Nat \ {0} /\ pos \in Nat \ {0}
  BY <1>2, GotAnswer, PopMatches, MatchFacts
<1>4. /\ WithKid \in FrameType /\ WithKid.at = Top.at /\ WithKid.fn = f /\ WithKid.kids \in Seq(Nat)
      /\ WithKid.kids = Append(Top.kids, ret) /\ Top.kids \in Seq(Nat) /\ Top.names \in Seq(Nat)
      /\ Len(WithKid.kids) = Len(Top.kids) + 1 /\ Len(Top.kids) \in Nat
  BY <1>2, CollectsKid
<1>5. PICK q \in Nat \ {0} : Begun(text, ast, Top, q) /\ Built(text, ast, <<Sub(ret)>>, q, pos)
  BY <1>2, GotAnswer
<1>6. Built(text, ast, CallParts(Top), Top.at, q)
  BY <1>1, <1>3, <1>5 DEF Begun
<1>7. PICK p, ns, ks : p = Top.at /\ ns = Top.names /\ ks = WithKid.kids
  OBVIOUS
<1>8. Built(text, ast, <<Word(Ident, p), The("(")>> \o Separate(Top.kids), p, q)
  BY <1>6, <1>7 DEF CallParts
<1>9. /\ Built(text, ast, <<Word(Ident, p), The("(")>> \o Listed(ks), p, pos)
      /\ Built(text, ast, <<Comma>>, pos, pos + 1) =>
            Built(text, ast, <<Word(Ident, p), The("(")>> \o Separate(ks), p, pos + 1)
  BY <1>3, <1>4, <1>5, <1>7, <1>8, CallParse
<1>10. CASE CurTok = r /\ Build(Rest, Node(f, p, p, ns, ks), pos + 1)
  <2>1. Built(text, ast, <<The(r)>>, pos, pos + 1)
    <3>1. r \in Token
      BY <1>1, ClassesAreTokens, Zenon
    <3> QED
      BY <1>3, <1>10, <3>1, TokIs, BuiltThe DEF CurTok
  <2>2. Built(text, ast, (<<Word(Ident, p), The("(")>> \o Listed(ks)) \o <<The(r)>>, p, pos + 1)
    BY <1>9, <2>1, BuiltJoin
  <2>3. ks # <<>>
    BY <1>4, <1>7, EmptySeq
  <2>4. ASSUME NEW y, Fits(y, f, p, ns, ks, pos + 1) PROVE Made(y)
    <3>1. /\ y.kind = "call" /\ y.at = p /\ y.from = p /\ y.to + 1 = pos + 1 /\ y.kids = ks
      BY <1>1, <2>4 DEF Fits
    <3>2. Rule(y) = (<<Word(Ident, p), The("(")>> \o Listed(ks)) \o <<The(r)>>
      BY <1>1, <2>3, <3>1, RuleIs
    <3> QED
      BY <2>2, <3>1, <3>2 DEF Made
  <2>5. Rest # <<>> => Begun(text, ast, Rest[Len(Rest)], p)
    BY <1>3, <1>7, PopMatches
  <2>6. p \in Nat \ {0} /\ ns \in Seq(Nat) /\ ks \in Seq(Nat)
    BY <1>3, <1>4, <1>7
  <2>7. f \in {"number", "variable", "unary", "call", "if", "for", "var"}
    BY <1>1
  <2> QED
    BY <1>3, <1>10, <2>4, <2>5, <2>6, <2>7, NodeMatches
<1>11. CASE Expects(Append(Rest, WithKid), ",")
  <2>1. PICK w : w = "," /\ w \in Token /\ Comma = The(w)
    BY ClassesAreTokens, Zenon DEF Comma
  <2>2. ASSUME CurTok = w PROVE Begun(text, ast, WithKid, pos + 1)
    <3>1. Built(text, ast, <<Comma>>, pos, pos + 1)
      BY <1>3, <2>1, <2>2, TokIs, BuiltThe DEF CurTok
    <3>2. Built(text, ast, CallParts(WithKid), WithKid.at, pos + 1)
      BY <1>4, <1>7, <1>9, <3>1 DEF CallParts
    <3> QED
      BY <1>1, <1>4, <3>2 DEF Begun
  <2>3. Expects(Append(Rest, WithKid), w)
    BY <1>11, <2>1, Zenon
  <2> QED
    BY <1>3, <1>4, <2>2, <2>3, ExpectsMatches
<1> QED
  BY <1>1, <1>7, <1>10, <1>11, Zenon DEF CallArgument
-----------------------------------------------------------------------------
\* A for keeps it.
LEMMA OfThree ==
    ASSUME NEW S, NEW x, NEW y, NEW z, <<x, y, z>> \in Seq(S)
    PROVE  x \in S /\ y \in S /\ z \in S
<1>1. PICK l : l = <<x, y, z>>
  OBVIOUS
<1>2. Len(l) = 3 /\ l[1] = x /\ l[2] = y /\ l[3] = z
  BY <1>1
<1>3. l[1] \in S /\ l[2] \in S /\ l[3] \in S
  BY <1>1, <1>2, ElementOfSeq
<1> QED
  BY <1>2, <1>3

LEMMA OfFive ==
    ASSUME NEW S, NEW x, NEW y, NEW z, NEW u, NEW v, <<x, y, z, u, v>> \in Seq(S)
    PROVE  x \in S /\ y \in S /\ z \in S /\ u \in S /\ v \in S
<1>1. PICK l : l = <<x, y, z, u, v>>
  OBVIOUS
<1>2. Len(l) = 5 /\ l[1] = x /\ l[2] = y /\ l[3] = z /\ l[4] = u /\ l[5] = v
  BY <1>1
<1>3. l[1] \in S /\ l[2] \in S /\ l[3] \in S /\ l[4] \in S /\ l[5] \in S
  BY <1>1, <1>2, ElementOfSeq
<1> QED
  BY <1>2, <1>3

LEMMA ForMatches == ASSUME MatchHere, ParseFor PROVE MatchInv'
<1>1. phase = "unary" /\ Tok(pos) = "for" /\ pos \in Nat \ {0}
  BY MatchFacts DEF ParseFor, At, CurTok
<1>2. CASE \E p : Fail(stack, p)
  BY <1>2, FailMatches
<1>3. PICK ns, eq : ns = <<pos + 1>> /\ eq = "=" /\ eq \in Token
  BY ClassesAreTokens, Zenon
<1>4. CASE /\ Tok(pos + 1) \in Ident /\ Tok((pos + 1) + 1) = eq
           /\ Wait([Frame("for", pos) EXCEPT !.names = ns], (pos + 1) + 2)
  <2>1. PICK p, w : p = (pos + 1) + 1 /\ w = (pos + 1) + 2
    OBVIOUS
  <2>2. p \in Nat \ {0} /\ w \in Nat \ {0} /\ p + 1 = w /\ pos + 1 \in Nat \ {0} /\ (pos + 1) + 1 = p
    BY <1>1, <2>1
  <2>3. ns \in Seq(Nat) /\ ns[1] = pos + 1
    BY <1>3, <2>2, WithinOne
  <2>4. PICK g, f : g = Frame("for", pos) /\ f = [g EXCEPT !.names = ns]
    OBVIOUS
  <2>5. "for" \in Function
    BY DEF Function
  <2>6. g \in FrameType /\ g.fn = "for" /\ g.at = pos /\ g.kids = <<>>
    BY <1>1, <2>4, <2>5, FrameFields
  <2>7. f \in FrameType /\ f.fn = "for" /\ f.at = pos /\ f.kids = <<>> /\ f.names = ns
    BY <2>3, <2>4, <2>6 DEF FrameType
  <2>8. {"for"} \subseteq Token /\ Ident \subseteq Token /\ TokIn(text, pos) \in {"for"}
        /\ TokIn(text, pos + 1) \in Ident /\ TokIn(text, p) = eq
    BY <1>1, <1>4, <2>1, TokIs, ClassesAreTokens
  <2>9. /\ Built(text, ast, <<Word({"for"}, pos)>>, pos, pos + 1)
        /\ Built(text, ast, <<Word(Ident, pos + 1)>>, pos + 1, p)
        /\ Built(text, ast, <<The(eq)>>, p, w)
    <3>1. Built(text, ast, <<Word({"for"}, pos)>>, pos, pos + 1)
      BY <1>1, <2>8, BuiltWord
    <3>2. Built(text, ast, <<Word(Ident, pos + 1)>>, pos + 1, (pos + 1) + 1)
      BY <2>2, <2>8, BuiltWord
    <3>3. Built(text, ast, <<The(eq)>>, p, p + 1)
      BY <1>3, <2>2, <2>8, BuiltThe
    <3> QED
      BY <2>2, <3>1, <3>2, <3>3
  <2>10. /\ Word({"for"}, pos) \in ItemType /\ Word(Ident, pos + 1) \in ItemType /\ The(eq) \in ItemType
    BY <1>1, <1>3, <2>2, <2>8, WordItem DEF The, AnyPlace
  <2>11. Built(text, ast, (<<Word({"for"}, pos)>> \o <<Word(Ident, pos + 1)>>) \o <<The(eq)>>, pos, w)
    BY <2>9, BuiltJoin
  <2>12. <<Word({"for"}, pos)>> \o <<Word(Ident, pos + 1)>> = <<Word({"for"}, pos), Word(Ident, pos + 1)>>
    BY <2>10, JoinTwo
  <2>13. <<Word({"for"}, pos), Word(Ident, pos + 1)>> \o <<The(eq)>>
           = <<Word({"for"}, pos), Word(Ident, pos + 1), The(eq)>>
    BY <2>10, JoinThree
  <2>14. Built(text, ast, ForHead(f), f.at, w)
    BY <1>3, <2>3, <2>7, <2>11, <2>12, <2>13 DEF ForHead
  <2>15. ForBegun(text, ast, f, w)
    <3>1. Len(f.kids) = 0
      BY <2>7, NoLists
    <3> QED
      BY <2>14, <3>1 DEF ForBegun
  <2>16. Begun(text, ast, f, w)
    BY <2>7, <2>15 DEF Begun
  <2>17. Wait(f, w)
    BY <1>4, <2>1, <2>4
  <2> QED
    BY <1>1, <2>2, <2>7, <2>16, <2>17, WaitMatches
<1> QED
  BY <1>2, <1>3, <1>4, Zenon DEF ParseFor

\* The word before a part.
LEMMA WordAnd ==
    ASSUME NEW t, NEW a, NEW w \in Token, NEW q, q - 1 \in Nat \ {0}, TokIn(t, q - 1) = w,
           NEW k \in Nat, NEW p, Built(t, a, <<Sub(k)>>, q, p), q \in Nat \ {0}
    PROVE  Built(t, a, <<The(w), Sub(k)>>, q - 1, p)
<1>1. PICK r : r = q - 1
  OBVIOUS
<1>2. r \in Nat \ {0} /\ r + 1 = q
  BY <1>1
<1>3. Built(t, a, <<The(w)>>, r, r + 1)
  BY <1>1, <1>2, BuiltThe
<1>4. Built(t, a, <<The(w)>> \o <<Sub(k)>>, r, p)
  BY <1>2, <1>3, BuiltJoin
<1>5. <<The(w)>> \o <<Sub(k)>> = <<The(w), Sub(k)>>
  <2>1. Sub(k) \in ItemType /\ The(w) \in ItemType
    BY SubItem, WordItem DEF The, AnyPlace
  <2> QED
    BY <2>1, JoinTwo
<1> QED
  BY <1>1, <1>4, <1>5

\* What a for has after its start, its end and its step.
LEMMA ForStarted ==
    ASSUME NEW t, NEW a, NEW f, NEW g, NEW q, NEW k \in Nat, NEW e, g.at = f.at, g.names = f.names,
           g.kids[1] = k, Built(t, a, ForHead(f), f.at, q), Built(t, a, <<Sub(k), Comma>>, q, e)
    PROVE  Built(t, a, ForStart(g), g.at, e)
<1>1. PICK x, y, z : x = Word({"for"}, f.at) /\ y = Word(Ident, f.names[1]) /\ z = The("=")
  OBVIOUS
<1>2. ForHead(f) = <<x, y, z>> /\ ForStart(g) = <<x, y, z, Sub(k), Comma>>
  BY <1>1, Zenon DEF ForHead, ForStart
<1>3. <<x, y, z>> \in Seq(ItemType)
  BY <1>2, BuiltPlaces
<1>4. x \in ItemType /\ y \in ItemType /\ z \in ItemType
  BY <1>3, OfThree
<1>5. PICK u, v : u = Sub(k) /\ v = Comma
  OBVIOUS
<1>6. u \in ItemType /\ v \in ItemType
  BY <1>5, SubItem, SpelledComma
<1>7. <<x, y, z>> \o <<u, v>> = <<x, y, z, u, v>>
  BY <1>4, <1>6, JoinFive
<1>8. Built(t, a, <<x, y, z>> \o <<u, v>>, f.at, e)
  BY <1>2, <1>5, BuiltJoin
<1> QED
  BY <1>2, <1>5, <1>7, <1>8

LEMMA ForEnded ==
    ASSUME NEW t, NEW a, NEW f, NEW g, NEW q, NEW k \in Nat, NEW e, g.at = f.at, g.names = f.names,
           g.kids[1] = f.kids[1], g.kids[2] = k, Built(t, a, ForStart(f), f.at, q),
           Built(t, a, <<Sub(k)>>, q, e)
    PROVE  Built(t, a, ForEnd(g), g.at, e)
<1>1. PICK x, y, z, u, v : /\ x = Word({"for"}, f.at) /\ y = Word(Ident, f.names[1]) /\ z = The("=")
                           /\ u = Sub(f.kids[1]) /\ v = Comma
  OBVIOUS
<1>2. ForStart(f) = <<x, y, z, u, v>> /\ ForEnd(g) = <<x, y, z, u, v, Sub(k)>>
  BY <1>1, Zenon DEF ForStart, ForEnd
<1>3. <<x, y, z, u, v>> \in Seq(ItemType)
  BY <1>2, BuiltPlaces
<1>4. x \in ItemType /\ y \in ItemType /\ z \in ItemType /\ u \in ItemType /\ v \in ItemType
  BY <1>3, OfFive
<1>5. PICK l : l = Sub(k)
  OBVIOUS
<1>6. l \in ItemType
  BY <1>5, SubItem
<1>7. <<x, y, z, u, v>> \o <<l>> = <<x, y, z, u, v, l>>
  BY <1>4, <1>6, JoinSix
<1>8. Built(t, a, <<x, y, z, u, v>> \o <<l>>, f.at, e)
  BY <1>2, <1>5, BuiltJoin
<1> QED
  BY <1>2, <1>5, <1>7, <1>8

LEMMA ForEndSame ==
    ASSUME NEW f, NEW g, g.at = f.at, g.names = f.names, g.kids[1] = f.kids[1], g.kids[2] = f.kids[2]
    PROVE  ForEnd(g) = ForEnd(f)
BY DEF ForEnd

LEMMA ForStepped ==
    ASSUME NEW t, NEW a, NEW f, NEW g, NEW q \in Nat \ {0}, NEW k \in Nat \ {0}, NEW e, g.at = f.at, g.names = f.names,
           g.kids[1] = f.kids[1], g.kids[2] = f.kids[2], g.kids[3] = k,
           Built(t, a, ForEnd(f), f.at, q - 1), IsComma(t, q - 1), Built(t, a, <<Sub(k)>>, q, e)
    PROVE  Built(t, a, ForStep(g), g.at, e)
<1>1. ForEnd(g) = ForEnd(f)
  BY ForEndSame
<1>2. ForStep(g) = ForEnd(f) \o <<Comma, Sub(k)>>
  BY <1>1 DEF ForStep
<1>3. PICK w : w = "," /\ w \in Token /\ Comma = The(w) /\ TokIn(t, q - 1) = w
  BY ClassesAreTokens, Zenon DEF Comma, IsComma
<1>4. q - 1 \in Nat \ {0}
  BY BuiltPlaces
<1>5. Built(t, a, <<Comma, Sub(k)>>, q - 1, e)
  BY <1>3, <1>4, WordAnd
<1> QED
  BY <1>2, <1>5, BuiltJoin

LEMMA ForSkipped ==
    ASSUME NEW t, NEW a, NEW f, NEW g, NEW e, g.at = f.at, g.names = f.names,
           g.kids[1] = f.kids[1], g.kids[2] = f.kids[2], g.kids[3] = 0,
           Built(t, a, ForEnd(f), f.at, e)
    PROVE  Built(t, a, ForStep(g), g.at, e)
<1>1. ForEnd(g) = ForEnd(f)
  BY ForEndSame
<1>2. ForStep(g) = ForEnd(f) \o <<>>
  BY <1>1 DEF ForStep
<1>3. e \in Nat \ {0}
  BY BuiltPlaces
<1>4. Built(t, a, <<>>, e, e)
  BY <1>3, BuiltNone
<1> QED
  BY <1>2, <1>4, BuiltJoin

\* A function that goes on with the parts it has.
Goes(g) == g \in FrameType /\ g.at = Top.at /\ g.names = Top.names /\ g.fn = Top.fn

LEMMA SkipsKid ==
    ASSUME MatchHere, NEW f, Got(f), NEW g, g = [WithKid EXCEPT !.kids = NullStep(@)]
    PROVE  /\ Goes(g) /\ g.kids \in Seq(Nat) /\ Len(g.kids) = Len(WithKid.kids) + 1
           /\ g.kids[Len(WithKid.kids) + 1] = 0
           /\ \A i \in 1..Len(WithKid.kids) : g.kids[i] = WithKid.kids[i]
<1>1. PICK v, ks : v = WithKid /\ ks = Append(v.kids, 0)
  OBVIOUS
<1>2. /\ v \in FrameType /\ v.at = Top.at /\ v.names = Top.names /\ v.kids \in Seq(Nat)
      /\ v.fn = Top.fn
  BY <1>1, CollectsKid, GotAnswer
<1>3. /\ ks \in Seq(Nat) /\ Len(ks) = Len(v.kids) + 1 /\ ks[Len(v.kids) + 1] = 0
      /\ \A i \in 1..Len(v.kids) : ks[i] = v.kids[i]
  BY <1>1, <1>2, PushFacts
<1>4. g = [v EXCEPT !.kids = ks]
  BY <1>1 DEF NullStep
<1>5. /\ g \in FrameType /\ g.at = v.at /\ g.names = v.names /\ g.fn = v.fn /\ g.kids = ks
  BY <1>2, <1>3, <1>4 DEF FrameType
<1> QED
  BY <1>1, <1>2, <1>3, <1>5 DEF Goes

LEMMA ForPartMatches == ASSUME MatchHere, ForPart PROVE MatchInv'
<1>1. PICK f : f = "for"
  OBVIOUS
<1>2. Got(f)
  BY <1>1, Zenon DEF ForPart
<1>3. /\ stack # <<>> /\ Top.fn = f /\ ret \in 1..Len(ast) /\ ret \in Nat \ {0} /\ Top \in FrameType
      /\ Top.at \in Nat \ {0} /\ pos \in Nat \ {0}
  BY <1>2, GotAnswer, PopMatches, MatchFacts
<1>4. PICK v, n : v = WithKid /\ n = Len(Top.kids)
  OBVIOUS
<1>5. /\ v \in FrameType /\ v.at = Top.at /\ v.fn = f /\ v.names = Top.names /\ v.kids \in Seq(Nat)
      /\ Top.kids \in Seq(Nat) /\ n \in Nat /\ Len(v.kids) = n + 1
      /\ v.kids[n + 1] = ret /\ \A i \in 1..n : v.kids[i] = Top.kids[i]
  BY <1>2, <1>4, CollectsKid
<1>17. Top.names \in Seq(Nat)
  BY <1>3 DEF FrameType
<1>6. PICK q \in Nat \ {0} : Begun(text, ast, Top, q) /\ Built(text, ast, <<Sub(ret)>>, q, pos)
  BY <1>2, GotAnswer
<1>7. ForBegun(text, ast, Top, q)
  BY <1>1, <1>3, <1>6 DEF Begun
<1>8. PICK c, in : c = "," /\ in = "in" /\ c \in Token /\ in \in Token /\ Comma = The(c)
  BY ClassesAreTokens, Zenon DEF Comma
<1>19. in = "in"
  BY <1>8, Zenon
<1>9. (pos + 1) - 1 = pos
  BY <1>3
<1>10. ASSUME CurTok = c PROVE IsComma(text, pos)
  BY <1>8, <1>10, TokIs, Zenon DEF CurTok, IsComma
<1>11. TokIn(text, pos) = CurTok
  BY TokIs DEF CurTok
<1>12. CASE n = 0 /\ Expects(Append(Rest, v), c)
  <2>1. Len(v.kids) = 1 /\ v.kids[1] = ret /\ Len(Top.kids) = 0
    BY <1>4, <1>5, <1>12
  <2>2. Built(text, ast, ForHead(Top), Top.at, q)
    BY <1>7, <2>1 DEF ForBegun
  <2>3. ASSUME CurTok = c PROVE Begun(text, ast, v, pos + 1)
    <3>1. Built(text, ast, <<Sub(ret), Comma>>, q, pos + 1)
      BY <1>3, <1>6, <1>8, <2>3, AnswerAnd
    <3>2. Built(text, ast, ForStart(v), v.at, pos + 1)
      BY <1>3, <1>5, <2>1, <2>2, <3>1, ForStarted
    <3>3. ForBegun(text, ast, v, pos + 1)
      BY <2>1, <3>2 DEF ForBegun
    <3> QED
      BY <1>1, <1>5, <3>3 DEF Begun
  <2> QED
    BY <1>3, <1>5, <1>12, <2>3, ExpectsMatches
<1>13. ASSUME n = 1 PROVE Built(text, ast, ForEnd(v), v.at, pos)
  <2>1. v.kids[2] = ret /\ Len(Top.kids) = 1 /\ v.kids[1] = Top.kids[1]
    BY <1>4, <1>5, <1>13
  <2>2. Built(text, ast, ForStart(Top), Top.at, q)
    BY <1>7, <2>1 DEF ForBegun
  <2> QED
    BY <1>3, <1>5, <1>6, <2>1, <2>2, ForEnded
<1>14. CASE n = 1 /\ CurTok = c /\ Expects(Append(Rest, v), c)
  <2>1. Len(v.kids) = 2
    BY <1>5, <1>14
  <2>2. ForBegun(text, ast, v, pos + 1)
    BY <1>9, <1>10, <1>13, <1>14, <2>1 DEF ForBegun
  <2>3. Begun(text, ast, v, pos + 1)
    BY <1>1, <1>5, <2>2 DEF Begun
  <2> QED
    BY <1>3, <1>5, <1>14, <2>3, ExpectsMatches
<1>15. CASE n = 1 /\ Expects(Append(Rest, [v EXCEPT !.kids = NullStep(@)]), in)
  <2>1. PICK g : g = [v EXCEPT !.kids = NullStep(@)]
    OBVIOUS
  <2>2. /\ Goes(g) /\ g.kids \in Seq(Nat) /\ Len(g.kids) = Len(v.kids) + 1
        /\ g.kids[Len(v.kids) + 1] = 0
        /\ \A i \in 1..Len(v.kids) : g.kids[i] = v.kids[i]
    BY <1>2, <1>4, <2>1, SkipsKid
  <2>3. Len(v.kids) = 2
    BY <1>5, <1>15
  <2>4. Len(g.kids) = 3 /\ g.kids[3] = 0 /\ g.kids[1] = v.kids[1] /\ g.kids[2] = v.kids[2]
    BY <2>2, <2>3
  <2>5. g \in FrameType /\ g.at = Top.at /\ g.at = v.at /\ g.names = v.names /\ g.fn = f
    BY <1>3, <1>5, <2>2 DEF Goes
  <2>6. ASSUME CurTok = in PROVE Begun(text, ast, g, pos + 1)
    <3>1. Built(text, ast, ForStep(g), g.at, pos)
      BY <1>13, <1>15, <2>4, <2>5, ForSkipped
    <3>2. ForBegun(text, ast, g, pos + 1)
      BY <1>9, <1>11, <1>19, <2>4, <2>6, <3>1 DEF ForBegun
    <3> QED
      BY <1>1, <2>5, <3>2 DEF Begun
  <2> QED
    BY <1>3, <1>15, <2>1, <2>5, <2>6, ExpectsMatches
<1>16. CASE n = 2 /\ Expects(Append(Rest, v), in)
  <2>1. /\ Len(v.kids) = 3 /\ v.kids[3] = ret /\ Len(Top.kids) = 2
        /\ v.kids[1] = Top.kids[1] /\ v.kids[2] = Top.kids[2]
    BY <1>4, <1>5, <1>16
  <2>2. Built(text, ast, ForEnd(Top), Top.at, q - 1) /\ IsComma(text, q - 1)
    BY <1>7, <2>1 DEF ForBegun
  <2>3. Built(text, ast, ForStep(v), v.at, pos)
    BY <1>3, <1>5, <1>6, <2>1, <2>2, ForStepped
  <2>4. ASSUME CurTok = in PROVE Begun(text, ast, v, pos + 1)
    <3>1. ForBegun(text, ast, v, pos + 1)
      BY <1>9, <1>11, <1>19, <2>1, <2>3, <2>4 DEF ForBegun
    <3> QED
      BY <1>1, <1>5, <3>1 DEF Begun
  <2> QED
    BY <1>3, <1>5, <1>16, <2>4, ExpectsMatches
<1>18. CASE n = 3 /\ Build(Rest, Node("for", Top.at, Top.at, Top.names, v.kids), pos)
  <2>1. PICK p, ns, ks : p = Top.at /\ ns = Top.names /\ ks = v.kids
    OBVIOUS
  <2>2. /\ ks[4] = ret /\ Len(Top.kids) = 3
        /\ ks[1] = Top.kids[1] /\ ks[2] = Top.kids[2] /\ ks[3] = Top.kids[3]
    BY <1>4, <1>5, <1>18, <2>1
  <2>3. Built(text, ast, ForStep(Top), p, q - 1) /\ TokIn(text, q - 1) = in
    BY <1>7, <1>19, <2>1, <2>2 DEF ForBegun
  <2>4. q - 1 \in Nat \ {0}
    BY <2>3, BuiltPlaces
  <2>5. Built(text, ast, <<The(in), Sub(ret)>>, q - 1, pos)
    BY <1>3, <1>6, <1>8, <2>3, <2>4, WordAnd
  <2>6. Built(text, ast, ForStep(Top) \o <<The(in), Sub(ret)>>, p, pos)
    BY <2>3, <2>5, BuiltJoin
  <2>7. ASSUME NEW y, Fits(y, f, p, ns, ks, pos) PROVE Made(y)
    <3>1. y.kind = "for" /\ y.at = p /\ y.from = p /\ y.to + 1 = pos /\ y.kids = ks /\ y.names = ns
      BY <1>1, <2>7 DEF Fits
    <3>2. ForEnd(y) = ForEnd(Top)
      BY <2>1, <2>2, <3>1, ForEndSame
    <3>3. ForStep(y) = ForStep(Top)
      BY <2>2, <3>1, <3>2 DEF ForStep
    <3>4. Rule(y) = ForStep(Top) \o <<The(in), Sub(ret)>>
      BY <1>8, <2>2, <3>1, <3>3, RuleIs
    <3> QED
      BY <2>6, <3>1, <3>4 DEF Made
  <2>8. Rest # <<>> => Begun(text, ast, Rest[Len(Rest)], p)
    BY <1>3, <2>1, PopMatches
  <2>9. p \in Nat \ {0} /\ ns \in Seq(Nat) /\ ks \in Seq(Nat)
    BY <1>3, <1>5, <1>17, <2>1
  <2>10. f \in {"number", "variable", "unary", "call", "if", "for", "var"}
    BY <1>1
  <2>11. Build(Rest, Node(f, p, p, ns, ks), pos)
    BY <1>1, <1>18, <2>1
  <2> QED
    BY <1>3, <2>7, <2>8, <2>9, <2>10, <2>11, NodeMatches
<1> QED
  <2>2. PICK m : m = Len(v.kids)
    OBVIOUS
  <2>3. /\ m = 1 => n = 0
        /\ m = 2 => n = 1
        /\ m = 3 => n = 2
        /\ m = 4 => n = 3
    BY <1>5, <2>2
  <2>4. \/ m = 1 /\ Expects(Append(Rest, v), c)
        \/ m = 2 /\ CurTok = c /\ Expects(Append(Rest, v), c)
        \/ m = 2 /\ Expects(Append(Rest, [v EXCEPT !.kids = NullStep(@)]), in)
        \/ m = 3 /\ Expects(Append(Rest, v), in)
        \/ m = 4 /\ Build(Rest, Node("for", Top.at, Top.at, Top.names, v.kids), pos)
    BY <1>4, <1>8, <2>2, Zenon DEF ForPart
  <2> QED
    BY <1>12, <1>14, <1>15, <1>16, <1>18, <2>3, <2>4, Zenon
-----------------------------------------------------------------------------
\* A var keeps it.
LEMMA LastBack ==
    ASSUME NEW S, NEW s \in Seq(S), s # <<>>
    PROVE  s = Append(AllButLast(s), s[Len(s)])
<1>1. PICK b, x, u : b = AllButLast(s) /\ x = s[Len(s)] /\ u = Append(b, x)
  OBVIOUS
<1>2. /\ b \in Seq(S) /\ Len(s) \in Nat \ {0} /\ Len(b) = Len(s) - 1
      /\ \A i \in 1..Len(s) - 1 : b[i] = s[i]
      /\ x \in S
  BY <1>1, PopFacts
<1>3. /\ u \in Seq(S) /\ Len(u) = Len(b) + 1 /\ (\A i \in 1..Len(b) : u[i] = b[i])
      /\ u[Len(b) + 1] = x
  BY <1>1, <1>2, PushFacts
<1>4. Len(u) = Len(s)
  BY <1>2, <1>3
<1>5. \A i \in 1..Len(s) : u[i] = s[i]
  <2>1. ASSUME NEW i \in 1..Len(s) PROVE u[i] = s[i]
    <3>1. CASE i = Len(s)
      BY <1>1, <1>2, <1>3, <3>1
    <3>2. CASE i # Len(s)
      <4>1. i \in 1..Len(s) - 1 /\ i \in 1..Len(b)
        BY <1>2, <3>2
      <4> QED
        BY <1>2, <1>3, <4>1
    <3> QED
      BY <3>1, <3>2
  <2> QED
    BY <2>1
<1>6. u = s
  BY <1>3, <1>4, <1>5, SeqEqual
<1> QED
  BY <1>1, <1>6

LEMMA VarMatches == ASSUME MatchHere, ParseVar PROVE MatchInv'
<1>1. PICK g : g = Frame("var", pos)
  OBVIOUS
<1>2. /\ phase = "unary" /\ Tok(pos) = "var" /\ stack' = Append(stack, g) /\ phase' = "name"
      /\ pos' = pos + 1 /\ ast' = ast
  BY <1>1 DEF ParseVar, At, CurTok
<1>3. "var" \in Function /\ pos \in Nat \ {0}
  BY MatchFacts DEF Function
<1>4. g \in FrameType /\ g.fn = "var" /\ g.at = pos /\ g.kids = <<>>
  BY <1>1, <1>3, FrameFields
<1>5. g.names = <<>>
  BY <1>1 DEF Frame
<1>6. PICK u : u = Append(stack, g)
  OBVIOUS
<1>7. StackBegun(text, ast, u) /\ u \in Seq(FrameType) /\ u # <<>> /\ u[Len(u)] = g
  BY <1>2, <1>4, <1>6, CalledMatches
<1>8. NameNext(text, ast, g, pos + 1)
  BY <1>2, <1>4, <1>5, TokIs DEF NameNext
<1>9. AtWork(text, ast', stack', phase', pos', ret')
  BY <1>2, <1>6, <1>7, <1>8 DEF AtWork
<1>10. TreeMakes /\ StackBegun(text, ast', stack')
  BY <1>2, <1>6, <1>7 DEF TreeMakes
<1> QED
  BY <1>9, <1>10, Rematch

\* The variables read so far, with their initialisers, up to p.
Listing(f, p) ==
    /\ f \in FrameType /\ f.at = Top.at /\ f.fn = "var"
    /\ TokIn(text, f.at) = "var" /\ Len(f.kids) = Len(f.names) /\ f.names # <<>>
    /\ Built(text, ast, VarItems(f), f.at + 1, p)

LEMMA VarPartsBuilt ==
    ASSUME NEW t, NEW a, NEW f, f.at \in Nat \ {0}, TokIn(t, f.at) = "var", NEW p,
           Built(t, a, VarItems(f), f.at + 1, p)
    PROVE  Built(t, a, VarParts(f), f.at, p)
<1>1. {"var"} \subseteq Token /\ TokIn(t, f.at) \in {"var"}
  BY ClassesAreTokens
<1>2. Built(t, a, <<Word({"var"}, f.at)>>, f.at, f.at + 1)
  BY <1>1, BuiltWord
<1>3. Built(t, a, <<Word({"var"}, f.at)>> \o VarItems(f), f.at, p)
  BY <1>2, BuiltJoin
<1> QED
  BY <1>3 DEF VarParts

\* Only names and initialisers matter.
LEMMA VarPartsSame ==
    ASSUME NEW f, NEW g, g.names \in Seq(Nat), g.names # <<>>, f.names = g.names, f.at = g.at,
           \A i \in 1..Len(g.names) : f.kids[i] = g.kids[i]
    PROVE  VarItems(f) = VarItems(g) /\ VarParts(f) = VarParts(g)
<1>1. PICK m : m = Len(g.names)
  OBVIOUS
<1>2. m \in Nat \ {0}
  BY <1>1, EmptySeq
<1>3. VarItems(f) = VarItems(g)
  BY <1>1, <1>2, VarItemsSame
<1> QED
  BY <1>3 DEF VarParts

LEMMA VarListMatches ==
    ASSUME MatchHere, stack # <<>>, NEW f, NEW p, Listing(f, p), VarList(f, p)
    PROVE  MatchInv'
<1>1. /\ f \in FrameType /\ f.at = Top.at /\ f.fn = "var"
      /\ TokIn(text, f.at) = "var" /\ Len(f.kids) = Len(f.names) /\ f.names # <<>>
      /\ Built(text, ast, VarItems(f), f.at + 1, p)
  BY DEF Listing
<1>2. p \in Nat \ {0} /\ f.at \in Nat \ {0}
  BY <1>1, BuiltPlaces, PopMatches
<1>3. PICK c : c = "," /\ c \in Token /\ Comma = The(c)
  BY ClassesAreTokens, Zenon DEF Comma
<1>4. CASE /\ Tok(p) = c /\ stack' = Append(Rest, f) /\ phase' = "name" /\ pos' = p + 1 /\ ast' = ast
  <2>1. PICK u : u = Append(Rest, f)
    OBVIOUS
  <2>2. StackBegun(text, ast, u) /\ u \in Seq(FrameType) /\ u # <<>> /\ u[Len(u)] = f
    BY <1>1, <2>1, GoesOnBegun
  <2>3. Built(text, ast, <<Comma>>, p, p + 1)
    BY <1>2, <1>3, <1>4, TokIs, BuiltThe
  <2>4. Built(text, ast, VarItems(f) \o <<Comma>>, f.at + 1, p + 1)
    BY <1>1, <2>3, BuiltJoin
  <2>5. NameNext(text, ast, f, p + 1)
    BY <1>1, <2>4 DEF NameNext
  <2>6. AtWork(text, ast', stack', phase', pos', ret')
    BY <1>4, <2>1, <2>2, <2>5 DEF AtWork
  <2>7. TreeMakes /\ StackBegun(text, ast', stack')
    BY <1>4, <2>1, <2>2 DEF TreeMakes
  <2> QED
    BY <2>6, <2>7, Rematch
<1>5. CASE /\ Tok(p) = "in" /\ Expression(Append(Rest, [f EXCEPT !.fn = "varbody"]), p + 1) /\ ast' = ast
  <2>1. PICK g : g = [f EXCEPT !.fn = "varbody"]
    OBVIOUS
  <2>2. "varbody" \in Function
    BY DEF Function
  <2>3. /\ g \in FrameType /\ g.fn = "varbody" /\ g.at = f.at /\ g.names = f.names /\ g.kids = f.kids
        /\ f.names \in Seq(Nat)
    BY <1>1, <2>1, <2>2 DEF FrameType
  <2>4. Built(text, ast, VarParts(f), f.at, p)
    BY <1>1, <1>2, VarPartsBuilt
  <2>5. VarParts(g) = VarParts(f)
    BY <1>1, <2>3, VarPartsSame
  <2>6. (p + 1) - 1 = p /\ p + 1 \in Nat \ {0}
    BY <1>2
  <2>7. BodyBegun(text, ast, g, p + 1)
    BY <1>1, <1>5, <2>3, <2>4, <2>5, <2>6, TokIs DEF BodyBegun
  <2>8. Begun(text, ast, g, p + 1)
    BY <2>3, <2>7 DEF Begun
  <2> QED
    BY <1>1, <1>5, <2>1, <2>3, <2>6, <2>8, PartMatches
<1>6. CASE Fail(Rest, p)
  BY <1>6, FailMatches
<1> QED
  BY <1>3, <1>4, <1>5, <1>6, Zenon DEF VarList

LEMMA NamedVar ==
    ASSUME MatchHere, stack # <<>>, NEW v, v = [Top EXCEPT !.names = Append(@, pos)]
    PROVE  /\ v \in FrameType /\ v.at = Top.at /\ v.fn = Top.fn /\ v.kids = Top.kids
           /\ v.names = Append(Top.names, pos) /\ Top.names \in Seq(Nat) /\ Top.kids \in Seq(Nat)
           /\ v.names # <<>> /\ LastName(v) = pos /\ Unnamed(v) = Top
<1>1. Top \in FrameType /\ pos \in Nat
  BY PopMatches, MatchFacts
<1>2. PICK t, ns : t = Top /\ ns = Append(t.names, pos)
  OBVIOUS
<1>3. t \in FrameType /\ t.names \in Seq(Nat) /\ t.kids \in Seq(Nat)
  BY <1>1, <1>2 DEF FrameType
<1>4. /\ ns \in Seq(Nat) /\ ns # <<>> /\ ns[Len(ns)] = pos /\ AllButLast(ns) = t.names
  <2>1. PICK l, x : l = t.names /\ x = pos
    OBVIOUS
  <2>2. l \in Seq(Nat) /\ x \in Nat /\ ns = Append(l, x)
    BY <1>1, <1>2, <1>3, <2>1
  <2>3. /\ ns \in Seq(Nat) /\ Len(ns) = Len(l) + 1 /\ ns # <<>> /\ ns[Len(l) + 1] = x
        /\ AllButLast(ns) = l
    BY <2>2, PushFacts
  <2> QED
    BY <2>1, <2>3
<1>5. v = [t EXCEPT !.names = ns]
  BY <1>2
<1>6. /\ v \in FrameType /\ v.at = t.at /\ v.fn = t.fn /\ v.kids = t.kids /\ v.names = ns
  BY <1>3, <1>4, <1>5 DEF FrameType
<1>7. LastName(v) = pos
  BY <1>4, <1>6 DEF LastName
<1>8. Unnamed(v) = t
  <2>1. PICK o : o = t.names
    OBVIOUS
  <2>2. Unnamed(v) = [v EXCEPT !.names = o]
    BY <1>4, <1>6, <2>1 DEF Unnamed
  <2>3. [v EXCEPT !.names = o] = t
    BY <1>3, <1>5, <2>1 DEF FrameType
  <2> QED
    BY <2>2, <2>3
<1> QED
  BY <1>2, <1>3, <1>4, <1>6, <1>7, <1>8

LEMMA VarNameMatches == ASSUME MatchHere, VarName PROVE MatchInv'
<1>1. phase = "name"
  BY DEF VarName
<1>2. stack # <<>> /\ NameNext(text, ast, Top, pos) /\ pos \in Nat \ {0} /\ ParserInv
  BY <1>1, MatchFacts DEF AtWork, Top
<1>3. Top.fn = "var" /\ Top.at \in Nat \ {0}
  <2>1. Top.fn = "var"
    BY <1>1, <1>2 DEF ParserInv, WorkOK, Top
  <2> QED
    BY <1>2, <2>1, PopMatches
<1>4. PICK v : v = [Top EXCEPT !.names = Append(@, pos)]
  OBVIOUS
<1>5. /\ v \in FrameType /\ v.at = Top.at /\ v.fn = Top.fn /\ v.kids = Top.kids
      /\ v.names = Append(Top.names, pos) /\ Top.names \in Seq(Nat) /\ Top.kids \in Seq(Nat)
      /\ v.names # <<>> /\ LastName(v) = pos /\ Unnamed(v) = Top
  BY <1>2, <1>4, NamedVar
<1>6. CASE Fail(Rest, pos)
  BY <1>2, <1>6, FailMatches
<1>7. CASE /\ Tok(pos) \in Ident /\ Tok(pos + 1) = "=" /\ Expression(Append(Rest, v), pos + 2)
           /\ ast' = ast
  <2>1. VarBegun(text, ast, v, pos + 2)
    BY <1>2, <1>5, <1>7, TokIs DEF VarBegun
  <2>2. Begun(text, ast, v, pos + 2)
    BY <1>3, <1>5, <2>1 DEF Begun
  <2>3. pos + 2 \in Nat \ {0}
    BY <1>2
  <2> QED
    BY <1>2, <1>5, <1>7, <2>2, <2>3, PartMatches
<1>8. CASE Tok(pos) \in Ident /\ VarList([v EXCEPT !.kids = Append(@, 0)], pos + 1)
  <2>1. PICK ks, f : ks = Append(v.kids, 0) /\ f = [v EXCEPT !.kids = ks]
    OBVIOUS
  <2>2. ks \in Seq(Nat)
    BY <1>5, <2>1
  <2>3. /\ f \in FrameType /\ f.at = Top.at /\ f.fn = "var" /\ f.names = Append(Top.names, pos)
        /\ f.kids = Append(Top.kids, 0)
    BY <1>3, <1>5, <2>1, <2>2 DEF FrameType
  <2>4. Built(text, ast, <<Word(Ident, pos)>> \o Optional("=", 0), pos, pos + 1)
    <3>1. Ident \subseteq Token /\ TokIn(text, pos) \in Ident
      BY <1>8, TokIs, ClassesAreTokens
    <3>2. Built(text, ast, <<Word(Ident, pos)>>, pos, pos + 1)
      BY <1>2, <3>1, BuiltWord
    <3>3. pos + 1 \in Nat \ {0}
      BY <1>2
    <3>4. Built(text, ast, <<Word(Ident, pos)>> \o <<>>, pos, pos + 1)
      BY <3>2, <3>3, BuiltNone, BuiltJoin
    <3>5. Optional("=", 0) = <<>>
      BY DEF Optional
    <3> QED
      BY <3>4, <3>5
  <2>5. /\ TokIn(text, f.at) = "var" /\ Len(f.kids) = Len(f.names) /\ f.names # <<>>
        /\ Built(text, ast, VarItems(f), f.at + 1, pos + 1)
    <3>1. PICK g : g = Top
      OBVIOUS
    <3>2. NameNext(text, ast, g, pos) /\ g.names \in Seq(Nat) /\ g.kids \in Seq(Nat) /\ f.at = g.at
          /\ f.names = Append(g.names, pos) /\ f.kids = Append(g.kids, 0)
      BY <1>2, <1>5, <2>3, <3>1
    <3> QED
      BY <1>2, <2>4, <3>2, ListGoesOn
  <2>6. Listing(f, pos + 1)
    BY <2>3, <2>5 DEF Listing
  <2>7. VarList(f, pos + 1)
    BY <1>8, <2>1
  <2> QED
    BY <1>2, <2>6, <2>7, VarListMatches
<1> QED
  BY <1>4, <1>6, <1>7, <1>8, Zenon DEF VarName, CurTok

LEMMA VarInitMatches == ASSUME MatchHere, VarInit PROVE MatchInv'
<1>1. PICK f : f = "var"
  OBVIOUS
<1>2. Got(f) /\ VarList(WithKid, pos)
  BY <1>1, Zenon DEF VarInit
<1>3. /\ stack # <<>> /\ Top.fn = f /\ ret \in 1..Len(ast) /\ ret \in Nat \ {0} /\ Top \in FrameType
      /\ Top.at \in Nat \ {0} /\ pos \in Nat \ {0} /\ Top.names \in Seq(Nat)
  BY <1>2, GotAnswer, PopMatches, MatchFacts, CollectsKid
<1>4. PICK v, t, g, l : v = WithKid /\ t = Top /\ g = Unnamed(t) /\ l = LastName(t)
  OBVIOUS
<1>5. /\ v \in FrameType /\ v.at = t.at /\ v.fn = f /\ v.names = t.names
      /\ t.kids \in Seq(Nat) /\ v.kids = Append(t.kids, ret)
  BY <1>2, <1>4, CollectsKid
<1>6. PICK q \in Nat \ {0} : Begun(text, ast, Top, q) /\ Built(text, ast, <<Sub(ret)>>, q, pos)
  BY <1>2, GotAnswer
<1>7. VarBegun(text, ast, t, q)
  BY <1>1, <1>3, <1>4, <1>6 DEF Begun
<1>8. /\ t.names # <<>> /\ NameNext(text, ast, g, l)
      /\ TokIn(text, l) \in Ident /\ TokIn(text, l + 1) = "=" /\ q = l + 2
  BY <1>4, <1>7 DEF VarBegun
<1>9. PICK ns : ns = AllButLast(t.names)
  OBVIOUS
<1>10. ns \in Seq(Nat) /\ l \in Nat /\ t.names = Append(ns, l)
  BY <1>3, <1>4, <1>8, <1>9, PopFacts, LastBack DEF LastName
<1>11. g = [t EXCEPT !.names = ns]
  BY <1>4, <1>9 DEF Unnamed
<1>12. g.names = ns /\ g.kids = t.kids /\ g.at = t.at
  BY <1>3, <1>4, <1>10, <1>11 DEF FrameType
<1>13. l # 0
  <2>1. CASE g.names = <<>>
    BY <1>3, <1>4, <1>8, <1>12, <2>1 DEF NameNext
  <2>2. CASE g.names # <<>>
    BY <1>8, <2>2, BuiltPlaces DEF NameNext
  <2> QED
    BY <2>1, <2>2
<1>14. Built(text, ast, <<Word(Ident, l)>> \o Optional("=", ret), l, pos)
  <2>1. l \in Nat \ {0} /\ q - 1 = l + 1 /\ q - 1 \in Nat \ {0}
    BY <1>8, <1>10, <1>13
  <2>2. PICK w : w = "=" /\ w \in Token /\ TokIn(text, q - 1) = w
    BY <1>8, <2>1, ClassesAreTokens, Zenon
  <2>3. Built(text, ast, <<The(w), Sub(ret)>>, q - 1, pos)
    BY <1>3, <1>6, <2>1, <2>2, WordAnd
  <2>4. Ident \subseteq Token
    BY ClassesAreTokens
  <2>5. Built(text, ast, <<Word(Ident, l)>>, l, l + 1)
    BY <1>8, <2>1, <2>4, BuiltWord
  <2>6. Built(text, ast, <<Word(Ident, l)>> \o <<The(w), Sub(ret)>>, l, pos)
    BY <2>1, <2>3, <2>5, BuiltJoin
  <2>7. Optional("=", ret) = <<The(w), Sub(ret)>>
    BY <1>3, <2>2 DEF Optional
  <2> QED
    BY <2>6, <2>7
<1>15. /\ TokIn(text, v.at) = "var" /\ Len(v.kids) = Len(v.names) /\ v.names # <<>>
       /\ Built(text, ast, VarItems(v), v.at + 1, pos)
  <2>1. /\ g.names \in Seq(Nat) /\ g.kids \in Seq(Nat) /\ v.at = g.at /\ ret \in Nat
        /\ v.names = Append(g.names, l) /\ v.kids = Append(g.kids, ret) /\ l \in Nat
    BY <1>3, <1>5, <1>10, <1>12
  <2> QED
    BY <1>8, <1>14, <2>1, ListGoesOn
<1>16. Listing(v, pos)
  BY <1>1, <1>4, <1>5, <1>15 DEF Listing
<1> QED
  BY <1>2, <1>3, <1>4, <1>16, VarListMatches

LEMMA VarBodyMatches == ASSUME MatchHere, VarBody PROVE MatchInv'
<1>1. PICK f, k : f = "varbody" /\ k = "var"
  OBVIOUS
<1>2. Got(f) /\ Build(Rest, Node(k, Top.at, Top.at, Top.names, WithKid.kids), pos)
  BY <1>1, Zenon DEF VarBody
<1>3. /\ stack # <<>> /\ Top.fn = f /\ ret \in Nat \ {0} /\ Top \in FrameType
      /\ Top.at \in Nat \ {0} /\ pos \in Nat \ {0} /\ Top.names \in Seq(Nat)
  BY <1>2, GotAnswer, PopMatches, MatchFacts, CollectsKid
<1>4. PICK p, ns, ks : p = Top.at /\ ns = Top.names /\ ks = WithKid.kids
  OBVIOUS
<1>5. /\ ks \in Seq(Nat) /\ Len(ks) = Len(Top.kids) + 1 /\ ks[Len(ks)] = ret /\ Len(Top.kids) \in Nat
      /\ \A i \in 1..Len(Top.kids) : ks[i] = Top.kids[i]
  BY <1>2, <1>4, CollectsKid
<1>6. PICK q \in Nat \ {0} : Begun(text, ast, Top, q) /\ Built(text, ast, <<Sub(ret)>>, q, pos)
  BY <1>2, GotAnswer
<1>7. BodyBegun(text, ast, Top, q)
  BY <1>1, <1>3, <1>6 DEF Begun
<1>8. /\ Len(Top.kids) = Len(Top.names) /\ Top.names # <<>>
      /\ Built(text, ast, VarParts(Top), Top.at, q - 1) /\ TokIn(text, q - 1) = "in"
  BY <1>7 DEF BodyBegun
<1>9. PICK in : in = "in" /\ in \in Token
  BY ClassesAreTokens, Zenon
<1>10. q - 1 \in Nat \ {0}
  BY <1>8, BuiltPlaces
<1>11. Built(text, ast, <<The(in), Sub(ret)>>, q - 1, pos)
  BY <1>3, <1>6, <1>8, <1>9, <1>10, WordAnd
<1>12. Built(text, ast, VarParts(Top) \o <<The(in), Sub(ret)>>, p, pos)
  BY <1>4, <1>8, <1>11, BuiltJoin
<1>13. ASSUME NEW y, Fits(y, k, p, ns, ks, pos) PROVE Made(y)
  <2>1. y.kind = "var" /\ y.at = p /\ y.from = p /\ y.to + 1 = pos /\ y.kids = ks /\ y.names = ns
    BY <1>1, <1>13 DEF Fits
  <2>2. PICK g : g = Top
    OBVIOUS
  <2>3. /\ g.names \in Seq(Nat) /\ g.names # <<>> /\ y.names = g.names /\ y.at = g.at
        /\ \A i \in 1..Len(g.names) : y.kids[i] = g.kids[i]
    BY <1>3, <1>4, <1>5, <1>8, <2>1, <2>2
  <2>4. VarParts(y) = VarParts(g)
    BY <2>3, VarPartsSame
  <2>5. Rule(y) = VarParts(g) \o <<The(in), Sub(ret)>>
    BY <1>5, <1>9, <2>1, <2>4, RuleIs
  <2> QED
    BY <1>12, <2>1, <2>2, <2>5 DEF Made
<1>14. Rest # <<>> => Begun(text, ast, Rest[Len(Rest)], p)
  BY <1>3, <1>4, PopMatches
<1>15. p \in Nat \ {0} /\ ns \in Seq(Nat)
  BY <1>3, <1>4
<1>16. k \in {"number", "variable", "unary", "call", "if", "for", "var"}
  BY <1>1
<1>17. Build(Rest, Node(k, p, p, ns, ks), pos)
  BY <1>2, <1>4
<1> QED
  BY <1>3, <1>5, <1>13, <1>14, <1>15, <1>16, <1>17, NodeMatches
-----------------------------------------------------------------------------
\* Operators keep the third invariant.
LEMMA UnaryMatches == ASSUME MatchHere, ParseUnary PROVE MatchInv'
<1>1. PICK g : g = Frame("unary", pos)
  OBVIOUS
<1>2. /\ phase = "unary" /\ IsUnary(Tok(pos)) /\ stack' = Append(stack, g) /\ pos' = pos + 1
      /\ phase' = phase /\ ret' = ret /\ ast' = ast
  BY <1>1, Zenon DEF ParseUnary, CurTok
<1>3. "unary" \in Function /\ pos \in Nat \ {0}
  BY MatchFacts DEF Function
<1>4. g \in FrameType /\ g.fn = "unary" /\ g.at = pos
  BY <1>1, <1>3, FrameFields
<1>5. TokIn(text, g.at) \in Char \ {"(", ","}
  BY <1>2, <1>4, TokIs, Zenon DEF IsUnary
<1>6. Begun(text, ast, g, pos + 1)
  BY <1>4, <1>5, Zenon DEF Begun
<1>7. PICK u : u = Append(stack, g)
  OBVIOUS
<1>8. StackBegun(text, ast, u) /\ u # <<>> /\ u[Len(u)] = g
  BY <1>2, <1>4, <1>7, CalledMatches
<1>9. stack' = u /\ phase' = "unary" /\ TreeMakes
  BY <1>2, <1>7 DEF TreeMakes
<1>10. AtWork(text, ast', stack', phase', pos', ret')
  BY <1>2, <1>6, <1>8, <1>9 DEF AtWork
<1> QED
  BY <1>2, <1>8, <1>9, <1>10, Rematch

LEMMA UnaryDoneMatches == ASSUME MatchHere, UnaryDone PROVE MatchInv'
<1>1. PICK f, p, ns, ks : f = "unary" /\ p = Top.at /\ ns = <<>> /\ ks = <<ret>>
  OBVIOUS
<1>2. Got(f) /\ Build(Rest, Node(f, p, p, ns, ks), pos)
  BY <1>1, Zenon DEF UnaryDone
<1>3. /\ stack # <<>> /\ Top.fn = f /\ ret \in Nat /\ p \in Nat \ {0} /\ pos \in Nat \ {0}
      /\ Rest # <<>> => Begun(text, ast, Rest[Len(Rest)], p)
  BY <1>1, <1>2, GotAnswer, PopMatches, MatchFacts
<1>4. ns \in Seq(Nat) /\ ks \in Seq(Nat) /\ ks[1] = ret
  BY <1>1, <1>3, WithinOne
<1>5. PICK q \in Nat \ {0} : Begun(text, ast, Top, q) /\ Built(text, ast, <<Sub(ret)>>, q, pos)
  BY <1>2, GotAnswer
<1>6. TokIn(text, p) \in Char \ {"(", ","} /\ q = p + 1
  BY <1>1, <1>3, <1>5, Zenon DEF Begun
<1>7. PICK S : S = Char \ {"(", ","}
  OBVIOUS
<1>8. S \subseteq Token /\ TokIn(text, p) \in S
  BY <1>6, <1>7, ClassesAreTokens, Zenon
<1>9. Built(text, ast, <<Word(S, p)>>, p, q)
  BY <1>3, <1>6, <1>8, BuiltWord
<1>10. Built(text, ast, <<Word(S, p)>> \o <<Sub(ret)>>, p, pos)
  BY <1>5, <1>9, BuiltJoin
<1>11. <<Word(S, p)>> \o <<Sub(ret)>> = <<Word(S, p), Sub(ret)>>
  <2>1. Word(S, p) \in ItemType /\ Sub(ret) \in ItemType
    BY <1>3, <1>8, WordItem, SubItem
  <2> QED
    BY <2>1, JoinTwo
<1>12. ASSUME NEW y, Fits(y, f, p, ns, ks, pos) PROVE Made(y)
  <2>1. y.kind = "unary" /\ y.at = p /\ y.from = p /\ y.to + 1 = pos /\ y.kids[1] = ret
    BY <1>1, <1>4, <1>12 DEF Fits
  <2>2. Rule(y) = <<Word(Char \ {"(", ","}, y.at), Sub(y.kids[1])>>
    BY <2>1, RuleIs, Zenon
  <2>3. Rule(y) = <<Word(S, p), Sub(ret)>>
    BY <1>7, <2>1, <2>2, Zenon
  <2> QED
    BY <1>10, <1>11, <2>1, <2>3 DEF Made
<1>13. f \in {"number", "variable", "unary", "call", "if", "for", "var"}
  BY <1>1
<1> QED
  BY <1>2, <1>3, <1>4, <1>12, <1>13, NodeMatches

LEMMA NothingMatches == ASSUME MatchHere, ParseNothing PROVE MatchInv'
<1>1. Fail(stack, pos)
  BY Zenon DEF ParseNothing
<1> QED
  BY <1>1, FailMatches

LEMMA PartFailsMatches == ASSUME MatchHere, PartFails PROVE MatchInv'
<1>1. stack # <<>> /\ stack' = Rest /\ ret' = 0 /\ phase' = "return" /\ ast' = ast
  BY Zenon DEF PartFails, Return
<1> QED
  BY <1>1, ReturnMatches DEF TreeMakes

\* The loop of parseBinOpRHS.
LEMMA LoopMatches ==
    ASSUME MatchHere, TreeMakes, NEW s \in Seq(FrameType), StackBegun(text, ast', s),
           NEW g \in FrameType, s # <<>> => Begun(text, ast', s[Len(s)], g.at),
           stack' = Append(s, g), phase' = "binop", Holds(text, ast', g, pos')
    PROVE  MatchInv'
<1>1. PICK u, a : u = Append(s, g) /\ a = ast'
  OBVIOUS
<1>2. StackBegun(text, a, u) /\ u # <<>> /\ u[Len(u)] = g
  BY <1>1, BegunPush
<1>3. AtWork(text, ast', stack', phase', pos', ret')
  BY <1>1, <1>2 DEF AtWork
<1> QED
  BY <1>1, <1>2, <1>3, Rematch

LEMMA UnaryParsedMatches == ASSUME MatchHere, UnaryParsed PROVE MatchInv'
<1>1. PICK f, g, z : f = "expr" /\ z = 0 /\ g = BinOpRHS(Top.at, z, ret)
  OBVIOUS
<1>2. Got(f) /\ stack' = Append(Rest, g) /\ phase' = "binop" /\ pos' = pos /\ ast' = ast
  BY <1>1, Zenon DEF UnaryParsed
<1>3. /\ stack # <<>> /\ Top.fn = f /\ ret \in Nat /\ Top.at \in Nat /\ z \in Nat
      /\ StackBegun(text, ast, Rest) /\ Rest \in Seq(FrameType)
      /\ Rest # <<>> => Begun(text, ast, Rest[Len(Rest)], Top.at)
  BY <1>1, <1>2, GotAnswer, PopMatches
<1>4. g \in FrameType /\ g.at = Top.at /\ g.kids[1] = ret
  <2>1. PICK p, r : p = Top.at /\ r = ret
    OBVIOUS
  <2>2. p \in Nat /\ r \in Nat /\ z \in Nat /\ g = BinOpRHS(p, z, r)
    BY <1>1, <1>3, <2>1
  <2>3. g \in FrameType /\ g.at = p /\ g.kids[1] = r
    BY <2>2, RHSFields
  <2> QED
    BY <2>1, <2>3
<1>5. PICK q \in Nat \ {0} : Begun(text, ast, Top, q) /\ Enclosed(text, q, ast[ret].from, ast[ret].to, pos)
  BY <1>2, GotAnswer
<1>6. q = Top.at
  BY <1>1, <1>3, <1>5, Zenon DEF Begun
<1>7. Holds(text, ast, g, pos)
  BY <1>4, <1>5, <1>6 DEF Holds
<1> QED
  BY <1>2, <1>3, <1>4, <1>7, LoopMatches DEF TreeMakes

LEMMA HeadMatches ==
    ASSUME MatchHere, phase = "binop"
    PROVE  /\ stack # <<>> /\ Holds(text, ast, Top, pos) /\ Top \in FrameType /\ Top.at \in Nat \ {0}
           /\ Top.kids[1] \in 1..Len(ast) /\ Top.min \in Nat
           /\ Rest # <<>> => Begun(text, ast, Rest[Len(Rest)], Top.at)
<1>1. stack # <<>> /\ Holds(text, ast, Top, pos)
  BY MatchFacts DEF AtWork, Top
<1>2. Here
  BY DEF MatchHere
<1>3. Top.kids[1] \in 1..Len(ast) /\ Top \in FrameType
  BY <1>2, LoopFacts
<1>4. Top.min \in Nat
  BY <1>3 DEF FrameType
<1> QED
  BY <1>1, <1>3, <1>4, PopMatches

LEMMA NoOperatorMatches == ASSUME MatchHere, NoOperator PROVE MatchInv'
<1>1. phase = "binop" /\ stack' = Rest /\ phase' = "return" /\ ret' = Top.kids[1] /\ ast' = ast /\ pos' = pos
  BY Zenon DEF NoOperator, Return
<1>2. /\ stack # <<>> /\ Holds(text, ast, Top, pos) /\ Top.at \in Nat \ {0}
      /\ Rest # <<>> => Begun(text, ast, Rest[Len(Rest)], Top.at)
  BY <1>1, HeadMatches
<1>3. ASSUME Rest # <<>> PROVE Answered(text, ast', Rest[Len(Rest)], ast'[ret'], pos')
  BY <1>1, <1>2, <1>3 DEF Answered, Holds
<1> QED
  BY <1>1, <1>2, <1>3, ReturnMatches DEF TreeMakes

LEMMA TakeOperatorMatches == ASSUME MatchHere, TakeOperator PROVE MatchInv'
<1>1. PICK f, t : f = [t EXCEPT !.fn = "operand", !.op = pos] /\ t = Top
  OBVIOUS
<1>2. /\ phase = "binop" /\ phase' = "unary" /\ pos' = pos + 1 /\ ast' = ast /\ ret' = ret
      /\ stack' = Append(Rest, f) /\ GetPrecedence(CurTok) >= Top.min
  BY <1>1, Zenon DEF TakeOperator
<1>3. stack # <<>> /\ Holds(text, ast, t, pos) /\ t \in FrameType /\ t.min \in Nat
  BY <1>1, <1>2, HeadMatches
<1>4. pos \in Nat /\ ParserInv
  BY MatchFacts
<1>5. f \in FrameType /\ f.fn = "operand" /\ f.op = pos /\ f.kids = t.kids /\ f.at = t.at
  BY <1>1, <1>3, <1>4 DEF FrameType, Function
<1>6. TokIn(text, pos) \in Char
  <2>1. PICK c : c = CurTok
    OBVIOUS
  <2>2. GetPrecedence(c) >= t.min /\ GetPrecedence(c) \in Int
    BY <1>1, <1>2, <1>4, <2>1, PrecFacts
  <2>3. GetPrecedence(c) >= 0
    BY <1>3, <2>2
  <2>4. c \in Char
    BY <1>4, <2>3, PrecFacts
  <2> QED
    BY <2>1, <2>4, TokIs, Zenon DEF CurTok
<1>7. Holds(text, ast, f, f.op)
  BY <1>3, <1>5 DEF Holds
<1>8. Begun(text, ast, f, pos + 1)
  BY <1>5, <1>6, <1>7 DEF Begun
<1>9. PICK u : u = Append(Rest, f)
  OBVIOUS
<1>10. StackBegun(text, ast, u) /\ u # <<>> /\ u[Len(u)] = f
  BY <1>1, <1>3, <1>5, <1>9, GoesOnBegun
<1>11. AtWork(text, ast', stack', phase', pos', ret')
  BY <1>2, <1>8, <1>9, <1>10 DEF AtWork
<1> QED
  BY <1>2, <1>9, <1>10, <1>11, Rematch DEF TreeMakes

\* What a function has when it gets its right operand.
LEMMA OperandMatches ==
    ASSUME MatchHere, Got("operand") \/ Got("merge")
    PROVE  /\ stack # <<>> /\ Top \in FrameType /\ Top.at \in Nat \ {0} /\ Top.op \in Nat \ {0}
           /\ Top.min \in Nat /\ Top.kids[1] \in 1..Len(ast) /\ Top.kids[1] \in Nat
           /\ TokIn(text, Top.op) \in Char /\ Holds(text, ast, Top, Top.op)
           /\ ret \in 1..Len(ast) /\ ret \in Nat
           /\ Enclosed(text, Top.op + 1, ast[ret].from, ast[ret].to, pos)
           /\ Built(text, ast, <<Sub(ret)>>, Top.op + 1, pos)
<1>1. PICK k \in {"operand", "merge"} : Got(k)
  OBVIOUS
<1>2. Here /\ Len(text) \in Nat /\ Len(ast) \in Nat
  BY MatchFacts, LenProperties DEF MatchHere
<1>3. /\ Top \in FrameType /\ Top.kids[1] \in 1..Len(ast) /\ Top.op \in 1..Len(text) /\ Top.min \in Nat
  BY <1>2, OperandFacts
<1>4. stack # <<>> /\ Top.fn = k /\ ret \in 1..Len(ast) /\ ret \in Nat /\ Top.at \in Nat \ {0}
  BY <1>1, GotAnswer, PopMatches
<1>5. PICK q \in Nat \ {0} : /\ Begun(text, ast, Top, q)
                             /\ Enclosed(text, q, ast[ret].from, ast[ret].to, pos)
                             /\ Built(text, ast, <<Sub(ret)>>, q, pos)
  BY <1>1, GotAnswer
<1>6. TokIn(text, Top.op) \in Char /\ Holds(text, ast, Top, Top.op) /\ q = Top.op + 1
  BY <1>4, <1>5 DEF Begun
<1>7. Top.op \in Nat \ {0} /\ Top.kids[1] \in Nat
  BY <1>2, <1>3
<1> QED
  BY <1>3, <1>4, <1>5, <1>6, <1>7

LEMMA BindsRightMatches == ASSUME MatchHere, BindsRight PROVE MatchInv'
<1>1. PICK k, prec : k = "operand" /\ prec = GetPrecedence(Tok(Top.op))
  OBVIOUS
<1>2. /\ Got(k) /\ phase' = "binop" /\ UNCHANGED <<pos, ret, ast, said>>
      /\ stack' = Rest \o <<[Top EXCEPT !.fn = "merge"], BinOpRHS(Top.op + 1, Above(prec), ret)>>
  BY <1>1, Zenon DEF BindsRight
<1>3. PICK t, m, p, h, g : /\ t = Top /\ m = [t EXCEPT !.fn = "merge"] /\ p = t.op + 1
                           /\ h = prec + 1 /\ g = BinOpRHS(p, h, ret)
  OBVIOUS
<1>4. /\ stack # <<>> /\ t \in FrameType /\ t.op \in Nat \ {0}
      /\ TokIn(text, t.op) \in Char /\ Holds(text, ast, t, t.op) /\ ret \in Nat
      /\ Enclosed(text, p, ast[ret].from, ast[ret].to, pos)
  BY <1>1, <1>2, <1>3, OperandMatches
<1>5. prec \in Int /\ prec >= -1
  BY <1>1, MatchFacts, PrecFacts
<1>6. h \in Nat /\ p \in Nat
  BY <1>3, <1>4, <1>5
<1>7. m \in FrameType /\ m.fn = "merge" /\ m.op = t.op /\ m.kids = t.kids /\ m.at = t.at
  BY <1>3, <1>4 DEF FrameType, Function
<1>8. g \in FrameType /\ g.at = p /\ g.kids[1] = ret
  BY <1>3, <1>4, <1>6, RHSFields
<1>9. Holds(text, ast, m, m.op) /\ Holds(text, ast, g, pos)
  BY <1>4, <1>7, <1>8 DEF Holds
<1>10. Begun(text, ast, m, p)
  BY <1>3, <1>4, <1>7, <1>9 DEF Begun
<1>11. PICK s : s = Append(Rest, m)
  OBVIOUS
<1>12. StackBegun(text, ast, s) /\ s \in Seq(FrameType) /\ s # <<>> /\ s[Len(s)] = m
  BY <1>3, <1>4, <1>7, <1>11, GoesOnBegun
<1>13. stack' = Append(s, g)
  <2>1. Rest \in Seq(FrameType)
    BY <1>4, PopMatches
  <2>2. Rest \o <<m, g>> = Append(Append(Rest, m), g)
    BY <1>7, <1>8, <2>1
  <2>3. g = BinOpRHS(Top.op + 1, Above(prec), ret) /\ m = [Top EXCEPT !.fn = "merge"]
    BY <1>3 DEF Above
  <2> QED
    BY <1>2, <1>11, <2>2, <2>3
<1> QED
  BY <1>2, <1>8, <1>9, <1>10, <1>12, <1>13, LoopMatches DEF TreeMakes

\* A node that merges two operands, and the loop that goes on with it.
MergeFits(y, k, p, o, ns, ks, e) ==
    /\ y \in NodeType /\ y.kind = k /\ y.at = o /\ y.from = p /\ y.names = ns /\ y.kids = ks
    /\ y.to + 1 = e

LEMMA MergedMatches ==
    ASSUME MatchHere, Got("operand") \/ Got("merge"), NEW k \in {"binary", "assign"},
           NEW ns \in Seq(Nat), NEW ks \in Seq(Nat), NEW p, p = Top.at, NEW o, o = Top.op,
           Merged(Node(k, o, p, ns, ks)),
           \A y : MergeFits(y, k, p, o, ns, ks, pos) => Made(y)
    PROVE  MatchInv'
<1>1. PICK z, y, m, g : /\ z = pos - 1 /\ y = [Node(k, o, p, ns, ks) EXCEPT !.to = z]
                        /\ m = Len(ast) + 1 /\ g = BinOpRHS(Top.at, Top.min, m)
  OBVIOUS
<1>2. ast' = Append(ast, y) /\ stack' = Append(Rest, g) /\ phase' = "binop" /\ pos' = pos
  BY <1>1, Zenon DEF Merged
<1>3. stack # <<>> /\ Top \in FrameType /\ p \in Nat \ {0} /\ o \in Nat \ {0} /\ Top.min \in Nat
  BY OperandMatches
<1>4. pos \in Nat /\ ast \in Seq(NodeType) /\ Len(ast) \in Nat
  BY MatchFacts
<1>5. z \in Int /\ z + 1 = pos /\ m \in Nat
  <2>1. z = pos - 1 /\ m = Len(ast) + 1
    BY <1>1, Zenon
  <2> QED
    BY <1>4, <2>1
<1>6. k \in Kind /\ k # "function"
  BY DEF Kind
<1>7. /\ y \in NodeType /\ y.kind = k /\ y.from = p /\ y.at = o /\ y.names = ns /\ y.kids = ks
      /\ y.to = z
  BY <1>1, <1>3, <1>5, <1>6 DEF Node, NodeType
<1>8. Made(y)
  BY <1>5, <1>7 DEF MergeFits
<1>9. TreeMakes
  BY <1>2, <1>6, <1>7, <1>8 DEF TreeMakes
<1>10. Grows(ast, ast')
  BY <1>9, TreeGoesOn
<1>11. ast'[m] = y
  BY <1>1, <1>2, <1>4, <1>7, PushFacts
<1>12. /\ StackBegun(text, ast, Rest) /\ Rest \in Seq(FrameType) /\ StackOK(text, ast, Rest)
       /\ Rest # <<>> => Begun(text, ast, Rest[Len(Rest)], p)
  BY <1>3, PopMatches
<1>13. StackBegun(text, ast', Rest)
  BY <1>10, <1>12, StackKept
<1>14. g \in FrameType /\ g.at = p /\ g.kids[1] = m
  BY <1>1, <1>3, <1>5, RHSOf
<1>15. ASSUME Rest # <<>> PROVE Begun(text, ast', Rest[Len(Rest)], g.at)
  <2>1. Len(Rest) \in 1..Len(Rest)
    BY <1>12, <1>15, PopFacts
  <2>2. FrameOK(text, ast, Rest[Len(Rest)])
    BY <1>12, <2>1 DEF StackOK
  <2> QED
    BY <1>10, <1>12, <1>14, <1>15, <2>2, BegunKept
<1>16. Enclosed(text, p, p, z, pos)
  BY <1>3, <1>5, Bare
<1>17. Holds(text, ast', g, pos')
  BY <1>2, <1>7, <1>11, <1>14, <1>16 DEF Holds
<1> QED
  BY <1>2, <1>9, <1>12, <1>13, <1>14, <1>15, <1>17, LoopMatches

LEMMA BuiltFirst ==
    ASSUME NEW t, NEW a, NEW x, NEW p, NEW e, Built(t, a, <<x>>, p, e)
    PROVE  Takes(t, a, p, x, e)
<1>1. PICK s : s = <<x>>
  OBVIOUS
<1>2. Len(s) = 1 /\ s[1] = x
  BY <1>1
<1>3. PICK w \in [0..Len(s) -> Nat \ {0}] : w[0] = p /\ w[Len(s)] = e /\ Path(t, a, s, w)
  BY <1>1 DEF Built
<1>4. Takes(t, a, w[1 - 1], s[1], w[1])
  BY <1>2, <1>3 DEF Path
<1>5. 1 - 1 = 0
  OBVIOUS
<1> QED
  BY <1>2, <1>3, <1>4, <1>5

\* The variable on the left of an assignment.
LEMMA VariableMade ==
    ASSUME MatchHere, NEW i \in 1..Len(ast), ast[i].kind = "variable"
    PROVE  /\ ast[i].names = <<ast[i].at>> /\ ast[i].names \in Seq(Nat) /\ ast[i].at \in Nat
           /\ ast[i].from = ast[i].at /\ ast[i].to = ast[i].at /\ TokIn(text, ast[i].at) \in Ident
<1>1. PICK n : n = ast[i]
  OBVIOUS
<1>2. Made(n)
  BY <1>1, MatchFacts DEF TreeMade
<1>3. n.kind = "variable"
  BY <1>1
<1>4. n.names = <<n.at>> /\ n.from = n.at /\ n.to = n.at
  BY <1>2, <1>3 DEF Made
<1>5. Built(text, ast, Rule(n), n.from, n.to + 1)
  BY <1>2, <1>3 DEF Made
<1>6. Rule(n) = <<Word(Ident, n.at)>>
  BY <1>3, RuleIs
<1>7. PICK x : x = Word(Ident, n.at)
  OBVIOUS
<1>8. Built(text, ast, <<x>>, n.from, n.to + 1)
  BY <1>5, <1>6, <1>7
<1>9. Takes(text, ast, n.from, x, n.to + 1)
  BY <1>8, BuiltFirst
<1>10. x.sub = 0 /\ x.class = Ident
  BY <1>7 DEF Word
<1>11. TokIn(text, n.from) \in Ident
  BY <1>9, <1>10 DEF Takes
<1>12. n \in NodeType
  <2>1. ast \in Seq(NodeType)
    BY MatchFacts
  <2> QED
    BY <1>1, <2>1
<1>13. n.names \in Seq(Nat) /\ n.at \in Nat
  BY <1>12 DEF NodeType
<1> QED
  BY <1>1, <1>4, <1>11, <1>13

LEMMA BinaryMatches ==
    ASSUME MatchHere, Got("operand") \/ Got("merge"), Tok(Top.op) # "=",
           NEW ns, ns = <<>>, NEW ks, ks = <<Top.kids[1], ret>>,
           Merged(Node("binary", Top.op, Top.at, ns, ks))
    PROVE  MatchInv'
<1>1. PICK k, p, o, l : k = "binary" /\ p = Top.at /\ o = Top.op /\ l = Top.kids[1]
  OBVIOUS
<1>2. /\ l \in 1..Len(ast) /\ l \in Nat /\ p \in Nat \ {0} /\ o \in Nat \ {0} /\ ret \in Nat
      /\ TokIn(text, o) \in Char /\ Holds(text, ast, Top, o)
      /\ Built(text, ast, <<Sub(ret)>>, o + 1, pos)
  BY <1>1, OperandMatches
<1>3. ns \in Seq(Nat) /\ ks \in Seq(Nat) /\ ks[1] = l /\ ks[2] = ret
  <2>1. ks = <<l, ret>>
    BY <1>1
  <2> QED
    BY <1>2, <2>1, PairFacts, NoLists
<1>4. PICK S : S = Char \ {"="}
  OBVIOUS
<1>5. S \subseteq Token /\ TokIn(text, o) \in S
  BY <1>1, <1>2, <1>4, TokIs, ClassesAreTokens, Zenon
<1>6. Enclosed(text, p, ast[l].from, ast[l].to, o)
  BY <1>1, <1>2 DEF Holds
<1>7. Built(text, ast, <<Sub(l)>>, p, o)
  BY <1>2, <1>6, BuiltSub
<1>8. Built(text, ast, <<Word(S, o)>>, o, o + 1)
  BY <1>2, <1>5, BuiltWord
<1>9. Built(text, ast, <<Sub(l)>> \o <<Word(S, o)>>, p, o + 1)
  BY <1>7, <1>8, BuiltJoin
<1>10. Sub(l) \in ItemType /\ Sub(ret) \in ItemType /\ Word(S, o) \in ItemType
  BY <1>2, <1>5, SubItem, WordItem
<1>11. <<Sub(l)>> \o <<Word(S, o)>> = <<Sub(l), Word(S, o)>>
  BY <1>10, JoinTwo
<1>12. Built(text, ast, <<Sub(l), Word(S, o)>> \o <<Sub(ret)>>, p, pos)
  BY <1>2, <1>9, <1>11, BuiltJoin
<1>13. <<Sub(l), Word(S, o)>> \o <<Sub(ret)>> = <<Sub(l), Word(S, o), Sub(ret)>>
  BY <1>10, JoinThree
<1>14. ASSUME NEW y, MergeFits(y, k, p, o, ns, ks, pos) PROVE Made(y)
  <2>1. y.kind = "binary" /\ y.at = o /\ y.from = p /\ y.to + 1 = pos /\ y.kids[1] = l /\ y.kids[2] = ret
    BY <1>1, <1>3, <1>14 DEF MergeFits
  <2>2. Rule(y) = <<Sub(y.kids[1]), Word(Char \ {"="}, y.at), Sub(y.kids[2])>>
    BY <2>1, RuleIs, Zenon
  <2>3. Rule(y) = <<Sub(l), Word(S, o), Sub(ret)>>
    BY <1>4, <2>1, <2>2, Zenon
  <2> QED
    BY <1>12, <1>13, <2>1, <2>3 DEF Made
<1>15. k \in {"binary", "assign"} /\ Merged(Node(k, o, p, ns, ks))
  BY <1>1
<1> QED
  BY <1>1, <1>3, <1>14, <1>15, MergedMatches

LEMMA AssignMatches ==
    ASSUME MatchHere, Got("operand") \/ Got("merge"), Tok(Top.op) = "=", IsVariable(Top.kids[1]),
           NEW ns, ns = ast[Top.kids[1]].names, NEW ks, ks = <<ret>>,
           Merged(Node("assign", Top.op, Top.at, ns, ks))
    PROVE  MatchInv'
<1>1. PICK k, p, o, l, w : k = "assign" /\ p = Top.at /\ o = Top.op /\ l = Top.kids[1] /\ w = "="
  OBVIOUS
<1>2. /\ l \in 1..Len(ast) /\ l \in Nat /\ p \in Nat \ {0} /\ o \in Nat \ {0} /\ ret \in Nat
      /\ Holds(text, ast, Top, o) /\ Built(text, ast, <<Sub(ret)>>, o + 1, pos)
  BY <1>1, OperandMatches
<1>3. ast[l].kind = "variable"
  BY <1>1 DEF IsVariable
<1>4. PICK v : v = ast[l].at
  OBVIOUS
<1>5. ns = <<v>> /\ ns \in Seq(Nat) /\ v \in Nat /\ ast[l].from = v /\ ast[l].to = v /\ TokIn(text, v) \in Ident
  BY <1>1, <1>2, <1>3, <1>4, VariableMade
<1>6. ks \in Seq(Nat) /\ ks[1] = ret /\ ns[1] = v
  BY <1>2, <1>5, WithinOne
<1>7. Enclosed(text, p, v, v, o)
  BY <1>1, <1>2, <1>5 DEF Holds
<1>8. w \in Token /\ TokIn(text, o) = w
  BY <1>1, TokIs, ClassesAreTokens, Zenon
<1>9. Built(text, ast, <<The(w)>>, o, o + 1)
  BY <1>2, <1>8, BuiltThe
<1>10. Built(text, ast, <<The(w)>> \o <<Sub(ret)>>, o, pos)
  BY <1>2, <1>9, BuiltJoin
<1>11. <<The(w)>> \o <<Sub(ret)>> = <<The(w), Sub(ret)>>
  <2>1. The(w) \in ItemType /\ Sub(ret) \in ItemType
    BY <1>2, <1>8, SubItem, WordItem DEF The, AnyPlace
  <2> QED
    BY <2>1, JoinTwo
<1>12. ASSUME NEW y, MergeFits(y, k, p, o, ns, ks, pos) PROVE Made(y)
  <2>1. /\ y.kind = "assign" /\ y.at = o /\ y.from = p /\ y.to + 1 = pos /\ y.kids[1] = ret
        /\ y.names[1] = v
    BY <1>1, <1>6, <1>12 DEF MergeFits
  <2>2. Built(text, ast, <<The("="), Sub(y.kids[1])>>, y.at, y.to + 1)
    BY <1>1, <1>10, <1>11, <2>1, Zenon
  <2> QED
    BY <1>5, <1>7, <2>1, <2>2 DEF Made
<1>13. k \in {"binary", "assign"} /\ Merged(Node(k, o, p, ns, ks))
  BY <1>1
<1> QED
  BY <1>1, <1>5, <1>6, <1>12, <1>13, MergedMatches

LEMMA MergeMatches == ASSUME MatchHere, Merge PROVE MatchInv'
<1>1. Got("operand") \/ Got("merge")
  BY Zenon DEF Merge
<1>2. \/ Tok(Top.op) # "=" /\ Merged(Node("binary", Top.op, Top.at, <<>>, <<Top.kids[1], ret>>))
      \/ /\ Tok(Top.op) = "=" /\ IsVariable(Top.kids[1])
         /\ Merged(Node("assign", Top.op, Top.at, ast[Top.kids[1]].names, <<ret>>))
      \/ Fail(Rest, pos)
  BY Zenon DEF Merge
<1>3. CASE Tok(Top.op) # "=" /\ Merged(Node("binary", Top.op, Top.at, <<>>, <<Top.kids[1], ret>>))
  BY <1>1, <1>3, BinaryMatches
<1>4. CASE /\ Tok(Top.op) = "=" /\ IsVariable(Top.kids[1])
           /\ Merged(Node("assign", Top.op, Top.at, ast[Top.kids[1]].names, <<ret>>))
  BY <1>1, <1>4, AssignMatches
<1>5. CASE Fail(Rest, pos)
  <2>1. stack # <<>>
    BY <1>1, OperandMatches
  <2> QED
    BY <1>5, <2>1, FailMatches
<1> QED
  BY <1>2, <1>3, <1>4, <1>5

\* A definition has its prototype and its body.
LEMMA DefinitionMatches == ASSUME MatchHere, Definition PROVE MatchInv'
<1>1. PICK k, f, p, ns, ks, z, y : /\ k = "function" /\ f = "def" /\ p = Top.at /\ ns = <<>>
                                   /\ ks = WithKid.kids /\ z = pos - 1
                                   /\ y = [Node(k, p, p, ns, ks) EXCEPT !.to = z]
  OBVIOUS
<1>2. Got(f) /\ Build(Rest, Node(k, p, p, ns, ks), pos)
  BY <1>1, Zenon DEF Definition
<1>3. ast' = Append(ast, y) /\ Return(Rest, Len(ast) + 1) /\ pos' = pos
  BY <1>1, <1>2, Zenon DEF Build
<1>4. /\ stack # <<>> /\ Top.fn = f /\ ret \in Nat /\ p \in Nat \ {0} /\ FrameOK(text, ast, Top)
      /\ Rest # <<>> => Begun(text, ast, Rest[Len(Rest)], p)
  BY <1>1, <1>2, GotAnswer, PopMatches
<1>5. /\ ks \in Seq(Nat) /\ Len(ks) = Len(Top.kids) + 1 /\ ks[Len(Top.kids) + 1] = ret
      /\ \A i \in 1..Len(Top.kids) : ks[i] = Top.kids[i]
  BY <1>1, <1>2, CollectsKid
<1>6. Len(Top.kids) = 1 /\ Top.kids[1] = 1 /\ Len(ast) # 0
  BY <1>1, <1>4 DEF FrameOK
<1>7. ks[1] = 1 /\ ks[2] = ret
  BY <1>5, <1>6
<1>8. ns \in Seq(Nat) /\ k \in Kind
  BY <1>1, NoLists DEF Kind
<1>9. pos \in Nat /\ Len(ast) \in Nat
  BY MatchFacts
<1>10. z \in Int /\ z + 1 = pos /\ 1 \in 1..Len(ast)
  BY <1>1, <1>6, <1>9
<1>11. Fits(y, k, p, ns, ks, pos)
  <2>1. z = pos - 1 /\ y = [Node(k, p, p, ns, ks) EXCEPT !.to = z]
    BY <1>1, Zenon
  <2>2. p \in Nat /\ pos \in Int
    BY <1>4, <1>9
  <2> QED
    BY <1>5, <1>8, <2>1, <2>2, NodeFits
<1>12. /\ y \in NodeType /\ y.kind = k /\ y.at = p /\ y.from = p /\ y.kids = ks /\ y.to + 1 = pos
  BY <1>11 DEF Fits
<1>13. PICK q \in Nat \ {0} : Begun(text, ast, Top, q) /\ Built(text, ast, <<Sub(ret)>>, q, pos)
  BY <1>2, GotAnswer
<1>14. ast[1].kind # "anonproto" /\ Built(text, ast, <<Word({"def"}, p), Sub(1)>>, p, q)
  BY <1>1, <1>4, <1>13 DEF Begun, DefBegun
<1>15. Built(text, ast, <<Word({"def"}, p), Sub(1)>> \o <<Sub(ret)>>, p, pos)
  BY <1>13, <1>14, BuiltJoin
<1>16. <<Word({"def"}, p), Sub(1)>> \o <<Sub(ret)>> = <<Word({"def"}, p), Sub(1), Sub(ret)>>
  <2>1. {"def"} \subseteq Token /\ 1 \in Nat /\ p \in Nat
    BY <1>4, ClassesAreTokens
  <2>2. Word({"def"}, p) \in ItemType /\ Sub(1) \in ItemType /\ Sub(ret) \in ItemType
    BY <1>4, <2>1, WordItem, SubItem
  <2> QED
    BY <2>2, JoinThree
<1>17. Made(y)
  <2>1. y.kind = "function" /\ y.kids[1] = 1 /\ y.kids[2] = ret
    BY <1>1, <1>7, <1>12
  <2>2. Rule(y) = <<Word({"def"}, y.at), Sub(y.kids[1]), Sub(y.kids[2])>>
    BY <1>14, <2>1, PrototypeRules
  <2>3. Rule(y) = <<Word({"def"}, p), Sub(1), Sub(ret)>>
    BY <1>12, <2>1, <2>2, Zenon
  <2> QED
    BY <1>12, <1>15, <1>16, <2>1, <2>3 DEF Made
<1>18. y.from # 0 /\ y.kids[1] \in 1..Len(ast) /\ pos' = y.to + 1
  BY <1>3, <1>4, <1>7, <1>10, <1>12
<1>19. Rest # <<>> => Begun(text, ast, Rest[Len(Rest)], y.from)
  BY <1>4, <1>12
<1> QED
  BY <1>3, <1>4, <1>12, <1>17, <1>18, <1>19, BuildMatches

\* A top-level expression gets a prototype without tokens.
LEMMA TopLevelMatches == ASSUME MatchHere, TopLevel PROVE MatchInv'
<1>1. PICK f, p, n, ks, u, w :
        /\ f = "top" /\ p = Top.at /\ n = Len(ast) /\ ks = <<n + 1, ret>>
        /\ u = [Node("anonproto", p, p, <<>>, <<>>) EXCEPT !.to = p - 1]
        /\ w = [Node("function", p, p, <<>>, ks) EXCEPT !.to = pos - 1]
  OBVIOUS
<1>2. Got(f) /\ ast' = ast \o <<u, w>> /\ Return(Rest, n + 2) /\ pos' = pos
  BY <1>1, Zenon DEF TopLevel
<1>3. /\ stack # <<>> /\ Top.fn = f /\ ret \in Nat /\ p \in Nat \ {0}
      /\ StackBegun(text, ast, Rest) /\ StackOK(text, ast, Rest) /\ Rest \in Seq(FrameType)
      /\ Rest # <<>> => Begun(text, ast, Rest[Len(Rest)], p)
  BY <1>1, <1>2, GotAnswer, PopMatches
<1>4. n \in Nat /\ ast \in Seq(NodeType) /\ pos \in Nat /\ text' = text /\ AstOK(text, ast) /\ TreeMade
  BY <1>1, MatchFacts
<1>5. ks \in Seq(Nat) /\ ks[1] = n + 1 /\ ks[2] = ret
  BY <1>1, <1>3, <1>4, PairFacts
<1>6. PICK k, l, c, d, ns : k = "anonproto" /\ l = "function" /\ c = p - 1 /\ d = pos - 1 /\ ns = <<>>
  OBVIOUS
<1>7. k \in Kind /\ l \in Kind /\ ns \in Seq(Nat) /\ c \in Int /\ d \in Int /\ c + 1 = p /\ d + 1 = pos
  <2>1. c = p - 1 /\ d = pos - 1 /\ p \in Nat
    BY <1>3, <1>6, Zenon
  <2>2. c \in Int /\ d \in Int /\ c + 1 = p /\ d + 1 = pos
    BY <1>4, <2>1
  <2>3. k \in Kind /\ l \in Kind /\ ns \in Seq(Nat)
    BY <1>6, NoLists DEF Kind
  <2> QED
    BY <2>2, <2>3
<1>8. Fits(u, k, p, ns, ns, p) /\ Fits(w, l, p, ns, ks, pos)
  <2>1. /\ u = [Node(k, p, p, ns, ns) EXCEPT !.to = c] /\ w = [Node(l, p, p, ns, ks) EXCEPT !.to = d]
        /\ c = p - 1 /\ d = pos - 1
    BY <1>1, <1>6, Zenon
  <2>2. p \in Nat /\ p \in Int /\ pos \in Int
    BY <1>3, <1>4
  <2>3. Fits(u, k, p, ns, ns, p)
    BY <1>7, <2>1, <2>2, NodeFits
  <2>4. Fits(w, l, p, ns, ks, pos)
    BY <1>5, <1>7, <2>1, <2>2, NodeFits
  <2> QED
    BY <2>3, <2>4
<1>9. u \in NodeType /\ w \in NodeType
  BY <1>8 DEF Fits
<1>10. PICK a : a = Append(ast, u)
  OBVIOUS
<1>11. ast' = Append(a, w) /\ a \in Seq(NodeType)
  BY <1>2, <1>4, <1>9, <1>10
<1>12. Grows(ast, a) /\ Grows(a, ast')
  BY <1>4, <1>9, <1>10, <1>11, GrowsByOne
<1>13. Grows(ast, ast')
  BY <1>12 DEF Grows
<1>14. /\ Len(ast') = n + 2 /\ ast'[n + 1] = u /\ ast'[n + 2] = w
       /\ \A i \in 1..n : ast'[i] = ast[i]
  <2>1. Len(a) = n + 1 /\ a[n + 1] = u /\ \A i \in 1..n : a[i] = ast[i]
    BY <1>1, <1>4, <1>9, <1>10, PushFacts
  <2>2. Len(ast') = Len(a) + 1 /\ ast'[Len(a) + 1] = w /\ \A i \in 1..Len(a) : ast'[i] = a[i]
    BY <1>9, <1>11, PushFacts
  <2> QED
    BY <1>4, <2>1, <2>2
<1>15. Made(u)'
  <2>1. u.kind = "anonproto" /\ u.from = p /\ u.to + 1 = p
    BY <1>6, <1>8 DEF Fits
  <2>2. Rule(u) = <<>>
    BY <2>1, PrototypeRules
  <2>3. Rule(u)' = Rule(u)
    BY <1>4, <2>1, RuleStays
  <2>4. Built(text, ast', <<>>, p, p)
    BY <1>3, BuiltNone
  <2> QED
    BY <1>4, <2>1, <2>2, <2>3, <2>4 DEF Made
<1>16. PICK q \in Nat \ {0} : Begun(text, ast, Top, q) /\ Built(text, ast, <<Sub(ret)>>, q, pos)
  BY <1>2, GotAnswer
<1>17. q = p
  BY <1>1, <1>3, <1>16, Zenon DEF Begun
<1>18. Built(text, ast', <<Sub(ret)>>, p, pos)
  BY <1>13, <1>16, <1>17, GrowsKeeps
<1>19. Made(w)'
  <2>1. w.kind = "function" /\ w.from = p /\ w.to + 1 = pos /\ w.kids[1] = n + 1 /\ w.kids[2] = ret
    BY <1>5, <1>6, <1>8 DEF Fits
  <2>2. ast'[w.kids[1]].kind = "anonproto"
    BY <1>6, <1>8, <1>14, <2>1 DEF Fits
  <2>3. Rule(w)' = <<Sub(w.kids[2])>>
    BY <2>1, <2>2 DEF Rule
  <2>4. Rule(w)' = <<Sub(ret)>>
    BY <2>1, <2>3
  <2> QED
    BY <1>4, <1>18, <2>1, <2>4 DEF Made
<1>20. ASSUME NEW i \in 1..Len(ast'), NEW x \in {ast'[i]} PROVE Made(x)'
  <2>1. CASE i \in 1..n
    <3>1. x = ast[i] /\ Made(x)
      BY <1>1, <1>4, <1>14, <2>1 DEF TreeMade
    <3>2. x.kind = "function" => x.kids[1] \in 1..Len(ast)
      BY <1>1, <1>4, <2>1, <3>1, FunctionKid
    <3> QED
      BY <1>4, <1>13, <3>1, <3>2, MadeKept
  <2>2. CASE i = n + 1
    BY <1>14, <1>15, <2>2
  <2>3. CASE i = n + 2
    BY <1>14, <1>19, <2>3
  <2> QED
    BY <1>4, <1>14, <2>1, <2>2, <2>3
<1>21. TreeMade'
  BY <1>20 DEF TreeMade
<1>22. stack' = Rest /\ phase' = "return" /\ ret' = n + 2
  BY <1>2 DEF Return
<1>23. StackBegun(text, ast', stack')
  BY <1>3, <1>13, <1>22, StackKept
<1>24. ASSUME Rest # <<>> PROVE Answered(text, ast', Rest[Len(Rest)], w, pos)
  <2>1. Len(Rest) \in 1..Len(Rest)
    BY <1>3, <1>24, PopFacts
  <2>2. FrameOK(text, ast, Rest[Len(Rest)])
    BY <1>3, <2>1 DEF StackOK
  <2>3. Begun(text, ast', Rest[Len(Rest)], p)
    BY <1>3, <1>13, <1>24, <2>2, BegunKept
  <2>4. w.from = p /\ w.to \in Int /\ w.to + 1 = pos
    BY <1>8 DEF Fits, NodeType
  <2>5. Enclosed(text, p, w.from, w.to, pos)
    BY <1>3, <2>4, Bare
  <2> QED
    BY <1>3, <2>3, <2>5 DEF Answered
<1>25. AtWork(text, ast', stack', phase', pos', ret')
  BY <1>2, <1>14, <1>22, <1>24 DEF AtWork
<1> QED
  BY <1>4, <1>21, <1>23, <1>25 DEF MatchInv

LEMMA ParserStepMatches == ASSUME ParserInv, MatchInv, ParseStep PROVE MatchInv'
<1>1. MatchHere
  BY ParserStepGood, Zenon DEF MatchHere, Here, ParseStep
<1>2. CASE ParseNumber \/ ParseIdentifier \/ CallArgument \/ ParseParen \/ CloseParen
  BY <1>1, <1>2, NumberMatches, IdentifierMatches, CallArgumentMatches, ParenMatches,
     CloseParenMatches, Zenon
<1>3. CASE ParseIf \/ IfPart \/ ParseFor \/ ForPart
  BY <1>1, <1>3, IfMatches, IfPartMatches, ForMatches, ForPartMatches, Zenon
<1>4. CASE ParseVar \/ VarName \/ VarInit \/ VarBody
  BY <1>1, <1>4, VarMatches, VarNameMatches, VarInitMatches, VarBodyMatches, Zenon
<1>5. CASE ParseUnary \/ UnaryDone \/ ParseNothing
  BY <1>1, <1>5, UnaryMatches, UnaryDoneMatches, NothingMatches, Zenon
<1>6. CASE UnaryParsed \/ NoOperator \/ TakeOperator \/ BindsRight \/ Merge
  BY <1>1, <1>6, UnaryParsedMatches, NoOperatorMatches, TakeOperatorMatches, BindsRightMatches,
     MergeMatches, Zenon
<1>7. CASE Definition \/ TopLevel \/ PartFails
  BY <1>1, <1>7, DefinitionMatches, TopLevelMatches, PartFailsMatches, Zenon
<1> QED
  BY <1>2, <1>3, <1>4, <1>5, <1>6, <1>7, Zenon DEF ParseStep
-----------------------------------------------------------------------------
\* Prototypes are spelled by the tokens they were read from.
LEMMA NamesBuilt ==
    ASSUME NEW t, NEW a, NEW p \in Nat \ {0}, NEW m \in Nat, \A i \in 1..m : TokIn(t, p + i) \in Ident,
           NEW s, s = [i \in 1..m |-> Word(Ident, p + i)]
    PROVE  Built(t, a, s, p + 1, p + m + 1)
<1>1. PICK w : w = [i \in 0..m |-> p + 1 + i]
  OBVIOUS
<1>2. \A i \in 1..m : Word(Ident, p + i) \in ItemType
  <2>1. Ident \subseteq Token
    BY ClassesAreTokens
  <2>2. \A i \in 1..m : p + i \in Nat
    OBVIOUS
  <2> QED
    BY <2>1, <2>2, WordItem
<1>3. s \in Seq(ItemType) /\ Len(s) = m /\ \A i \in 1..m : s[i] = Word(Ident, p + i)
  BY <1>2
<1>4. /\ w \in [0..m -> Nat \ {0}] /\ w[0] = p + 1 /\ w[m] = p + m + 1
      /\ \A i \in 1..m : w[i - 1] = p + i /\ w[i] = p + i + 1
  BY <1>1
<1>5. ASSUME NEW i \in 1..m PROVE Takes(t, a, w[i - 1], s[i], w[i])
  <2>1. PICK x, q : x = Word(Ident, p + i) /\ q = p + i
    OBVIOUS
  <2>2. x.sub = 0 /\ x.class = Ident /\ x.at = q
    BY <2>1 DEF Word
  <2>3. TokIn(t, q) \in Ident /\ w[i - 1] = q /\ w[i] = q + 1 /\ s[i] = x
    BY <1>3, <1>4, <2>1
  <2> QED
    BY <2>2, <2>3 DEF Takes
<1>6. Path(t, a, s, w)
  BY <1>3, <1>5 DEF Path
<1> QED
  BY <1>3, <1>4, <1>6 DEF Built

LEMMA ArgumentsBuilt ==
    ASSUME NEW a, NEW p \in Nat \ {0}, NEW e \in Nat, p < e,
           TokIn(text, p) = "(", TokIn(text, e) = ")",
           \A q \in p + 1..e - 1 : TokIn(text, q) \in Ident,
           NEW y, y.names = [i \in 1..e - p - 1 |-> p + i]
    PROVE  Built(text, a, Arguments(y), p, e + 1)
<1>1. PICK l, r, m, s : l = "(" /\ r = ")" /\ m = e - p - 1 /\ s = [i \in 1..m |-> Word(Ident, p + i)]
  OBVIOUS
<1>2. l \in Token /\ r \in Token /\ TokIn(text, p) = l /\ TokIn(text, e) = r
  BY <1>1, ClassesAreTokens, Zenon
<1>3. m \in Nat /\ p + m + 1 = e
  <2>1. m = e - p - 1
    BY <1>1, Zenon
  <2> QED
    BY <2>1
<1>4. \A i \in 1..m : TokIn(text, p + i) \in Ident
  <2>1. \A i \in 1..m : p + i \in p + 1..e - 1
    BY <1>3
  <2> QED
    BY <2>1
<1>5. s = [i \in 1..m |-> Word(Ident, p + i)]
  BY <1>1, Zenon
<1>6. Built(text, a, s, p + 1, e)
  <2>1. Built(text, a, s, p + 1, p + m + 1)
    BY <1>3, <1>4, <1>5, NamesBuilt
  <2> QED
    BY <1>3, <2>1
<1>7. NamesOf(y) = s
  <2>1. y.names = [i \in 1..m |-> p + i]
    BY <1>1, Zenon
  <2>2. DOMAIN y.names = 1..m /\ \A i \in 1..m : y.names[i] = p + i
    BY <2>1
  <2> QED
    BY <1>5, <2>2 DEF NamesOf
<1>8. Built(text, a, <<The(l)>>, p, p + 1) /\ Built(text, a, <<The(r)>>, e, e + 1)
  <2>1. e \in Nat \ {0}
    OBVIOUS
  <2> QED
    BY <1>2, <2>1, BuiltThe
<1>9. Built(text, a, <<The(l)>> \o s, p, e)
  BY <1>6, <1>8, BuiltJoin
<1>10. Built(text, a, (<<The(l)>> \o s) \o <<The(r)>>, p, e + 1)
  BY <1>8, <1>9, BuiltJoin
<1> QED
  BY <1>1, <1>7, <1>10, Zenon DEF Arguments

\* What is read from p, where the part behind its head begins at q.
ProtoNode(y, p, e) == y.at = p /\ y.from = p /\ y.to + 1 = e
HasParameters(r, k, p, q) == /\ r.node.kind = k /\ ProtoNode(r.node, p, r.next)
                             /\ \A a : Built(text, a, Arguments(r.node), q, r.next)
HasRule(r, k, p) == /\ r.node.kind = k /\ ProtoNode(r.node, p, r.next)
                    /\ \A a : Built(text, a, Rule(r.node), p, r.next)

LEMMA ParametersMade ==
    ASSUME text \in Seq(Token), NEW k \in Protos, NEW p \in Nat, NEW prec \in Nat,
           NEW open \in Position, NEW r, r = Parameters(k, p, prec, open), r.ok
    PROVE  HasParameters(r, k, p, open)
<1>1. PICK e, ns : e = NamesEnd(open) /\ ns = [i \in 1..e - open - 1 |-> open + i]
  OBVIOUS
<1>2. \A q : ~Stops(q).ok
  BY DEF Stops
<1>3. Tok(open) = "("
  <2>1. Tok(open) # "(" => r = Stops(open)
    BY <1>1, Zenon DEF Parameters
  <2> QED
    BY <1>2, <2>1, Zenon
<1>4. Tok(e) = ")"
  <2>1. Tok(open) = "(" /\ Tok(e) # ")" => r = Stops(e)
    BY <1>1 DEF Parameters
  <2> QED
    BY <1>2, <1>3, <2>1, Zenon
<1>5. RightNumber(k, ns)
  <2>1. Tok(open) = "(" /\ Tok(e) = ")" /\ ~RightNumber(k, ns) => r = Stops(e + 1)
    BY <1>1 DEF Parameters
  <2> QED
    BY <1>2, <1>3, <1>4, <2>1, Zenon
<1>6. PICK y : y = [Node(k, p, p, ns, <<>>) EXCEPT !.prec = prec, !.to = e]
  OBVIOUS
<1>7. r = [ok |-> TRUE, next |-> e + 1, node |-> y]
  BY <1>1, <1>3, <1>4, <1>5, <1>6 DEF Parameters
<1>8. r.node = y /\ r.next = e + 1
  BY <1>7
<1>9. Tok(open) \in Inner
  BY <1>3, InnerWords, Zenon
<1>10. open \in 1..Len(text) /\ Len(text) \in Nat
  BY <1>9, InnerHere, LenProperties
<1>11. e \in open + 1..Len(text) + 1 /\ \A q \in open + 1..e - 1 : Tok(q) \in Ident
  BY <1>1, <1>10, NamesEndFacts
<1>12. open \in Nat \ {0} /\ e \in Nat /\ open < e
  BY <1>10, <1>11
<1>13. y.kind = k /\ y.at = p /\ y.from = p /\ y.names = ns /\ y.to = e
  BY <1>6 DEF Node
<1>14. ASSUME NEW a PROVE Built(text, a, Arguments(y), open, e + 1)
  <2>1. \A q \in open + 1..e - 1 : TokIn(text, q) \in Ident
    BY <1>11, TokIs
  <2>2. TokIn(text, open) = "(" /\ TokIn(text, e) = ")"
    BY <1>3, <1>4, TokIs, Zenon
  <2>3. y.names = [i \in 1..e - open - 1 |-> open + i]
    BY <1>1, <1>13, Zenon
  <2> QED
    BY <1>12, <2>1, <2>2, <2>3, ArgumentsBuilt
<1> QED
  BY <1>8, <1>13, <1>14 DEF ProtoNode, HasParameters

\* The head of the prototype of an operator.
LEMMA OperatorHead ==
    ASSUME NEW a, NEW p \in Nat \ {0}, NEW w \in {"unary", "binary"}, Tok(p) = w, Tok(p + 1) \in Char
    PROVE  /\ Built(text, a, <<Word({w}, p), Word(Char, p + 1)>>, p, p + 2)
           /\ Tok(p + 2) \in Number =>
                Built(text, a, <<Word({w}, p), Word(Char, p + 1)>> \o <<Word(Number, p + 2)>>, p, p + 3)
<1>1. {w} \subseteq Token /\ Char \subseteq Token /\ Number \subseteq Token
  BY ClassesAreTokens, Zenon
<1>2. TokIn(text, p) \in {w} /\ TokIn(text, p + 1) \in Char
  BY TokIs
<1>3. PICK q, c : q = p + 1 /\ c = p + 2
  OBVIOUS
<1>4. q \in Nat \ {0} /\ c \in Nat \ {0} /\ q + 1 = c /\ c + 1 = p + 3
  BY <1>3
<1>5. Built(text, a, <<Word({w}, p)>>, p, q)
  BY <1>1, <1>2, <1>3, BuiltWord
<1>6. Built(text, a, <<Word(Char, q)>>, q, c)
  <2>1. TokIn(text, q) \in Char
    BY <1>2, <1>3
  <2> QED
    BY <1>1, <1>4, <2>1, BuiltWord
<1>7. Built(text, a, <<Word({w}, p)>> \o <<Word(Char, q)>>, p, c)
  BY <1>5, <1>6, BuiltJoin
<1>8. <<Word({w}, p)>> \o <<Word(Char, q)>> = <<Word({w}, p), Word(Char, q)>>
  <2>1. Word({w}, p) \in ItemType /\ Word(Char, q) \in ItemType
    BY <1>1, <1>4, WordItem
  <2> QED
    BY <2>1, JoinTwo
<1>9. Built(text, a, <<Word({w}, p), Word(Char, q)>>, p, c)
  BY <1>7, <1>8
<1>10. ASSUME Tok(c) \in Number
       PROVE  Built(text, a, <<Word({w}, p), Word(Char, q)>> \o <<Word(Number, c)>>, p, c + 1)
  <2>1. TokIn(text, c) \in Number
    BY <1>10, TokIs
  <2>2. Built(text, a, <<Word(Number, c)>>, c, c + 1)
    BY <1>1, <1>4, <2>1, BuiltWord
  <2> QED
    BY <1>9, <2>2, BuiltJoin
<1> QED
  BY <1>3, <1>4, <1>9, <1>10

LEMMA NamedMade ==
    ASSUME text \in Seq(Token), NEW p \in 1..Len(text), NEW c \in Position, c = p + 1, Tok(p) \in Ident,
           NEW k, k = "proto", NEW d \in Nat, NEW r, r = Parameters(k, p, d, c), r.ok
    PROVE  HasRule(r, k, p)
<1>1. k \in Protos
  BY DEF Protos
<1>2. p \in Nat \ {0}
  BY LenProperties
<1>3. PICK y, e : y = r.node /\ e = r.next
  OBVIOUS
<1>4. y.kind = k /\ ProtoNode(y, p, e) /\ \A a : Built(text, a, Arguments(y), c, e)
  <2>1. p \in Nat
    BY <1>2
  <2>2. HasParameters(r, k, p, c)
    BY <1>1, <2>1, ParametersMade
  <2> QED
    BY <1>3, <2>2 DEF HasParameters
<1>5. Rule(y) = <<Word(Ident, p)>> \o Arguments(y)
  BY <1>4, PrototypeRules DEF ProtoNode
<1>6. ASSUME NEW a PROVE Built(text, a, Rule(y), p, e)
  <2>1. Ident \subseteq Token /\ TokIn(text, p) \in Ident
    BY TokIs, ClassesAreTokens
  <2>2. Built(text, a, <<Word(Ident, p)>>, p, c)
    BY <1>2, <2>1, BuiltWord
  <2>3. Built(text, a, <<Word(Ident, p)>> \o Arguments(y), p, e)
    BY <1>4, <2>2, BuiltJoin
  <2> QED
    BY <1>5, <2>3
<1> QED
  BY <1>3, <1>4, <1>6 DEF HasRule

LEMMA UnaryProtoMade ==
    ASSUME text \in Seq(Token), NEW p \in 1..Len(text), NEW c \in Position, c = p + 2,
           NEW w, w = "unary", Tok(p) = w, Tok(p + 1) \in Char,
           NEW k, k = "unaryproto", NEW d \in Nat, NEW r, r = Parameters(k, p, d, c), r.ok
    PROVE  HasRule(r, k, p)
<1>1. k \in Protos
  BY DEF Protos
<1>2. p \in Nat \ {0}
  BY LenProperties
<1>3. PICK y, e : y = r.node /\ e = r.next
  OBVIOUS
<1>4. y.kind = k /\ ProtoNode(y, p, e) /\ \A a : Built(text, a, Arguments(y), c, e)
  <2>1. p \in Nat
    BY <1>2
  <2>2. HasParameters(r, k, p, c)
    BY <1>1, <2>1, ParametersMade
  <2> QED
    BY <1>3, <2>2 DEF HasParameters
<1>5. Rule(y) = <<Word({"unary"}, p), Word(Char, p + 1)>> \o Arguments(y)
  BY <1>4, PrototypeRules DEF ProtoNode
<1>6. ASSUME NEW a PROVE Built(text, a, Rule(y), p, e)
  <2>1. Built(text, a, <<Word({w}, p), Word(Char, p + 1)>>, p, c)
    BY <1>2, OperatorHead
  <2>2. Built(text, a, <<Word({w}, p), Word(Char, p + 1)>> \o Arguments(y), p, e)
    BY <1>4, <2>1, BuiltJoin
  <2> QED
    BY <1>5, <2>2
<1> QED
  BY <1>3, <1>4, <1>6 DEF HasRule

LEMMA BinaryProtoMade ==
    ASSUME text \in Seq(Token), NEW p \in 1..Len(text),
           NEW w, w = "binary", Tok(p) = w, Tok(p + 1) \in Char,
           NEW c \in Position, c = IF Tok(p + 2) \in Number THEN p + 3 ELSE p + 2,
           NEW k, k = "binaryproto", NEW d \in Nat, NEW r, r = Parameters(k, p, d, c), r.ok
    PROVE  HasRule(r, k, p)
<1>1. k \in Protos
  BY DEF Protos
<1>2. p \in Nat \ {0}
  BY LenProperties
<1>3. PICK y, e : y = r.node /\ e = r.next
  OBVIOUS
<1>4. y.kind = k /\ ProtoNode(y, p, e) /\ \A a : Built(text, a, Arguments(y), c, e)
  <2>1. p \in Nat
    BY <1>2
  <2>2. HasParameters(r, k, p, c)
    BY <1>1, <2>1, ParametersMade
  <2> QED
    BY <1>3, <2>2 DEF HasParameters
<1>5. Rule(y) = <<Word({"binary"}, p), Word(Char, p + 1)>>
                  \o (IF Tok(p + 2) \in Number THEN <<Word(Number, p + 2)>> ELSE <<>>) \o Arguments(y)
  BY <1>4, PrototypeRules DEF ProtoNode
<1>6. PICK v : v = IF Tok(p + 2) \in Number THEN <<Word(Number, p + 2)>> ELSE <<>>
  OBVIOUS
<1>7. ASSUME NEW a PROVE Built(text, a, Rule(y), p, e)
  <2>1. PICK h : h = <<Word({w}, p), Word(Char, p + 1)>>
    OBVIOUS
  <2>2. Built(text, a, h \o v, p, c)
    <3>1. Built(text, a, h, p, p + 2) /\ (Tok(p + 2) \in Number => Built(text, a, h \o <<Word(Number, p + 2)>>, p, p + 3))
      BY <1>2, <2>1, OperatorHead
    <3>2. CASE Tok(p + 2) \in Number
      BY <1>6, <3>1, <3>2
    <3>3. CASE Tok(p + 2) \notin Number
      <4>1. c = p + 2 /\ c \in Nat \ {0} /\ v = <<>>
        BY <1>2, <1>6, <3>3
      <4>2. Built(text, a, v, c, c)
        BY <4>1, BuiltNone
      <4> QED
        BY <3>1, <4>1, <4>2, BuiltJoin
    <3> QED
      BY <3>2, <3>3
  <2>3. Built(text, a, (h \o v) \o Arguments(y), p, e)
    BY <1>4, <2>2, BuiltJoin
  <2>4. Rule(y) = (h \o v) \o Arguments(y)
    BY <1>5, <1>6, <2>1
  <2> QED
    BY <2>3, <2>4
<1> QED
  BY <1>3, <1>4, <1>7 DEF HasRule

LEMMA PrototypeMade ==
    ASSUME text \in Seq(Token), NEW p \in Position, NEW r, r = Prototype(p), r.ok
    PROVE  \E k \in {"proto", "unaryproto", "binaryproto"} : HasRule(r, k, p)
<1>1. Len(text) \in Nat /\ p \in 1..Len(text) + 1 /\ p \in Nat
  BY LenProperties DEF Position
<1>2. \A q : ~Stops(q).ok
  BY DEF Stops
<1>3. /\ "unary" \notin Ident /\ "binary" \notin Ident
  <2>1. "unary" \in Keyword /\ "binary" \in Keyword
    BY DEF Keyword
  <2> QED
    BY <2>1, TokenAssumption, Zenon
<1>4. CASE Tok(p) \in Ident
  <2>1. Tok(p) \in Inner
    BY <1>4, InnerWords, Zenon
  <2>2. p \in 1..Len(text) /\ p + 1 \in Position
    BY <2>1, InnerHere
  <2>3. PICK k, d, c : k = "proto" /\ d = DefaultPrecedence /\ c = p + 1
    OBVIOUS
  <2>4. r = Parameters(k, p, d, c)
    BY <1>3, <1>4, <2>3, Zenon DEF Prototype
  <2>5. d \in Nat
    BY <2>3 DEF DefaultPrecedence
  <2>6. HasRule(r, k, p)
    <3>1. c \in Position /\ c = p + 1 /\ k = "proto"
      BY <2>2, <2>3, Zenon
    <3> QED
      BY <1>4, <2>2, <2>4, <2>5, <3>1, NamedMade
  <2> QED
    BY <2>3, <2>6
<1>5. CASE Tok(p) \in {"unary", "binary"}
  <2>1. Tok(p) \in Inner /\ Tok(p) \notin Ident
    BY <1>3, <1>5, InnerWords, Zenon DEF Keyword
  <2>2. p + 1 \in Position /\ p \in 1..Len(text)
    BY <2>1, InnerHere
  <2>3. Tok(p + 1) \in Char
    <3>1. Tok(p + 1) \notin Char => r = Stops(p + 1)
      BY <1>5, <2>1, Zenon DEF Prototype
    <3> QED
      BY <1>2, <3>1, Zenon
  <2>4. p + 2 \in Position
    <3>1. Tok(p + 1) \in Inner
      BY <2>3, InnerWords, Zenon
    <3>2. (p + 1) + 1 \in Position
      BY <2>2, <3>1, InnerHere
    <3>3. (p + 1) + 1 = p + 2
      BY <1>1
    <3> QED
      BY <3>2, <3>3
  <2>5. CASE Tok(p) = "unary"
    <3>1. PICK w, k, d, c : w = "unary" /\ k = "unaryproto" /\ d = DefaultPrecedence /\ c = p + 2
      OBVIOUS
    <3>2. r = Parameters(k, p, d, c)
      BY <2>1, <2>3, <2>5, <3>1 DEF Prototype
    <3>3. d \in Nat
      BY <3>1 DEF DefaultPrecedence
    <3>4. HasRule(r, k, p)
      <4>1. w = "unary" /\ Tok(p) = w /\ k = "unaryproto" /\ c \in Position /\ c = p + 2
        BY <2>4, <2>5, <3>1, Zenon
      <4> QED
        BY <2>2, <2>3, <3>2, <3>3, <4>1, UnaryProtoMade
    <3> QED
      BY <3>1, <3>4
  <2>6. CASE Tok(p) = "binary"
    <3>1. PICK w, k, c : /\ w = "binary" /\ k = "binaryproto"
                         /\ c = IF Tok(p + 2) \in Number THEN p + 3 ELSE p + 2
      OBVIOUS
    <3>2. c \in Position /\ \E d \in Nat : r = Parameters(k, p, d, c)
      <4>1. CASE Tok(p + 2) \notin Number
        <5>1. r = Parameters(k, p, DefaultPrecedence, p + 2)
          BY <2>1, <2>3, <2>6, <3>1, <4>1 DEF Prototype
        <5>2. DefaultPrecedence \in Nat /\ c = p + 2
          BY <3>1, <4>1 DEF DefaultPrecedence
        <5> QED
          BY <2>4, <5>1, <5>2
      <4>2. CASE Tok(p + 2) \in Number
        <5>1. PICK t, v : t = Truncated(Tok(p + 2)) /\ v = Halves[Tok(p + 2)]
          OBVIOUS
        <5>2. r = IF IsPrecedence(Tok(p + 2))
                  THEN Parameters("binaryproto", p, Truncated(Tok(p + 2)), p + 3) ELSE Stops(p + 2)
          BY <2>1, <2>3, <2>6, <4>2 DEF Prototype
        <5>3. r = Parameters(k, p, t, p + 3)
          BY <1>2, <3>1, <5>1, <5>2, Zenon
        <5>4. t \in Nat
          <6>1. v \in Nat /\ t = v \div 2
            BY <4>2, <5>1, ParserAssumption DEF Truncated
          <6> QED
            BY <6>1
        <5>5. Tok(p + 2) \in Inner
          BY <4>2, InnerWords, Zenon
        <5>6. p + 3 \in Position
          <6>1. (p + 2) + 1 \in Position /\ (p + 2) + 1 = p + 3
            BY <1>1, <2>4, <5>5, InnerHere
          <6> QED
            BY <6>1
        <5> QED
          BY <3>1, <4>2, <5>3, <5>4, <5>6
      <4> QED
        BY <4>1, <4>2
    <3>3. PICK d \in Nat : r = Parameters(k, p, d, c)
      BY <3>2
    <3>4. HasRule(r, k, p)
      <4>1. /\ w = "binary" /\ Tok(p) = w /\ k = "binaryproto" /\ c \in Position
            /\ c = IF Tok(p + 2) \in Number THEN p + 3 ELSE p + 2
        BY <2>6, <3>1, <3>2, Zenon
      <4> QED
        BY <2>2, <2>3, <3>3, <4>1, BinaryProtoMade
    <3> QED
      BY <3>1, <3>4
  <2> QED
    BY <1>5, <2>5, <2>6
<1>6. CASE Tok(p) \notin Ident /\ Tok(p) \notin {"unary", "binary"}
  <2>1. r = Stops(p)
    BY <1>6 DEF Prototype
  <2> QED
    BY <1>2, <2>1, Zenon
<1> QED
  BY <1>4, <1>5, <1>6

-----------------------------------------------------------------------------
\* The loop keeps the third invariant.
LEMMA NoneWaiting ==
    ASSUME TreeMade', stack' = <<>>, phase' \in {"idle", "return"}
    PROVE  MatchInv'
<1>1. Len(<<>>) = 0
  BY NoLists
<1>2. StackBegun(text', ast', stack')
  BY <1>1 DEF StackBegun
<1>3. AtWork(text', ast', stack', phase', pos', ret')
  BY DEF AtWork
<1> QED
  BY <1>2, <1>3 DEF MatchInv

LEMMA FirstFunction ==
    ASSUME NEW f \in FrameType, NEW p \in Nat \ {0}, Expression(<<f>>, p), Begun(text', ast', f, p),
           TreeMade'
    PROVE  MatchInv'
<1>1. PICK s, g, u, t, a : /\ s = <<f>> /\ g = Frame("expr", p) /\ u = Append(s, g)
                           /\ t = text' /\ a = ast'
  OBVIOUS
<1>2. s \in Seq(FrameType) /\ s # <<>> /\ s[Len(s)] = f /\ Len(s) = 1
  BY <1>1
<1>3. g \in FrameType /\ g.fn = "expr" /\ g.at = p
  BY <1>1, FrameFields DEF Function
<1>4. StackBegun(t, a, s)
  <2>1. \A i \in 1..Len(s) - 1 : FALSE
    BY <1>2
  <2> QED
    BY <2>1 DEF StackBegun
<1>5. Begun(t, a, s[Len(s)], g.at)
  BY <1>1, <1>2, <1>3
<1>6. StackBegun(t, a, u) /\ u # <<>> /\ u[Len(u)] = g
  <2>1. s \in Seq(FrameType) /\ g \in FrameType
    BY <1>2, <1>3
  <2> QED
    BY <1>1, <1>4, <1>5, <2>1, BegunPush
<1>7. Begun(t, a, g, p)
  BY <1>3 DEF Begun
<1>8. stack' = u /\ phase' = "unary" /\ pos' = p
  BY <1>1 DEF Expression
<1>9. AtWork(text', ast', stack', phase', pos', ret')
  BY <1>1, <1>6, <1>7, <1>8 DEF AtWork
<1> QED
  BY <1>1, <1>6, <1>8, <1>9 DEF MatchInv

\* The node of a prototype.
LEMMA PrototypeNodeMade ==
    ASSUME text' = text, NEW k \in {"proto", "unaryproto", "binaryproto"}, NEW p, NEW r, HasRule(r, k, p)
    PROVE  /\ Made(r.node) /\ Made(r.node)' /\ r.node.kind # "function" /\ r.node.kind # "anonproto"
           /\ r.node.from = p /\ r.node.to + 1 = r.next
<1>1. PICK y : y = r.node
  OBVIOUS
<1>2. y.kind = k /\ ProtoNode(y, p, r.next) /\ \A a : Built(text, a, Rule(y), p, r.next)
  BY <1>1 DEF HasRule
<1>3. y.kind \notin {"function", "anonproto", "variable", "assign"}
  BY <1>2
<1>4. y.from = p /\ y.to + 1 = r.next
  BY <1>2 DEF ProtoNode
<1>5. Rule(y)' = Rule(y)
  BY <1>3, RuleStays
<1>6. Made(y)
  BY <1>2, <1>3, <1>4 DEF Made
<1>7. Made(y)'
  BY <1>2, <1>3, <1>4, <1>5 DEF Made
<1> QED
  BY <1>1, <1>3, <1>4, <1>6, <1>7

LEMMA OneNode ==
    ASSUME NEW x, Made(x)', ast' = <<x>>
    PROVE  TreeMade'
<1>1. Len(ast') = 1 /\ ast'[1] = x
  OBVIOUS
<1>2. ASSUME NEW i \in 1..Len(ast'), NEW n \in {ast'[i]} PROVE Made(n)'
  <2>1. n = x
    BY <1>1, <1>2
  <2> QED
    BY <2>1
<1> QED
  BY <1>2 DEF TreeMade

LEMMA DefinitionBegins ==
    ASSUME text' = text, text \in Seq(Token), pos \in Nat \ {0}, pos + 1 \in Nat, CurTok = "def",
           NEW k \in {"proto", "unaryproto", "binaryproto"}, NEW r, HasRule(r, k, pos + 1),
           r.node \in NodeType, r.next \in Nat \ {0},
           ast' = <<r.node>>, Expression(<<[Frame("def", pos) EXCEPT !.kids = << 1 >>]>>, r.next)
    PROVE  MatchInv'
<1>1. PICK g, ks, y, e : g = Frame("def", pos) /\ ks = <<1>> /\ y = r.node /\ e = r.next
  OBVIOUS
<1>2. PICK f : f = [g EXCEPT !.kids = ks]
  OBVIOUS
<1>3. g \in FrameType /\ g.fn = "def" /\ g.at = pos
  BY <1>1, FrameFields DEF Function
<1>4. ks \in Seq(Nat)
  BY <1>1, WithinOne
<1>5. f \in FrameType /\ f.fn = "def" /\ f.at = pos
  BY <1>2, <1>3, <1>4 DEF FrameType
<1>6. Made(y)' /\ y.kind # "anonproto" /\ y.from = pos + 1 /\ y.to + 1 = e
  BY <1>1, PrototypeNodeMade
<1>7. TreeMade'
  BY <1>1, <1>6, OneNode
<1>8. PICK a, q : a = ast' /\ q = pos + 1
  OBVIOUS
<1>9. a = <<y>> /\ Len(a) = 1 /\ a[1] = y
  BY <1>1, <1>8
<1>10. Built(text, a, <<Word({"def"}, pos)>>, pos, q)
  <2>1. {"def"} \subseteq Token /\ TokIn(text, pos) \in {"def"}
    BY ClassesAreTokens, TokIs DEF CurTok
  <2>2. Built(text, a, <<Word({"def"}, pos)>>, pos, pos + 1)
    BY <2>1, BuiltWord
  <2> QED
    BY <1>8, <2>2
<1>11. Built(text, a, <<Sub(1)>>, q, e)
  <2>1. y.to \in Int /\ q \in Nat \ {0} /\ e \in Nat \ {0} /\ y.from = q
    BY <1>1, <1>6, <1>8 DEF NodeType
  <2>2. Enclosed(text, q, y.from, y.to, e)
    BY <1>6, <2>1, Bare
  <2>3. 1 \in 1..Len(a)
    BY <1>9
  <2> QED
    BY <1>9, <2>1, <2>2, <2>3, BuiltSub
<1>12. Built(text, a, <<Word({"def"}, pos)>> \o <<Sub(1)>>, pos, e)
  BY <1>10, <1>11, BuiltJoin
<1>13. <<Word({"def"}, pos)>> \o <<Sub(1)>> = <<Word({"def"}, pos), Sub(1)>>
  <2>1. {"def"} \subseteq Token /\ 1 \in Nat /\ pos \in Nat
    BY ClassesAreTokens
  <2>2. Word({"def"}, pos) \in ItemType /\ Sub(1) \in ItemType
    BY <2>1, WordItem, SubItem
  <2> QED
    BY <2>2, JoinTwo
<1>14. DefBegun(text, a, f, e)
  BY <1>5, <1>6, <1>9, <1>12, <1>13 DEF DefBegun
<1>15. Begun(text', ast', f, e)
  <2>1. Begun(text, a, f, e)
    BY <1>5, <1>14 DEF Begun
  <2> QED
    BY <1>8, <2>1
<1>16. Expression(<<f>>, e) /\ e \in Nat \ {0}
  BY <1>1, <1>2
<1> QED
  BY <1>5, <1>7, <1>15, <1>16, FirstFunction

LEMMA BeginMatches ==
    ASSUME FrontendInv, MatchInv, ReadDefinition \/ ReadExtern \/ ReadExpression
    PROVE  MatchInv'
<1>1. /\ pc = "loop" /\ text' = text /\ CurTok # "eof"
  BY BeginFacts
<1>2. /\ ParserInv /\ text \in Seq(Token) /\ pos \in Position /\ ast \in Seq(NodeType) /\ TreeMade
  BY <1>1, LoopFactsHere, Facts DEF MatchInv
<1>3. pos \in 1..Len(text) /\ pos + 1 \in Position /\ pos \in Nat \ {0} /\ pos + 1 \in Nat
  BY <1>1, <1>2, WordHere, Facts DEF Position
<1>4. PICK r : r = Prototype(pos + 1)
  OBVIOUS
<1>5. Steps(pos + 1, r.next) /\ (r.ok => PrototypeNode(r.node))
  BY <1>2, <1>3, <1>4, PrototypeReads DEF Reads
<1>6. r.next \in Nat \ {0}
  BY <1>2, <1>3, <1>5, Facts DEF Steps, Position
<1>7. ASSUME ast' = ast PROVE TreeMade'
  BY <1>1, <1>2, <1>7, TreeSurvives DEF TreeMakes
<1>8. ASSUME NEW p, Fail(<<>>, p) PROVE MatchInv'
  <2>1. ast' = ast /\ stack' = <<>> /\ phase' = "return"
    BY <1>8 DEF Fail, Return
  <2> QED
    BY <1>7, <2>1, NoneWaiting
<1>9. ASSUME r.ok PROVE \E k \in {"proto", "unaryproto", "binaryproto"} : HasRule(r, k, pos + 1)
  BY <1>2, <1>3, <1>4, <1>9, PrototypeMade
<1>10. ASSUME r.ok PROVE r.node \in NodeType
  <2>1. NodeOK(text, ast, r.node, 0)
    <3>1. 0 \in Nat /\ 0 \in Int /\ PrototypeNode(r.node)
      BY <1>5, <1>10
    <3> QED
      BY <3>1, Zenon DEF PrototypeNode
  <2> QED
    BY <2>1 DEF NodeOK
<1>11. CASE ReadDefinition
  <2>1. ParseDefinition /\ CurTok = "def"
    BY <1>11, Zenon DEF ReadDefinition, Begin
  <2>2. CASE ~r.ok
    BY <1>4, <1>8, <2>1, <2>2 DEF ParseDefinition
  <2>3. CASE r.ok
    <3>1. ast' = <<r.node>> /\ Expression(<<[Frame("def", pos) EXCEPT !.kids = <<1>>]>>, r.next)
      BY <1>4, <2>1, <2>3 DEF ParseDefinition
    <3>2. PICK k \in {"proto", "unaryproto", "binaryproto"} : HasRule(r, k, pos + 1)
      BY <1>9, <2>3
    <3>3. r.node \in NodeType
      BY <1>10, <2>3
    <3> QED
      BY <1>1, <1>2, <1>3, <1>6, <2>1, <3>1, <3>2, <3>3, DefinitionBegins
  <2> QED
    BY <2>2, <2>3
<1>12. CASE ReadExtern
  <2>1. ParseExtern
    BY <1>12, Zenon DEF ReadExtern, Begin
  <2>2. CASE ~r.ok
    BY <1>4, <1>8, <2>1, <2>2 DEF ParseExtern
  <2>3. CASE r.ok
    <3>1. PICK z, x, y : z = r.next - 1 /\ x = r.node /\ y = [x EXCEPT !.to = z]
      OBVIOUS
    <3>2. ast' = Append(ast, y) /\ stack' = <<>> /\ phase' = "return"
      <4>1. Build(<<>>, r.node, r.next)
        BY <1>4, <2>1, <2>3 DEF ParseExtern
      <4> QED
        BY <3>1, <4>1, Zenon DEF Build, Return
    <3>3. PICK k \in {"proto", "unaryproto", "binaryproto"} : HasRule(r, k, pos + 1)
      BY <1>9, <2>3
    <3>4. Made(x) /\ x.kind # "function" /\ x.to + 1 = r.next
      BY <1>1, <3>1, <3>3, PrototypeNodeMade
    <3>5. x \in NodeType /\ x.to \in Int
      BY <1>10, <2>3, <3>1 DEF NodeType
    <3>6. x.to = z
      <4>1. z = r.next - 1
        BY <3>1, Zenon
      <4> QED
        BY <1>6, <3>4, <3>5, <4>1
    <3>7. y = x
      BY <3>1, <3>5, <3>6 DEF NodeType
    <3>8. TreeMakes
      BY <3>2, <3>4, <3>5, <3>7 DEF TreeMakes
    <3>9. TreeMade'
      BY <1>1, <1>2, <3>8, TreeSurvives
    <3> QED
      BY <3>2, <3>9, NoneWaiting
  <2> QED
    BY <2>2, <2>3
<1>13. CASE ReadExpression
  <2>1. ParseTopLevelExpr
    BY <1>13, Zenon DEF ReadExpression, Begin
  <2>2. PICK f : f = Frame("top", pos)
    OBVIOUS
  <2>3. Expression(<<f>>, pos) /\ ast' = ast
    BY <2>1, <2>2 DEF ParseTopLevelExpr
  <2>4. f \in FrameType /\ f.fn = "top" /\ f.at = pos
    BY <1>3, <2>2, FrameFields DEF Function
  <2>5. Begun(text', ast', f, pos)
    BY <2>4 DEF Begun
  <2> QED
    BY <1>3, <1>7, <2>3, <2>4, <2>5, FirstFunction
<1> QED
  BY <1>11, <1>12, <1>13

LEMMA MatchStep == ASSUME FrontendInv, MatchInv, [Next]_vars PROVE MatchInv'
<1>1. ParserInv /\ DriverInv /\ TreeMade
  BY DEF FrontendInv, MatchInv
<1>2. ASSUME UNCHANGED <<text, ast>> PROVE TreeMade'
  BY <1>1, <1>2, TreeSurvives DEF TreeMakes
<1>3. ASSUME UNCHANGED <<text, phase, stack, ast>>, stack = <<>>, phase \in {"idle", "return"}
      PROVE  MatchInv'
  BY <1>2, <1>3, NoneWaiting
<1>4. ASSUME NextConstruct, stack = <<>> PROVE MatchInv'
  <2>1. ast' = <<>> /\ stack' = <<>> /\ phase' = "idle"
    BY <1>4, Zenon DEF NextConstruct
  <2>2. Len(ast') = 0
    BY <2>1, NoLists
  <2>3. \A i \in 1..Len(ast') : FALSE
    BY <2>2
  <2>4. TreeMade'
    BY <2>3 DEF TreeMade
  <2> QED
    BY <2>1, <2>4, NoneWaiting
<1>5. CASE EndOfInput \/ Semicolon \/ SecondExpression
  <2>1. pc = "loop" /\ UNCHANGED <<text, phase, stack, ast>>
    BY <1>5, Zenon DEF EndOfInput, Semicolon, SecondExpression, parserVars
  <2>2. stack = <<>> /\ phase = "idle"
    BY <2>1, LoopFactsHere
  <2> QED
    BY <1>3, <2>1, <2>2
<1>6. CASE ReadDefinition \/ ReadExtern \/ ReadExpression
  BY <1>6, BeginMatches
<1>7. CASE Parse
  BY <1>1, <1>7, ParserStepMatches, Zenon DEF Parse
<1>8. CASE Recover \/ Generate \/ Declare
  <2>1. NextConstruct /\ (pc = "codegen" \/ stack = <<>>)
    BY <1>8, Zenon DEF Recover, Generate, Declare, Parsed
  <2>2. stack = <<>>
    BY <1>1, <2>1 DEF DriverInv
  <2> QED
    BY <1>4, <2>1, <2>2
<1>9. CASE Accept
  <2>1. Parsed /\ UNCHANGED <<text, phase, stack, ast>>
    BY <1>9, Zenon DEF Accept, parserVars
  <2> QED
    BY <1>3, <2>1 DEF Parsed
<1>10. CASE PrintTree
  <2>1. pc = "dump" /\ UNCHANGED <<text, phase, stack, ast>>
    BY <1>10, Zenon DEF PrintTree, DumpStep, parserVars
  <2>2. stack = <<>> /\ phase = "return"
    BY <1>1, <2>1 DEF DriverInv
  <2> QED
    BY <1>3, <2>1, <2>2
<1>11. CASE UNCHANGED vars
  <2>1. UNCHANGED <<text, phase, stack, ast, pos, ret>>
    BY <1>11 DEF vars, parserVars
  <2>2. TreeMade'
    BY <1>2, <2>1
  <2>3. StackBegun(text', ast', stack') /\ AtWork(text', ast', stack', phase', pos', ret')
    BY <2>1 DEF MatchInv
  <2> QED
    BY <2>2, <2>3 DEF MatchInv
<1> QED
  BY <1>5, <1>6, <1>7, <1>8, <1>9, <1>10, <1>11, Zenon DEF Next, Stopped

\* Every tree that the parser builds, for any tokens and any table of operators, is made
\* of the tokens it was read from, all of them and no others, by the rule that Grammar has
\* for its kind (the comments of Parser.cpp, corrected where its code differs from them):
\* each node spans what its parts span and the words between them, its location is that
\* of its keyword, operator or first token, and its names are the tokens of the names.
THEOREM MatchesHolds == Spec => []TreeMatchesTokens
<1>1. Init => MatchInv
  <2> SUFFICES ASSUME Init PROVE MatchInv
    OBVIOUS
  <2>1. ast = <<>> /\ stack = <<>> /\ phase = "idle"
    BY DEF Init, ParserInit
  <2>2. Len(ast) = 0 /\ Len(stack) = 0
    BY <2>1, NoLists
  <2>3. TreeMade /\ StackBegun(text, ast, stack)
    <3>1. \A i \in 1..0 : FALSE
      OBVIOUS
    <3>2. \A i \in 1..0 - 1 : FALSE
      OBVIOUS
    <3> QED
      BY <2>2, <3>1, <3>2 DEF TreeMade, StackBegun
  <2>4. AtWork(text, ast, stack, phase, pos, ret)
    BY <2>1 DEF AtWork
  <2> QED
    BY <2>3, <2>4 DEF MatchInv
<1>2. FrontendInv /\ MatchInv /\ [Next]_vars => MatchInv'
  BY MatchStep
<1>3. FrontendInv /\ MatchInv => TreeMatchesTokens
  BY MatchesTokens DEF FrontendInv
<1> QED
  BY FrontendShapeHolds, <1>1, <1>2, <1>3, PTL DEF Spec

-----------------------------------------------------------------------------
\* The lines of a dump, as they are printed: what the parts of line j are among L, and
\* that they are those of its node, up to the part d.
Cut(L, j) == \E m \in j + 1..Len(L) : L[m].indent <= L[j].indent
PartsIn(L, j) ==
    {m \in j + 1..Len(L) : /\ L[m].node # 0 /\ L[m].indent = L[j].indent + 2
                           /\ \A k \in j + 1..m : L[k].indent > L[j].indent}
PartsTo(a, x, j, d) ==
    {k \in DOMAIN a[x].kids : IF j = 1 THEN a[x].kind = "function" /\ k = 2
                              ELSE a[x].kids[k] # 0 /\ k <= d}
Matching(L, S, T, kids) ==
    \E at \in [S -> T] : /\ \A k \in S : L[at[k]].node = kids[k]
                         /\ \A k, l \in S : k < l => at[k] < at[l]
                         /\ T = {at[k] : k \in S}
Shows(a, L, j, d) ==
    LET x == L[j].node
    IN  Matching(L, PartsTo(a, x, j, d), PartsIn(L, j), a[x].kids)

\* A line shows all parts of its node, and no line to come will add to them; or the node
\* is being visited, and the line shows the parts visited so far.
Done(a, L, n, j) ==
    /\ Cut(L, j) \/ L[j].indent = 0 \/ L[j].indent >= 2 * n + 2
    /\ Shows(a, L, j, Len(a[L[j].node].kids))
Visited(a, L, v, j) ==
    /\ ~Cut(L, j)
    /\ \E i \in 1..Len(v) : /\ L[j].indent = 2 * i /\ v[i].node = L[j].node
                            /\ Shows(a, L, j, v[i].done)
AllShown(a, L, v) ==
    \A j \in 1..Len(L) : L[j].node # 0 => Done(a, L, Len(v), j) \/ Visited(a, L, v, j)

ShowInv ==
    /\ visits # <<>> => lines # <<>>
    /\ lines # <<>> => lines[1].node = ret /\ lines[1].indent = 0
    /\ AllShown(ast, lines, visits)

\* M has the lines of L and maybe more.
Longer(L, M) ==
    /\ L \in Seq(LineType) /\ M \in Seq(LineType) /\ Len(L) <= Len(M)
    /\ \A i \in 1..Len(L) : M[i] = L[i]

LEMMA LongerFacts ==
    ASSUME NEW L, NEW M, Longer(L, M), NEW j \in 1..Len(L)
    PROVE  /\ Len(L) \in Nat /\ Len(M) \in Nat /\ Len(L) <= Len(M) /\ j \in 1..Len(M)
           /\ L[j] \in LineType /\ L[j].indent \in Nat /\ L[j].node \in Nat /\ M[j] = L[j]
<1>1. L \in Seq(LineType) /\ M \in Seq(LineType) /\ Len(L) \in Nat /\ Len(M) \in Nat /\ Len(L) <= Len(M)
  BY LenProperties DEF Longer
<1>2. L[j] \in LineType
  BY <1>1, ElementOfSeq
<1>3. M[j] = L[j]
  BY DEF Longer
<1>4. L[j].indent \in Nat /\ L[j].node \in Nat
  BY <1>2 DEF LineType
<1>5. j \in 1..Len(M)
  BY <1>1
<1> QED
  BY <1>1, <1>2, <1>3, <1>4, <1>5

LEMMA CutStays ==
    ASSUME NEW L, NEW M, Longer(L, M), NEW j \in 1..Len(L), Cut(L, j)
    PROVE  Cut(M, j)
<1>1. PICK m \in j + 1..Len(L) : L[m].indent <= L[j].indent
  BY DEF Cut
<1>2. Len(L) \in Nat /\ Len(M) \in Nat /\ Len(L) <= Len(M) /\ M[j] = L[j]
  BY LongerFacts
<1>3. m \in 1..Len(L) /\ m \in j + 1..Len(M)
  BY <1>1, <1>2
<1>4. M[m] = L[m]
  BY <1>3 DEF Longer
<1> QED
  BY <1>1, <1>2, <1>3, <1>4 DEF Cut

LEMMA UncutStays ==
    ASSUME NEW L, NEW M, Longer(L, M), NEW j \in 1..Len(L), ~Cut(L, j),
           \A m \in Len(L) + 1..Len(M) : M[m].indent > L[j].indent
    PROVE  ~Cut(M, j)
<1>1. Len(L) \in Nat /\ Len(M) \in Nat /\ Len(L) <= Len(M) /\ M[j] = L[j] /\ L[j].indent \in Nat
  BY LongerFacts
<1>2. ASSUME NEW m \in j + 1..Len(M), M[m].indent <= M[j].indent PROVE FALSE
  <2>1. CASE m <= Len(L)
    <3>1. m \in 1..Len(L) /\ m \in j + 1..Len(L)
      BY <1>1, <2>1
    <3>2. M[m] = L[m]
      BY <3>1 DEF Longer
    <3> QED
      BY <1>1, <1>2, <3>1, <3>2 DEF Cut
  <2>2. CASE m > Len(L)
    <3>1. m \in Len(L) + 1..Len(M)
      BY <1>1, <2>2
    <3>2. M[m].indent > L[j].indent
      BY <3>1
    <3>3. M[m] \in LineType
      <4>1. m \in 1..Len(M) /\ M \in Seq(LineType)
        BY <1>1, <3>1 DEF Longer
      <4> QED
        BY <4>1, ElementOfSeq
    <3>4. M[m].indent \in Nat
      BY <3>3 DEF LineType
    <3> QED
      BY <1>1, <1>2, <3>2, <3>4
  <2> QED
    BY <1>1, <2>1, <2>2
<1> QED
  BY <1>2 DEF Cut

\* Lines further down are no parts of a node that is cut off, nor if they are no nodes two
\* steps further in.
LEMMA PartsStay ==
    ASSUME NEW L, NEW M, Longer(L, M), NEW j \in 1..Len(L),
           \/ Cut(L, j)
           \/ Len(L) + 1 <= Len(M) /\ M[Len(L) + 1].indent <= L[j].indent
           \/ \A m \in Len(L) + 1..Len(M) : M[m].node = 0 \/ M[m].indent # L[j].indent + 2
    PROVE  PartsIn(M, j) = PartsIn(L, j)
<1>1. Len(L) \in Nat /\ Len(M) \in Nat /\ Len(L) <= Len(M) /\ M[j] = L[j] /\ L[j].indent \in Nat
  BY LongerFacts
<1>2. \A m \in j + 1..Len(L) : m \in j + 1..Len(M) /\ M[m] = L[m] /\ \A k \in j + 1..m : M[k] = L[k]
  <2>1. ASSUME NEW m \in j + 1..Len(L), NEW k \in j + 1..m PROVE M[k] = L[k]
    <3>1. k \in 1..Len(L)
      BY <1>1
    <3> QED
      BY <3>1 DEF Longer
  <2>2. ASSUME NEW m \in j + 1..Len(L) PROVE m \in j + 1..Len(M) /\ m \in j + 1..m
    BY <1>1
  <2> QED
    BY <2>1, <2>2
<1>3. ASSUME NEW m \in PartsIn(L, j) PROVE m \in PartsIn(M, j)
  <2>1. /\ m \in j + 1..Len(L) /\ L[m].node # 0 /\ L[m].indent = L[j].indent + 2
        /\ \A k \in j + 1..m : L[k].indent > L[j].indent
    BY DEF PartsIn
  <2> QED
    BY <1>1, <1>2, <2>1 DEF PartsIn
<1>4. ASSUME NEW m \in PartsIn(M, j) PROVE m \in PartsIn(L, j)
  <2>1. /\ m \in j + 1..Len(M) /\ M[m].node # 0 /\ M[m].indent = L[j].indent + 2
        /\ \A k \in j + 1..m : M[k].indent > L[j].indent
    BY <1>1 DEF PartsIn
  <2>2. CASE m <= Len(L)
    <3>1. m \in j + 1..Len(L)
      BY <1>1, <2>1, <2>2
    <3> QED
      BY <1>1, <1>2, <2>1, <3>1 DEF PartsIn
  <2>3. CASE m > Len(L)
    <3>1. m \in Len(L) + 1..Len(M)
      BY <1>1, <2>1, <2>3
    <3>2. CASE Cut(L, j)
      <4>1. PICK k \in j + 1..Len(L) : L[k].indent <= L[j].indent
        BY <3>2 DEF Cut
      <4>2. k \in j + 1..m /\ k \in 1..Len(L)
        BY <1>1, <2>3, <3>1, <4>1
      <4>3. M[k] = L[k] /\ L[k].indent \in Nat
        BY <4>2, LongerFacts
      <4>4. M[k].indent > L[j].indent
        BY <2>1, <4>2
      <4> QED
        BY <1>1, <4>1, <4>3, <4>4
    <3>3. CASE Len(L) + 1 <= Len(M) /\ M[Len(L) + 1].indent <= L[j].indent
      <4>1. PICK k : k = Len(L) + 1
        OBVIOUS
      <4>2. k \in j + 1..m /\ k \in 1..Len(M)
        BY <1>1, <2>3, <3>1, <3>3, <4>1
      <4>3. M[k] \in LineType
        <5>1. M \in Seq(LineType)
          BY DEF Longer
        <5> QED
          BY <4>2, <5>1, ElementOfSeq
      <4>4. M[k].indent \in Nat
        BY <4>3 DEF LineType
      <4>5. M[k].indent > L[j].indent
        BY <2>1, <4>2
      <4> QED
        BY <1>1, <3>3, <4>1, <4>4, <4>5
    <3>4. CASE \A i \in Len(L) + 1..Len(M) : M[i].node = 0 \/ M[i].indent # L[j].indent + 2
      BY <2>1, <3>1, <3>4
    <3> QED
      BY <3>2, <3>3, <3>4
  <2> QED
    BY <1>1, <2>1, <2>2, <2>3
<1> QED
  BY <1>3, <1>4

LEMMA MatchingStays ==
    ASSUME NEW L, NEW M, NEW S, NEW T, NEW kids, \A m \in T : M[m].node = L[m].node,
           Matching(L, S, T, kids)
    PROVE  Matching(M, S, T, kids)
<1>1. PICK at \in [S -> T] : /\ \A k \in S : L[at[k]].node = kids[k]
                             /\ \A k, l \in S : k < l => at[k] < at[l]
                             /\ T = {at[k] : k \in S}
  BY DEF Matching
<1>2. ASSUME NEW k \in S PROVE M[at[k]].node = kids[k]
  <2>1. at[k] \in T
    BY <1>1
  <2> QED
    BY <1>1, <2>1
<1> QED
  BY <1>1, <1>2 DEF Matching

\* A part more, behind the others.
Beyond(S, k) == k \in Nat /\ S \subseteq Nat /\ \A i \in S : i < k

LEMMA MatchingGrows ==
    ASSUME NEW L, NEW M, NEW S, NEW T, NEW kids, \A i \in T : M[i].node = L[i].node,
           Matching(L, S, T, kids), NEW k, Beyond(S, k), NEW m, Beyond(T, m), M[m].node = kids[k]
    PROVE  Matching(M, S \cup {k}, T \cup {m}, kids)
<1>1. PICK at \in [S -> T] : /\ \A i \in S : L[at[i]].node = kids[i]
                             /\ \A i, l \in S : i < l => at[i] < at[l]
                             /\ T = {at[i] : i \in S}
  BY DEF Matching
<1>2. k \notin S /\ k \in Nat /\ S \subseteq Nat /\ \A i \in S : i < k
  BY DEF Beyond
<1>3. m \in Nat /\ T \subseteq Nat /\ \A i \in T : i < m
  BY DEF Beyond
<1>4. PICK R, U, f : R = S \cup {k} /\ U = T \cup {m} /\ f = [i \in R |-> IF i = k THEN m ELSE at[i]]
  OBVIOUS
<1>5. f[k] = m /\ \A i \in S : f[i] = at[i] /\ at[i] \in T /\ i \in R
  BY <1>1, <1>2, <1>4
<1>6. k \in R /\ \A i \in R : i = k \/ i \in S
  BY <1>4
<1>7. f \in [R -> U]
  BY <1>4, <1>5, <1>6
<1>8. ASSUME NEW i \in R PROVE M[f[i]].node = kids[i]
  BY <1>1, <1>5, <1>6
<1>9. ASSUME NEW i \in R, NEW l \in R, i < l PROVE f[i] < f[l]
  <2>1. CASE l = k
    <3>1. i \in S
      BY <1>2, <1>6, <1>9, <2>1
    <3> QED
      BY <1>5, <1>3, <2>1, <3>1
  <2>2. CASE l # k
    <3>1. l \in S /\ l < k /\ l \in Nat
      BY <1>2, <1>6, <2>2
    <3>2. i # k
      BY <1>2, <1>9, <3>1
    <3>3. i \in S
      BY <1>6, <3>2
    <3> QED
      BY <1>1, <1>5, <1>9, <3>1, <3>3
  <2> QED
    BY <2>1, <2>2
<1>10. U = {f[i] : i \in R}
  <2>1. ASSUME NEW y \in U PROVE \E i \in R : y = f[i]
    <3>1. CASE y = m
      BY <1>5, <1>6, <3>1
    <3>2. CASE y \in T
      <4>1. PICK i \in S : y = at[i]
        BY <1>1, <3>2
      <4> QED
        BY <1>5, <4>1
    <3> QED
      BY <1>4, <3>1, <3>2
  <2>2. ASSUME NEW i \in R PROVE f[i] \in U
    BY <1>7
  <2> QED
    BY <2>1, <2>2
<1>11. Matching(M, R, U, kids)
  BY <1>7, <1>8, <1>9, <1>10 DEF Matching
<1> QED
  BY <1>4, <1>11

LEMMA ShowsStay ==
    ASSUME NEW a, NEW L, NEW M, Longer(L, M), NEW j \in 1..Len(L), NEW d, Shows(a, L, j, d),
           PartsIn(M, j) = PartsIn(L, j)
    PROVE  Shows(a, M, j, d)
<1>1. M[j] = L[j] /\ Len(L) \in Nat
  BY LongerFacts
<1>2. PICK x, S, T, kids : /\ x = L[j].node /\ S = PartsTo(a, x, j, d) /\ T = PartsIn(L, j)
                           /\ kids = a[x].kids
  OBVIOUS
<1>3. ASSUME NEW m \in T PROVE M[m].node = L[m].node
  <2>1. m \in 1..Len(L)
    BY <1>1, <1>2 DEF PartsIn
  <2> QED
    BY <2>1 DEF Longer
<1>4. Matching(L, S, T, kids)
  BY <1>2 DEF Shows
<1>5. Matching(M, S, T, kids)
  BY <1>3, <1>4, MatchingStays
<1> QED
  BY <1>1, <1>2, <1>5 DEF Shows

\* What a step of the visitor with n open visits prints: a caption and maybe a node.
Prints(L, M, n) ==
    /\ Longer(L, M) /\ Len(M) \in {Len(L) + 1, Len(L) + 2}
    /\ M[Len(L) + 1].node = 0 /\ M[Len(L) + 1].indent = 2 * n + 1
    /\ Len(M) = Len(L) + 2 => M[Len(L) + 2].indent = 2 * n + 2

LEMMA PrintsFacts ==
    ASSUME NEW L, NEW M, NEW n \in Nat \ {0}, Prints(L, M, n)
    PROVE  /\ Longer(L, M) /\ Len(L) \in Nat /\ Len(M) \in Nat
           /\ \A m \in Len(L) + 1..Len(M) :
                \/ M[m].node = 0 /\ M[m].indent = 2 * n + 1
                \/ m = Len(L) + 2 /\ Len(M) = Len(L) + 2 /\ M[m].indent = 2 * n + 2
<1>1. Longer(L, M) /\ Len(L) \in Nat /\ Len(M) \in Nat
  BY LenProperties DEF Prints, Longer
<1>2. ASSUME NEW m \in Len(L) + 1..Len(M)
      PROVE  m = Len(L) + 1 \/ (m = Len(L) + 2 /\ Len(M) = Len(L) + 2)
  BY <1>1 DEF Prints
<1> QED
  BY <1>1, <1>2 DEF Prints

LEMMA DoneGoesOn ==
    ASSUME NEW a, NEW L, NEW M, NEW n \in Nat \ {0}, Prints(L, M, n), NEW j \in 1..Len(L),
           Done(a, L, n, j), NEW k
    PROVE  Done(a, M, k, j)
<1>1. Longer(L, M) /\ Len(L) \in Nat /\ Len(M) \in Nat
  BY PrintsFacts
<1>2. M[j] = L[j] /\ L[j].indent \in Nat
  BY <1>1, LongerFacts
<1>3. Len(L) + 1 \in j + 1..Len(M) /\ M[Len(L) + 1].indent = 2 * n + 1
  BY <1>1 DEF Prints
<1>4. CASE Cut(L, j)
  <2>1. Cut(M, j) /\ PartsIn(M, j) = PartsIn(L, j)
    BY <1>1, <1>4, CutStays, PartsStay
  <2> QED
    BY <1>1, <1>2, <2>1, ShowsStay DEF Done
<1>5. CASE L[j].indent = 0
  <2>1. ASSUME NEW m \in Len(L) + 1..Len(M) PROVE M[m].node = 0 \/ M[m].indent # L[j].indent + 2
    <3>1. M[m].node = 0 \/ M[m].indent = 2 * n + 2
      BY PrintsFacts
    <3> QED
      BY <1>5, <3>1
  <2>2. PartsIn(M, j) = PartsIn(L, j)
    BY <1>1, <2>1, PartsStay
  <2> QED
    BY <1>1, <1>2, <1>5, <2>2, ShowsStay DEF Done
<1>6. CASE L[j].indent >= 2 * n + 2
  <2>1. M[Len(L) + 1].indent <= L[j].indent /\ Len(L) + 1 <= Len(M)
    BY <1>1, <1>2, <1>3, <1>6
  <2>2. Cut(M, j)
    BY <1>2, <1>3, <2>1 DEF Cut
  <2>3. PartsIn(M, j) = PartsIn(L, j)
    BY <1>1, <2>1, PartsStay
  <2> QED
    BY <1>1, <1>2, <2>2, <2>3, ShowsStay DEF Done
<1> QED
  BY <1>4, <1>5, <1>6 DEF Done

\* Nodes that are being visited stay open, and only the innermost gets a part.
LEMMA OpenGoesOn ==
    ASSUME NEW L, NEW M, NEW n \in Nat \ {0}, Prints(L, M, n), NEW j \in 1..Len(L),
           ~Cut(L, j), NEW i \in 1..n, L[j].indent = 2 * i
    PROVE  /\ ~Cut(M, j) /\ M[j] = L[j]
           /\ i < n \/ Len(M) = Len(L) + 1 => PartsIn(M, j) = PartsIn(L, j)
<1>1. Longer(L, M) /\ Len(L) \in Nat /\ Len(M) \in Nat
  BY PrintsFacts
<1>2. M[j] = L[j]
  BY <1>1, LongerFacts
<1>3. ASSUME NEW m \in Len(L) + 1..Len(M) PROVE M[m].indent > L[j].indent
  <2>1. M[m].indent = 2 * n + 1 \/ M[m].indent = 2 * n + 2
    BY PrintsFacts
  <2> QED
    BY <2>1
<1>4. ASSUME i < n \/ Len(M) = Len(L) + 1, NEW m \in Len(L) + 1..Len(M)
      PROVE  M[m].node = 0 \/ M[m].indent # L[j].indent + 2
  <2>1. M[m].node = 0 \/ (Len(M) = Len(L) + 2 /\ M[m].indent = 2 * n + 2)
    BY PrintsFacts
  <2> QED
    BY <1>1, <1>4, <2>1
<1>5. ~Cut(M, j)
  BY <1>1, <1>3, UncutStays
<1>6. i < n \/ Len(M) = Len(L) + 1 => PartsIn(M, j) = PartsIn(L, j)
  BY <1>1, <1>4, PartsStay
<1> QED
  BY <1>2, <1>5, <1>6

GetsPart(L, M, n, j) ==
    /\ n \in Nat \ {0} /\ Prints(L, M, n) /\ j \in 1..Len(L) /\ ~Cut(L, j)
    /\ L[j].indent = 2 * n /\ Len(M) = Len(L) + 2 /\ M[Len(M)].node # 0

LEMMA OpenGetsPart ==
    ASSUME NEW L, NEW M, NEW n, NEW j, GetsPart(L, M, n, j)
    PROVE  PartsIn(M, j) = PartsIn(L, j) \cup {Len(M)}
<1>0. /\ n \in Nat \ {0} /\ Prints(L, M, n) /\ j \in 1..Len(L) /\ ~Cut(L, j)
      /\ L[j].indent = 2 * n /\ Len(M) = Len(L) + 2 /\ M[Len(M)].node # 0
  BY DEF GetsPart
<1>1. Longer(L, M) /\ Len(L) \in Nat /\ Len(M) \in Nat
  BY <1>0, PrintsFacts
<1>2. M[j] = L[j]
  BY <1>0, <1>1, LongerFacts
<1>3. ~Cut(M, j)
  BY <1>0, OpenGoesOn
<1>4. M[Len(L) + 1].node = 0 /\ M[Len(L) + 2].indent = 2 * n + 2
  BY <1>0 DEF Prints
<1>5. ASSUME NEW k \in j + 1..Len(M) PROVE M[k].indent > M[j].indent
  <2>1. M[k].indent \in Nat /\ M[j].indent \in Nat
    <3>1. k \in 1..Len(M) /\ j \in 1..Len(M) /\ M \in Seq(LineType)
      BY <1>0, <1>1 DEF Longer
    <3>2. M[k] \in LineType /\ M[j] \in LineType
      BY <3>1, ElementOfSeq
    <3> QED
      BY <3>2 DEF LineType
  <2> QED
    BY <1>3, <2>1 DEF Cut
<1>6. ASSUME NEW m \in j + 1..Len(M) PROVE \A k \in j + 1..m : M[k].indent > M[j].indent
  BY <1>0, <1>1, <1>5
<1>7. PartsIn(M, j) = {m \in j + 1..Len(M) : M[m].node # 0 /\ M[m].indent = M[j].indent + 2}
  BY <1>6 DEF PartsIn
<1>8. ASSUME NEW m \in j + 1..Len(L) PROVE M[m] = L[m] /\ \A k \in j + 1..m : L[k].indent > L[j].indent
  <2>1. \A k \in j + 1..m : k \in 1..Len(L)
    BY <1>0, <1>1
  <2>2. \A k \in j + 1..m : k \in j + 1..Len(M) /\ M[k] = L[k]
    BY <1>0, <1>1, <2>1 DEF Longer
  <2>3. m \in j + 1..m
    BY <1>0, <1>1
  <2> QED
    BY <1>2, <1>5, <2>2, <2>3
<1>9. PartsIn(L, j) = {m \in j + 1..Len(L) : M[m].node # 0 /\ M[m].indent = M[j].indent + 2}
  BY <1>2, <1>8 DEF PartsIn
<1>10. ASSUME NEW m \in j + 1..Len(M)
       PROVE  m \in j + 1..Len(L) \/ m = Len(L) + 1 \/ m = Len(M)
  BY <1>0, <1>1
<1>11. Len(M) \in j + 1..Len(M) /\ \A m \in j + 1..Len(L) : m \in j + 1..Len(M)
  BY <1>0, <1>1
<1>12. M[Len(M)].indent = M[j].indent + 2
  BY <1>0, <1>2, <1>4
<1> QED
  BY <1>0, <1>4, <1>7, <1>9, <1>10, <1>11, <1>12

\* Parts that are not there have no line, and behind the last one there is none.
LEMMA ShowsNone ==
    ASSUME NEW a, NEW L, NEW j, NEW d \in Nat, a[L[j].node].kids[d + 1] = 0, j # 1,
           a[L[j].node].kids \in Seq(Nat), Shows(a, L, j, d)
    PROVE  Shows(a, L, j, d + 1)
<1>1. PICK x, kids : x = L[j].node /\ kids = a[x].kids
  OBVIOUS
<1>2. DOMAIN kids = 1..Len(kids) /\ Len(kids) \in Nat
  BY <1>1, LenProperties
<1>3. ASSUME NEW k \in DOMAIN kids, kids[k] # 0 PROVE k <= d <=> k <= d + 1
  BY <1>1, <1>2, <1>3
<1>4. PartsTo(a, x, j, d + 1) = PartsTo(a, x, j, d)
  BY <1>1, <1>3 DEF PartsTo
<1> QED
  BY <1>1, <1>4 DEF Shows

LEMMA ShowsAll ==
    ASSUME NEW a, NEW L, NEW j, NEW d \in Nat, d >= Len(a[L[j].node].kids),
           a[L[j].node].kids \in Seq(Nat), Shows(a, L, j, d)
    PROVE  Shows(a, L, j, Len(a[L[j].node].kids))
<1>1. PICK x, kids, e : x = L[j].node /\ kids = a[x].kids /\ e = Len(kids)
  OBVIOUS
<1>2. DOMAIN kids = 1..e /\ e \in Nat /\ d >= e
  BY <1>1, LenProperties
<1>3. \A k \in DOMAIN kids : k <= d /\ k <= e
  BY <1>2
<1>4. PartsTo(a, x, j, e) = PartsTo(a, x, j, d)
  BY <1>1, <1>3 DEF PartsTo
<1> QED
  BY <1>1, <1>4 DEF Shows

LEMMA ShowsMore ==
    ASSUME NEW a, NEW L, NEW M, NEW n \in Nat \ {0}, Prints(L, M, n), NEW j \in 1..Len(L), j # 1,
           ~Cut(L, j), L[j].indent = 2 * n, Len(M) = Len(L) + 2, NEW d \in Nat,
           Shows(a, L, j, d), a[L[j].node].kids \in Seq(Nat), d < Len(a[L[j].node].kids),
           M[Len(M)].node # 0, M[Len(M)].node = a[L[j].node].kids[d + 1]
    PROVE  Shows(a, M, j, d + 1)
<1>1. Longer(L, M) /\ Len(L) \in Nat /\ Len(M) \in Nat
  BY PrintsFacts
<1>2. M[j] = L[j]
  BY <1>1, LongerFacts
<1>3. PICK x, S, T, kids, k, m : /\ x = L[j].node /\ S = PartsTo(a, x, j, d) /\ T = PartsIn(L, j)
                                 /\ kids = a[x].kids /\ k = d + 1 /\ m = Len(M)
  OBVIOUS
<1>4. Matching(L, S, T, kids)
  BY <1>3 DEF Shows
<1>5. DOMAIN kids = 1..Len(kids) /\ Len(kids) \in Nat /\ k \in DOMAIN kids /\ k \in Nat
  BY <1>3, LenProperties
<1>6. S \subseteq Nat /\ \A i \in S : i < k
  <2>1. \A i \in S : i \in 1..Len(kids) /\ i <= d
    BY <1>3, <1>5 DEF PartsTo
  <2> QED
    BY <1>3, <1>5, <2>1
<1>7. T \subseteq Nat /\ m \in Nat /\ \A i \in T : i \in 1..Len(L) /\ i < m
  <2>1. PICK l : l = Len(L)
    OBVIOUS
  <2>2. l \in Nat /\ m = l + 2 /\ j \in 1..l
    BY <1>1, <1>3, <2>1
  <2>3. ASSUME NEW i \in T PROVE i \in 1..l /\ i \in Nat /\ i < m
    <3>1. i \in j + 1..l
      BY <1>3, <2>1 DEF PartsIn
    <3> QED
      BY <2>2, <3>1
  <2> QED
    BY <2>1, <2>2, <2>3
<1>8. \A i \in T : M[i].node = L[i].node
  BY <1>1, <1>7 DEF Longer
<1>9. M[m].node = kids[k]
  BY <1>3
<1>10. Matching(M, S \cup {k}, T \cup {m}, kids)
  <2>1. Beyond(S, k) /\ Beyond(T, m)
    BY <1>5, <1>6, <1>7 DEF Beyond
  <2> QED
    BY <1>4, <1>8, <1>9, <2>1, MatchingGrows
<1>11. PartsIn(M, j) = T \cup {m}
  <2>1. PartsIn(M, j) = PartsIn(L, j) \cup {Len(M)}
    <3>1. GetsPart(L, M, n, j)
      BY DEF GetsPart
    <3> QED
      BY <3>1, OpenGetsPart
  <2> QED
    BY <1>3, <2>1
<1>12. PartsTo(a, x, j, k) = S \cup {k}
  <2>1. ASSUME NEW i \in DOMAIN kids PROVE i <= k <=> i <= d \/ i = k
    BY <1>3, <1>5
  <2>2. kids[k] # 0
    BY <1>3
  <2> QED
    BY <1>3, <1>5, <2>1, <2>2 DEF PartsTo
<1> QED
  BY <1>2, <1>3, <1>10, <1>11, <1>12 DEF Shows

\* What a step of the visitor does to the lines printed so far.  It goes on with the next
\* part of the innermost node, whose lists of visits are v and w.
TreeOfKids(a) == \A x \in 1..Len(a) : a[x].kids \in Seq(Nat)
Counts(a, v, w) ==
    /\ v \in Seq(VisitType) /\ w \in Seq(VisitType) /\ Len(v) # 0 /\ Len(w) >= Len(v)
    /\ \A i \in 1..Len(v) : v[i].node \in 1..Len(a)
    /\ \A i \in 1..Len(v) - 1 : w[i] = v[i]
    /\ w[Len(v)].node = v[Len(v)].node /\ w[Len(v)].done = v[Len(v)].done + 1
    /\ v[Len(v)].done < Len(a[v[Len(v)].node].kids)
NextPart(a, v) == a[v[Len(v)].node].kids[v[Len(v)].done + 1]

LEMMA CountsFacts ==
    ASSUME NEW a, NEW v, NEW w, Counts(a, v, w), TreeOfKids(a)
    PROVE  /\ Len(v) \in Nat \ {0} /\ Len(w) \in Nat
           /\ \A i \in 1..Len(v) : /\ i \in 1..Len(w) /\ v[i].done \in Nat /\ w[i].node = v[i].node
                                   /\ a[v[i].node].kids \in Seq(Nat)
<1>1. Len(v) \in Nat \ {0} /\ Len(w) \in Nat /\ Len(w) >= Len(v)
  BY LenProperties DEF Counts
<1>2. ASSUME NEW i \in 1..Len(v) PROVE v[i].done \in Nat /\ a[v[i].node].kids \in Seq(Nat)
  <2>1. v[i] \in VisitType
    BY ElementOfSeq DEF Counts
  <2>2. v[i].node \in 1..Len(a)
    BY DEF Counts
  <2> QED
    BY <2>1, <2>2 DEF VisitType, TreeOfKids
<1>3. ASSUME NEW i \in 1..Len(v) PROVE i \in 1..Len(w) /\ w[i].node = v[i].node
  <2>1. i = Len(v) \/ i \in 1..Len(v) - 1
    BY <1>1
  <2> QED
    BY <1>1, <2>1 DEF Counts
<1> QED
  BY <1>1, <1>2, <1>3

\* No line: the part is not there.
LEMMA SilentShown ==
    ASSUME NEW a, NEW L, NEW v, NEW w, Counts(a, v, w), Len(w) = Len(v), TreeOfKids(a),
           NextPart(a, v) = 0, AllShown(a, L, v), L[1].indent = 0
    PROVE  AllShown(a, L, w)
<1>1. PICK n : n = Len(v)
  OBVIOUS
<1>2. n \in Nat \ {0}
  BY <1>1, CountsFacts
<1>3. ASSUME NEW j \in 1..Len(L), Visited(a, L, v, j) PROVE Visited(a, L, w, j)
  <2>1. PICK i \in 1..n : L[j].indent = 2 * i /\ v[i].node = L[j].node /\ Shows(a, L, j, v[i].done)
    BY <1>1, <1>3 DEF Visited
  <2>2. v[i].done \in Nat /\ w[i].node = v[i].node /\ a[v[i].node].kids \in Seq(Nat)
    BY <1>1, CountsFacts
  <2>3. ~Cut(L, j)
    BY <1>3 DEF Visited
  <2>4. CASE i < n
    <3>1. w[i] = v[i]
      <4>1. i \in 1..n - 1
        BY <1>2, <2>4
      <4> QED
        BY <1>1, <4>1 DEF Counts
    <3> QED
      BY <1>1, <2>1, <2>3, <3>1 DEF Visited
  <2>5. CASE i = n
    <3>1. PICK d : d = v[i].done
      OBVIOUS
    <3>2. w[i].done = d + 1 /\ a[L[j].node].kids[d + 1] = 0
      BY <1>1, <2>1, <2>5, <3>1 DEF Counts, NextPart
    <3>3. j # 1
      BY <1>2, <2>1, <2>5
    <3>4. Shows(a, L, j, d + 1)
      BY <2>1, <2>2, <3>1, <3>2, <3>3, ShowsNone
    <3> QED
      BY <1>1, <2>1, <2>2, <2>3, <3>2, <3>4 DEF Visited
  <2> QED
    BY <1>2, <2>4, <2>5
<1> QED
  BY <1>3 DEF AllShown

\* The end of a visit.
LEMMA LeaveShown ==
    ASSUME NEW a, NEW L \in Seq(LineType), NEW v \in Seq(VisitType), NEW u \in Seq(VisitType),
           TreeOfKids(a), AllShown(a, L, v), Len(v) # 0, Len(u) = Len(v) - 1, \A i \in 1..Len(u) : u[i] = v[i],
           v[Len(v)].node \in 1..Len(a), v[Len(v)].done >= Len(a[v[Len(v)].node].kids)
    PROVE  AllShown(a, L, u)
<1>1. PICK n : n = Len(v)
  OBVIOUS
<1>2. n \in Nat \ {0} /\ Len(u) = n - 1
  BY <1>1, LenProperties
<1>3. ASSUME NEW j \in 1..Len(L), Done(a, L, n, j) PROVE Done(a, L, n - 1, j)
  <2>1. PICK i : i = L[j].indent
    OBVIOUS
  <2>2. L[j] \in LineType
    BY ElementOfSeq
  <2>3. i \in Nat
    BY <2>1, <2>2 DEF LineType
  <2>4. i >= 2 * n + 2 => i >= 2 * (n - 1) + 2
    BY <1>2, <2>3
  <2> QED
    BY <1>3, <2>1, <2>4 DEF Done
<1>4. ASSUME NEW j \in 1..Len(L), Visited(a, L, v, j)
      PROVE  Done(a, L, n - 1, j) \/ Visited(a, L, u, j)
  <2>1. PICK i \in 1..n : L[j].indent = 2 * i /\ v[i].node = L[j].node /\ Shows(a, L, j, v[i].done)
    BY <1>1, <1>4 DEF Visited
  <2>2. ~Cut(L, j)
    BY <1>4 DEF Visited
  <2>3. CASE i < n
    <3>1. i \in 1..Len(u)
      BY <1>2, <2>3
    <3>2. u[i] = v[i]
      BY <3>1
    <3> QED
      BY <2>1, <2>2, <3>1, <3>2 DEF Visited
  <2>4. CASE i = n
    <3>1. PICK d : d = v[i].done
      OBVIOUS
    <3>2. d \in Nat /\ a[L[j].node].kids \in Seq(Nat) /\ d >= Len(a[L[j].node].kids)
      <4>1. v[n] \in VisitType
        BY <1>1, <1>2, ElementOfSeq
      <4>2. v[n].node \in 1..Len(a)
        BY <1>1
      <4>3. a[v[n].node].kids \in Seq(Nat)
        BY <4>2 DEF TreeOfKids
      <4> QED
        BY <1>1, <2>1, <2>4, <3>1, <4>1, <4>3 DEF VisitType
    <3>3. Shows(a, L, j, Len(a[L[j].node].kids))
      BY <2>1, <3>1, <3>2, ShowsAll
    <3>4. L[j].indent >= 2 * (n - 1) + 2
      BY <1>2, <2>1, <2>4
    <3> QED
      BY <3>3, <3>4 DEF Done
  <2> QED
    BY <1>2, <2>3, <2>4
<1> QED
  BY <1>1, <1>2, <1>3, <1>4 DEF AllShown

\* A caption, of a part that is not there or of one that is visited next.
LEMMA PrintShown ==
    ASSUME NEW a, NEW L, NEW M, NEW v, NEW w, Counts(a, v, w), TreeOfKids(a), AllShown(a, L, v),
           Prints(L, M, Len(v)), L[1].indent = 0, NEW p, p = NextPart(a, v),
           \/ p = 0 /\ Len(M) = Len(L) + 1
           \/ p # 0 /\ Len(M) = Len(L) + 2 /\ M[Len(M)].node = p,
           NEW j \in 1..Len(L), L[j].node # 0
    PROVE  Done(a, M, Len(w), j) \/ Visited(a, M, w, j)
<1>1. PICK n : n = Len(v)
  OBVIOUS
<1>2. n \in Nat \ {0} /\ Prints(L, M, n) /\ Len(w) \in Nat
  BY <1>1, CountsFacts
<1>3. Longer(L, M) /\ Len(L) \in Nat /\ Len(M) \in Nat /\ M[j] = L[j]
  <2>1. Longer(L, M) /\ Len(L) \in Nat /\ Len(M) \in Nat
    BY <1>2, PrintsFacts
  <2> QED
    BY <2>1 DEF Longer
<1>4. CASE Done(a, L, n, j)
  BY <1>2, <1>4, DoneGoesOn
<1>5. CASE Visited(a, L, v, j)
  <2>1. PICK i \in 1..n : L[j].indent = 2 * i /\ v[i].node = L[j].node /\ Shows(a, L, j, v[i].done)
    BY <1>1, <1>5 DEF Visited
  <2>2. /\ v[i].done \in Nat /\ w[i].node = v[i].node /\ a[v[i].node].kids \in Seq(Nat)
        /\ i \in 1..Len(w)
    BY <1>1, CountsFacts
  <2>3. ~Cut(L, j)
    BY <1>5 DEF Visited
  <2>4. ~Cut(M, j) /\ (i < n \/ Len(M) = Len(L) + 1 => PartsIn(M, j) = PartsIn(L, j))
    BY <1>2, <2>1, <2>3, OpenGoesOn
  <2>5. CASE i < n
    <3>1. w[i] = v[i]
      <4>1. i \in 1..n - 1
        BY <1>2, <2>5
      <4> QED
        BY <1>1, <4>1 DEF Counts
    <3>2. Shows(a, M, j, v[i].done)
      BY <1>3, <2>1, <2>4, <2>5, ShowsStay
    <3> QED
      BY <1>3, <2>1, <2>2, <2>4, <3>1, <3>2 DEF Visited
  <2>6. CASE i = n
    <3>1. PICK d, kids : d = v[i].done /\ kids = a[L[j].node].kids
      OBVIOUS
    <3>2. w[i].done = d + 1 /\ p = kids[d + 1] /\ d < Len(kids) /\ d \in Nat /\ kids \in Seq(Nat)
      BY <1>1, <2>1, <2>2, <2>6, <3>1 DEF Counts, NextPart
    <3>3. j # 1
      BY <1>2, <2>1, <2>6
    <3>4. CASE p = 0 /\ Len(M) = Len(L) + 1
      <4>1. Shows(a, L, j, d + 1)
        BY <2>1, <3>1, <3>2, <3>3, <3>4, ShowsNone
      <4>2. Shows(a, M, j, d + 1)
        BY <1>3, <2>4, <3>4, <4>1, ShowsStay
      <4> QED
        BY <1>3, <2>1, <2>2, <2>4, <3>2, <4>2 DEF Visited
    <3>5. CASE p # 0 /\ Len(M) = Len(L) + 2 /\ M[Len(M)].node = p
      <4>1. L[j].indent = 2 * n /\ Shows(a, L, j, d)
        BY <2>1, <2>6, <3>1
      <4>2. /\ M[Len(M)].node # 0 /\ M[Len(M)].node = a[L[j].node].kids[d + 1]
            /\ a[L[j].node].kids \in Seq(Nat) /\ d < Len(a[L[j].node].kids)
        BY <3>1, <3>2, <3>5
      <4>3. Shows(a, M, j, d + 1)
        BY <1>2, <2>3, <3>2, <3>3, <3>5, <4>1, <4>2, ShowsMore
      <4> QED
        BY <1>3, <2>1, <2>2, <2>4, <3>2, <4>3 DEF Visited
    <3> QED
      BY <3>4, <3>5
  <2> QED
    BY <1>2, <2>5, <2>6
<1> QED
  BY <1>1, <1>4, <1>5 DEF AllShown

LEMMA NoParts == ASSUME NEW L, NEW kids PROVE Matching(L, {}, {}, kids)
<1>1. PICK at : at = [k \in {} |-> 0]
  OBVIOUS
<1>2. at \in [{} -> {}] /\ {} = {at[k] : k \in {}}
  BY <1>1
<1> QED
  BY <1>2 DEF Matching

\* A line that is the last has no parts.
LEMMA LastShown ==
    ASSUME NEW a, NEW M \in Seq(LineType), NEW m, m = Len(M), m # 1, a[M[m].node].kids \in Seq(Nat)
    PROVE  ~Cut(M, m) /\ Shows(a, M, m, 0)
<1>1. m \in Nat
  BY LenProperties
<1>2. \A k \in m + 1..Len(M) : FALSE
  BY <1>1
<1>3. ~Cut(M, m) /\ PartsIn(M, m) = {}
  BY <1>2 DEF Cut, PartsIn
<1>4. PICK kids, x : x = M[m].node /\ kids = a[x].kids
  OBVIOUS
<1>5. DOMAIN kids = 1..Len(kids) /\ Len(kids) \in Nat
  BY <1>4, LenProperties
<1>6. PartsTo(a, x, m, 0) = {}
  <2>1. \A k \in DOMAIN kids : ~(k <= 0)
    BY <1>5
  <2> QED
    BY <1>4, <2>1 DEF PartsTo
<1> QED
  BY <1>3, <1>4, <1>6, NoParts DEF Shows

LEMMA ChildShown ==
    ASSUME NEW a, NEW L, NEW M, NEW v, NEW w, Counts(a, v, w), TreeOfKids(a), AllShown(a, L, v),
           Prints(L, M, Len(v)), L[1].indent = 0, Len(L) # 0, NEW p, p = NextPart(a, v), p # 0,
           p \in 1..Len(a), Len(M) = Len(L) + 2, M[Len(M)].node = p,
           Len(w) = Len(v) + 1, w[Len(w)].node = p, w[Len(w)].done = 0
    PROVE  AllShown(a, M, w)
<1>1. PICK n : n = Len(v)
  OBVIOUS
<1>2. n \in Nat \ {0} /\ Prints(L, M, n) /\ Len(w) \in 1..Len(w)
  BY <1>1, CountsFacts
<1>3. Longer(L, M) /\ Len(L) \in Nat /\ Len(M) \in Nat
  BY <1>2, PrintsFacts
<1>4. ASSUME NEW j \in 1..Len(L), M[j].node # 0 PROVE Done(a, M, Len(w), j) \/ Visited(a, M, w, j)
  <2>1. L[j].node # 0
    BY <1>3, <1>4 DEF Longer
  <2> QED
    BY <2>1, PrintShown
<1>5. M[Len(L) + 1].node = 0 /\ M[Len(M)].indent = 2 * Len(w)
  BY <1>1, <1>2 DEF Prints
<1>6. Visited(a, M, w, Len(M))
  <2>1. a[M[Len(M)].node].kids \in Seq(Nat)
    BY DEF TreeOfKids
  <2>2. Len(M) # 1 /\ M \in Seq(LineType)
    BY <1>3 DEF Longer
  <2>3. ~Cut(M, Len(M)) /\ Shows(a, M, Len(M), 0)
    BY <2>1, <2>2, LastShown
  <2> QED
    BY <1>2, <1>5, <2>3 DEF Visited
<1>7. \A j \in 1..Len(M) : j \in 1..Len(L) \/ j = Len(L) + 1 \/ j = Len(M)
  BY <1>3
<1> QED
  BY <1>4, <1>5, <1>6, <1>7 DEF AllShown

LEMMA CaptionShown ==
    ASSUME NEW a, NEW L, NEW M, NEW v, NEW w, Counts(a, v, w), TreeOfKids(a), AllShown(a, L, v),
           Prints(L, M, Len(v)), L[1].indent = 0, NextPart(a, v) = 0, Len(M) = Len(L) + 1
    PROVE  AllShown(a, M, w)
<1>1. PICK n, p : n = Len(v) /\ p = NextPart(a, v)
  OBVIOUS
<1>2. n \in Nat \ {0} /\ Prints(L, M, n)
  BY <1>1, CountsFacts
<1>3. Longer(L, M) /\ Len(L) \in Nat /\ Len(M) \in Nat
  BY <1>2, PrintsFacts
<1>4. ASSUME NEW j \in 1..Len(L), M[j].node # 0 PROVE Done(a, M, Len(w), j) \/ Visited(a, M, w, j)
  <2>1. L[j].node # 0
    BY <1>3, <1>4 DEF Longer
  <2> QED
    BY <1>1, <2>1, PrintShown
<1>5. M[Len(L) + 1].node = 0
  BY <1>2 DEF Prints
<1>6. \A j \in 1..Len(M) : j \in 1..Len(L) \/ j = Len(L) + 1
  BY <1>3
<1> QED
  BY <1>4, <1>5, <1>6 DEF AllShown

\* A line more, and a visit more.
AddsLine(L, M, i, n) ==
    /\ L \in Seq(LineType) /\ M \in Seq(LineType) /\ Len(L) \in Nat /\ Len(M) = Len(L) + 1
    /\ \A k \in 1..Len(L) : M[k] = L[k]
    /\ M[Len(L) + 1].node = n /\ M[Len(L) + 1].indent = i
AddsVisit(v, w, n) ==
    /\ w \in Seq(VisitType) /\ Len(v) \in Nat /\ Len(w) = Len(v) + 1
    /\ \A k \in 1..Len(v) : w[k] = v[k]
    /\ w[Len(w)].node = n /\ w[Len(w)].done = 0

LEMMA LineMore ==
    ASSUME NEW L \in Seq(LineType), NEW i \in Nat, NEW n \in Nat
    PROVE  AddsLine(L, L \o Line(n, i), i, n)
<1>1. PICK x : x = [indent |-> i, node |-> n]
  OBVIOUS
<1>2. x \in LineType /\ x.node = n /\ x.indent = i
  BY <1>1 DEF LineType
<1>3. L \o Line(n, i) = Append(L, x)
  BY <1>1, <1>2 DEF Line
<1>4. AddsLine(L, Append(L, x), i, n)
  BY <1>2, PushFacts DEF AddsLine
<1> QED
  BY <1>3, <1>4

LEMMA VisitMore ==
    ASSUME NEW v \in Seq(VisitType), NEW n \in Nat
    PROVE  AddsVisit(v, v \o Visit(n), n)
<1>1. PICK x : x = [node |-> n, done |-> 0]
  OBVIOUS
<1>2. x \in VisitType /\ x.node = n /\ x.done = 0
  BY <1>1 DEF VisitType
<1>3. v \o Visit(n) = Append(v, x)
  BY <1>1, <1>2 DEF Visit
<1>4. AddsVisit(v, Append(v, x), n)
  BY <1>2, PushFacts DEF AddsVisit
<1> QED
  BY <1>3, <1>4

LEMMA TreeKids ==
    ASSUME ParserInv
    PROVE  TreeOfKids(ast) /\ \A x \in 1..Len(ast) : Within(ast[x].kids, 0..Len(ast))
<1>1. AstOK(text, ast) /\ Len(ast) \in Nat
  BY Facts
<1>2. ASSUME NEW x \in 1..Len(ast) PROVE ast[x].kids \in Seq(Nat) /\ Within(ast[x].kids, 0..Len(ast))
  <2>1. ast[x] \in NodeType /\ Within(ast[x].kids, 0..x - 1)
    BY <1>1 DEF AstOK, NodeOK
  <2>2. 0..x - 1 \subseteq 0..Len(ast)
    BY <1>1
  <2> QED
    BY <2>1, <2>2 DEF NodeType, Within
<1> QED
  BY <1>2 DEF TreeOfKids

\* The innermost visit goes on.
LEMMA CountedFacts ==
    ASSUME DumperInv, HasPart
    PROVE  /\ Counts(ast, visits, Counted) /\ Counted \in Seq(VisitType)
           /\ Len(Counted) = Len(visits) /\ Len(visits) \in Nat \ {0}
           /\ NextPart(ast, visits) = Part
<1>1. visits # <<>> /\ visits \in Seq(VisitType) /\ \A i \in 1..Len(visits) : visits[i].node \in 1..Len(ast)
  BY DEF HasPart, DumperInv
<1>2. Outer = AllButLast(visits)
  BY DEF Outer, AllButLast
<1>3. /\ Outer \in Seq(VisitType) /\ Len(visits) \in Nat \ {0} /\ Len(Outer) = Len(visits) - 1
      /\ \A i \in 1..Len(visits) - 1 : Outer[i] = visits[i]
      /\ Current \in VisitType
  BY <1>1, <1>2, PopFacts DEF Current
<1>4. PICK c : c = [Current EXCEPT !.done = @ + 1]
  OBVIOUS
<1>5. c \in VisitType /\ c.node = Current.node /\ c.done = Current.done + 1
  BY <1>3, <1>4 DEF VisitType
<1>6. Counted = Append(Outer, c)
  BY <1>4 DEF Counted
<1>7. /\ Counted \in Seq(VisitType) /\ Len(Counted) = Len(Outer) + 1
      /\ \A i \in 1..Len(Outer) : Counted[i] = Outer[i]
      /\ Counted[Len(Outer) + 1] = c
  BY <1>3, <1>5, <1>6, PushFacts
<1>8. Len(Counted) = Len(visits) /\ Counted[Len(visits)] = c
  BY <1>3, <1>7
<1>9. \A i \in 1..Len(visits) - 1 : Counted[i] = visits[i]
  BY <1>3, <1>7
<1>10. Current.done < Len(ast[Current.node].kids)
  BY DEF HasPart
<1>11. Counts(ast, visits, Counted)
  BY <1>1, <1>3, <1>5, <1>7, <1>8, <1>9, <1>10 DEF Counts, Current
<1> QED
  BY <1>3, <1>7, <1>8, <1>11 DEF NextPart, Part, Current

LEMMA ChildPrints ==
    ASSUME ParserInv, DumperInv, ShowInv, Child
    PROVE  AllShown(ast, lines', visits') /\ Longer(lines, lines')
<1>1. HasPart /\ Part # 0
  BY DEF Child
<1>2. /\ Counts(ast, visits, Counted) /\ Counted \in Seq(VisitType)
      /\ Len(Counted) = Len(visits) /\ Len(visits) \in Nat \ {0} /\ NextPart(ast, visits) = Part
  BY <1>1, CountedFacts
<1>3. visits # <<>> /\ lines # <<>> /\ lines[1].indent = 0 /\ AllShown(ast, lines, visits)
  BY <1>1 DEF HasPart, ShowInv
<1>4. lines \in Seq(LineType) /\ indent = 2 * Len(visits)
  BY DEF DumperInv
<1>5. TreeOfKids(ast)
  BY TreeKids
<1>6. PICK p, n : p = Part /\ n = Len(visits)
  OBVIOUS
<1>7. p \in 1..Len(ast) /\ p # 0 /\ p \in Nat
  <2>1. PICK x, d : x = visits[n].node /\ d = visits[n].done
    OBVIOUS
  <2>2. x \in 1..Len(ast) /\ d < Len(ast[x].kids) /\ p = ast[x].kids[d + 1] /\ d \in Nat
    <3>1. x \in 1..Len(ast) /\ d < Len(ast[x].kids)
      BY <1>2, <1>6, <2>1 DEF Counts
    <3>2. p = ast[x].kids[d + 1]
      BY <1>2, <1>6, <2>1 DEF NextPart
    <3>3. d \in Nat
      BY <1>2, <1>5, <1>6, <2>1, CountsFacts
    <3> QED
      BY <3>1, <3>2, <3>3
  <2>3. PICK kids : kids = ast[x].kids
    OBVIOUS
  <2>4. kids \in Seq(Nat) /\ Within(kids, 0..Len(ast))
    BY <2>2, <2>3, TreeKids DEF TreeOfKids
  <2>5. d + 1 \in 1..Len(kids)
    BY <2>2, <2>3, <2>4, LenProperties
  <2>6. p \in 0..Len(ast)
    BY <2>2, <2>3, <2>4, <2>5 DEF Within
  <2> QED
    BY <1>1, <1>6, <2>6, Facts
<1>8. PICK M, i : M = lines \o Caption(i + 1) /\ i = indent /\ i = 2 * n /\ n \in Nat
  BY <1>2, <1>4, <1>6
<1>9. lines' = M \o Line(p, i + 2) /\ visits' = Counted \o Visit(p)
  BY <1>6, <1>8 DEF Child
<1>10. AddsLine(lines, M, i + 1, 0)
  <2>1. i + 1 \in Nat /\ 0 \in Nat /\ M = lines \o Line(0, i + 1)
    BY <1>8 DEF Caption
  <2> QED
    BY <1>4, <2>1, LineMore
<1>11. AddsLine(M, lines', i + 2, p)
  <2>1. i + 2 \in Nat /\ M \in Seq(LineType)
    BY <1>8, <1>10 DEF AddsLine
  <2> QED
    BY <1>7, <1>9, <2>1, LineMore
<1>12. PICK l, L : l = Len(lines) /\ L = lines'
  OBVIOUS
<1>13. Longer(lines, L)
  <2>1. /\ lines \in Seq(LineType) /\ Len(lines) \in Nat /\ Len(M) = Len(lines) + 1
        /\ \A k \in 1..Len(lines) : M[k] = lines[k]
    BY <1>10 DEF AddsLine
  <2>2. L \in Seq(LineType) /\ Len(L) = Len(M) + 1 /\ \A k \in 1..Len(M) : L[k] = M[k]
    BY <1>11, <1>12 DEF AddsLine
  <2>3. \A k \in 1..Len(lines) : k \in 1..Len(M)
    BY <2>1
  <2>4. \A k \in 1..Len(lines) : L[k] = lines[k]
    BY <2>1, <2>2, <2>3
  <2>5. Len(lines) <= Len(L)
    BY <2>1, <2>2
  <2> QED
    BY <2>1, <2>2, <2>4, <2>5 DEF Longer
<1>14. Prints(lines, L, n)
  <2>1. /\ Len(lines) \in Nat /\ Len(M) = Len(lines) + 1
        /\ M[Len(lines) + 1].node = 0 /\ M[Len(lines) + 1].indent = 2 * n + 1
    BY <1>8, <1>10 DEF AddsLine
  <2>2. Len(L) = Len(M) + 1 /\ L[Len(M) + 1].indent = 2 * n + 2 /\ \A k \in 1..Len(M) : L[k] = M[k]
    BY <1>8, <1>11, <1>12 DEF AddsLine
  <2>3. Len(L) = Len(lines) + 2 /\ L[Len(lines) + 2].indent = 2 * n + 2
    <3>1. Len(M) + 1 = Len(lines) + 2 /\ Len(L) = Len(lines) + 2
      BY <2>1, <2>2
    <3> QED
      BY <2>2, <3>1
  <2>4. L[Len(lines) + 1] = M[Len(lines) + 1]
    BY <2>1, <2>2
  <2> QED
    BY <1>13, <2>1, <2>3, <2>4 DEF Prints
<1>15. Len(lines) # 0
  BY <1>3, <1>4, EmptySeq
<1>16. L[Len(L)].node = p /\ Len(L) = Len(lines) + 2
  BY <1>10, <1>11, <1>12 DEF AddsLine
<1>17. PICK w : w = visits'
  OBVIOUS
<1>18. /\ w \in Seq(VisitType) /\ Len(w) = Len(Counted) + 1
       /\ \A k \in 1..Len(Counted) : w[k] = Counted[k]
       /\ w[Len(w)].node = p /\ w[Len(w)].done = 0
  <2>1. AddsVisit(Counted, w, p)
    BY <1>2, <1>7, <1>9, <1>17, VisitMore
  <2> QED
    BY <2>1 DEF AddsVisit
<1>19. Counts(ast, visits, w)
  <2>1. \A k \in 1..Len(visits) : w[k] = Counted[k]
    BY <1>2, <1>18
  <2>2. Len(visits) \in 1..Len(visits) /\ \A k \in 1..Len(visits) - 1 : k \in 1..Len(visits)
    BY <1>2
  <2>3. Len(w) >= Len(visits)
    BY <1>2, <1>18
  <2> QED
    BY <1>2, <1>18, <2>1, <2>2, <2>3 DEF Counts
<1>20. AllShown(ast, L, w)
  BY <1>2, <1>3, <1>5, <1>6, <1>7, <1>14, <1>15, <1>16, <1>18, <1>19, ChildShown
<1> QED
  BY <1>12, <1>13, <1>17, <1>20

LEMMA NoChildPrints ==
    ASSUME ParserInv, DumperInv, ShowInv, NoChild
    PROVE  AllShown(ast, lines', visits') /\ Longer(lines, lines')
<1>1. HasPart /\ Part = 0 /\ visits' = Counted
  BY DEF NoChild
<1>2. /\ Counts(ast, visits, Counted) /\ Counted \in Seq(VisitType)
      /\ Len(Counted) = Len(visits) /\ Len(visits) \in Nat \ {0} /\ NextPart(ast, visits) = Part
  BY <1>1, CountedFacts
<1>3. visits # <<>> /\ lines # <<>> /\ lines[1].indent = 0 /\ AllShown(ast, lines, visits)
  BY <1>1 DEF HasPart, ShowInv
<1>4. lines \in Seq(LineType) /\ indent = 2 * Len(visits)
  BY DEF DumperInv
<1>5. TreeOfKids(ast)
  BY TreeKids
<1>6. CASE lines' = lines
  <2>1. AllShown(ast, lines, Counted)
    BY <1>1, <1>2, <1>3, <1>5, SilentShown
  <2>2. Longer(lines, lines)
    BY <1>4, LenProperties DEF Longer
  <2> QED
    BY <1>1, <1>6, <2>1, <2>2
<1>7. CASE lines' = lines \o Caption(indent + 1)
  <2>1. PICK M, i, n, w : M = lines' /\ i = indent /\ n = Len(visits) /\ i = 2 * n /\ n \in Nat /\ w = visits'
    BY <1>2, <1>4
  <2>2. AddsLine(lines, M, i + 1, 0)
    <3>1. i + 1 \in Nat /\ 0 \in Nat /\ M = lines \o Line(0, i + 1)
      BY <1>7, <2>1 DEF Caption
    <3> QED
      BY <1>4, <3>1, LineMore
  <2>3. Longer(lines, M) /\ Len(M) = Len(lines) + 1
    BY <2>2 DEF Longer, AddsLine
  <2>4. Prints(lines, M, n)
    BY <2>1, <2>2, <2>3 DEF Prints, AddsLine
  <2>5. AllShown(ast, M, w)
    BY <1>1, <1>2, <1>3, <1>5, <2>1, <2>3, <2>4, CaptionShown
  <2> QED
    BY <2>1, <2>3, <2>5
<1> QED
  BY <1>6, <1>7 DEF NoChild

LEMMA LeavePrints ==
    ASSUME ParserInv, DumperInv, ShowInv, Leave
    PROVE  AllShown(ast, lines', visits') /\ Longer(lines, lines')
<1>1. visits # <<>> /\ ~HasPart /\ lines' = lines /\ visits' = Outer
  BY DEF Leave
<1>2. /\ visits \in Seq(VisitType) /\ \A i \in 1..Len(visits) : visits[i].node \in 1..Len(ast)
      /\ lines \in Seq(LineType) /\ AllShown(ast, lines, visits) /\ TreeOfKids(ast)
  BY TreeKids DEF DumperInv, ShowInv
<1>3. Outer = AllButLast(visits)
  BY DEF Outer, AllButLast
<1>4. /\ Outer \in Seq(VisitType) /\ Len(visits) \in Nat \ {0} /\ Len(Outer) = Len(visits) - 1
      /\ \A i \in 1..Len(visits) - 1 : Outer[i] = visits[i]
      /\ Current \in VisitType
  BY <1>1, <1>2, <1>3, PopFacts DEF Current
<1>5. PICK n, x, d : n = Len(visits) /\ x = visits[n].node /\ d = visits[n].done
  OBVIOUS
<1>6. n \in 1..Len(visits) /\ x \in 1..Len(ast) /\ d \in Nat
  BY <1>2, <1>4, <1>5 DEF Current, VisitType
<1>7. Len(ast[x].kids) \in Nat
  BY <1>2, <1>6, LenProperties DEF TreeOfKids
<1>8. d >= Len(ast[x].kids)
  BY <1>1, <1>5, <1>6, <1>7 DEF HasPart, Current
<1>9. AllShown(ast, lines, Outer)
  BY <1>2, <1>4, <1>5, <1>6, <1>8, LeaveShown
<1>10. Longer(lines, lines)
  BY <1>2, LenProperties DEF Longer
<1> QED
  BY <1>1, <1>9, <1>10

LEMMA DumpStepShows ==
    ASSUME ParserInv, DumperInv, ShowInv, DumpStep
    PROVE  ShowInv'
<1>1. visits # <<>> /\ UNCHANGED <<ast, ret>>
  BY Zenon DEF DumpStep, parserVars, Child, NoChild, Leave, HasPart
<1>2. AllShown(ast, lines', visits') /\ Longer(lines, lines')
  BY ChildPrints, NoChildPrints, LeavePrints DEF DumpStep
<1>3. lines # <<>> /\ lines[1].node = ret /\ lines[1].indent = 0 /\ lines \in Seq(LineType)
  BY <1>1 DEF ShowInv, DumperInv
<1>4. Len(lines) \in Nat \ {0} /\ Len(lines') >= Len(lines) /\ lines'[1] = lines[1]
  <2>1. Len(lines) \in Nat \ {0}
    BY <1>3, PopFacts
  <2>2. 1 \in 1..Len(lines)
    BY <2>1
  <2> QED
    BY <1>2, <2>1, <2>2 DEF Longer
<1>5. lines' # <<>>
  BY <1>4
<1>6. AllShown(ast', lines', visits')
  BY <1>1, <1>2
<1> QED
  BY <1>1, <1>3, <1>4, <1>5, <1>6 DEF ShowInv

\* The lines a dump begins with.
FunctionLines(L, f, p, b) ==
    /\ L \in Seq(LineType) /\ Len(L) = 4 /\ L[1].node = f /\ L[1].indent = 0
    /\ L[2].node = p /\ L[2].indent = 1 /\ L[3].node = 0 /\ L[3].indent = 1
    /\ L[4].node = b /\ L[4].indent = 2

LEMMA FunctionShown ==
    ASSUME NEW a, NEW L, NEW w, NEW f, NEW p, NEW b, FunctionLines(L, f, p, b), TreeOfKids(a),
           a[f].kind = "function", a[f].kids \in Seq(Nat), Len(a[f].kids) = 2, b = a[f].kids[2],
           a[p].kids = <<>>, b \in 1..Len(a), b # 0, Len(w) = 1, w[1].node = b, w[1].done = 0
    PROVE  AllShown(a, L, w)
<1>0. /\ L \in Seq(LineType) /\ Len(L) = 4 /\ L[1].node = f /\ L[1].indent = 0
      /\ L[2].node = p /\ L[2].indent = 1 /\ L[3].node = 0 /\ L[3].indent = 1
      /\ L[4].node = b /\ L[4].indent = 2
  BY DEF FunctionLines
<1>1. Done(a, L, 1, 1)
  <2>1. PartsIn(L, 1) = {4}
    <3>1. 1 + 1..Len(L) = {2, 3, 4}
      BY <1>0
    <3>3. \A k \in {2, 3, 4} : L[k].indent > L[1].indent
      BY <1>0
    <3>4. \A m \in {2, 3, 4} : (L[m].node # 0 /\ L[m].indent = L[1].indent + 2) <=> m = 4
      BY <1>0
    <3>5. ASSUME NEW m \in {2, 3, 4} PROVE \A k \in 1 + 1..m : L[k].indent > L[1].indent
      <4>1. 1 + 1..m \subseteq {2, 3, 4}
        BY <1>0
      <4> QED
        BY <1>0, <3>3, <4>1
    <3> QED
      BY <1>0, <3>1, <3>4, <3>5 DEF PartsIn
  <2>2. DOMAIN a[f].kids = 1..2
    BY <1>0, LenProperties
  <2>3. PartsTo(a, f, 1, Len(a[f].kids)) = {2}
    BY <1>0, <2>2 DEF PartsTo
  <2>4. Matching(L, {2}, {4}, a[f].kids)
    <3>1. PICK at : at = [k \in {2} |-> 4]
      OBVIOUS
    <3>2. at \in [{2} -> {4}] /\ at[2] = 4
      BY <1>0, <3>1
    <3>3. {4} = {at[k] : k \in {2}}
      BY <1>0, <3>2
    <3>4. \A k, l \in {2} : k < l => at[k] < at[l]
      OBVIOUS
    <3> QED
      BY <1>0, <3>2, <3>3, <3>4 DEF Matching
  <2>5. Shows(a, L, 1, Len(a[f].kids))
    BY <1>0, <2>1, <2>3, <2>4 DEF Shows
  <2> QED
    BY <1>0, <2>5 DEF Done
<1>2. Done(a, L, 1, 2)
  <2>1. Cut(L, 2)
    <3>1. 3 \in 2 + 1..Len(L) /\ L[3].indent <= L[2].indent
      BY <1>0
    <3> QED
      BY <1>0, <3>1 DEF Cut
  <2>2. PartsIn(L, 2) = {}
    <3>1. \A m \in 2 + 1..Len(L) : 3 \in 2 + 1..m
      BY <1>0
    <3>2. ~(L[3].indent > L[2].indent)
      BY <1>0
    <3> QED
      BY <1>0, <3>1, <3>2 DEF PartsIn
  <2>3. PICK x, d : x = L[2].node /\ d = Len(a[x].kids)
    OBVIOUS
  <2>4. DOMAIN a[x].kids = {}
    BY <1>0, <2>3
  <2>5. PartsTo(a, x, 2, d) = {}
    BY <1>0, <2>4 DEF PartsTo
  <2>6. Shows(a, L, 2, d)
    BY <1>0, <2>2, <2>3, <2>5, NoParts DEF Shows
  <2> QED
    BY <1>0, <2>1, <2>3, <2>6 DEF Done
<1>3. Visited(a, L, w, 4)
  <2>1. a[L[4].node].kids \in Seq(Nat)
    BY <1>0 DEF TreeOfKids
  <2>2. ~Cut(L, 4) /\ Shows(a, L, 4, 0)
    BY <1>0, <2>1, LastShown
  <2> QED
    BY <1>0, <2>2 DEF Visited
<1>4. \A j \in 1..Len(L) : j = 1 \/ j = 2 \/ j = 3 \/ j = 4
  BY <1>0
<1> QED
  BY <1>0, <1>1, <1>2, <1>3, <1>4 DEF AllShown

LEMMA PrototypeShown ==
    ASSUME NEW a, NEW L, Len(L) = 1, L[1].indent = 0, a[L[1].node].kind # "function"
    PROVE  AllShown(a, L, <<>>)
<1>1. PartsIn(L, 1) = {}
  <2>1. \A m \in 1 + 1..1 : FALSE
    OBVIOUS
  <2> QED
    BY <2>1 DEF PartsIn
<1>2. PICK x, d : x = L[1].node /\ d = Len(a[x].kids)
  OBVIOUS
<1>3. PartsTo(a, x, 1, d) = {}
  BY <1>2 DEF PartsTo
<1>4. Shows(a, L, 1, d)
  BY <1>1, <1>2, <1>3, NoParts DEF Shows
<1>5. Done(a, L, Len(<<>>), 1)
  BY <1>2, <1>4 DEF Done
<1>6. \A j \in 1..Len(L) : j = 1
  OBVIOUS
<1> QED
  BY <1>5, <1>6 DEF AllShown

\* A prototype has no parts in the tree.
LEMMA ProtoBare ==
    ASSUME ParserInv, NEW n \in 1..Len(ast), ast[n].kind = "function"
    PROVE  ast[ast[n].kids[1]].kids = <<>>
<1>1. PICK p : p = ast[n].kids[1]
  OBVIOUS
<1>2. p \in 1..Len(ast) /\ AstOK(text, ast)
  BY <1>1, Facts, FunctionParts
<1>3. ast[p].kind \in Protos
  BY <1>1, <1>2 DEF AstOK, NodeOK
<1>4. ProtoOK(text, ast[p])
  BY <1>2, <1>3 DEF AstOK, NodeOK
<1> QED
  BY <1>1, <1>4 DEF ProtoOK

LEMMA FourLines ==
    ASSUME NEW f \in Nat, NEW p \in Nat, NEW b \in Nat
    PROVE  FunctionLines(Line(f, 0) \o Line(p, 1) \o Caption(1) \o Line(b, 2), f, p, b)
<1>1. PICK A, B, C, L : /\ A = Line(f, 0) /\ B = A \o Line(p, 1) /\ C = B \o Line(0, 1)
                        /\ L = C \o Line(b, 2)
  OBVIOUS
<1>2. 0 \in Nat /\ 1 \in Nat /\ 2 \in Nat
  OBVIOUS
<1>3. A \in Seq(LineType) /\ Len(A) = 1 /\ A[1].node = f /\ A[1].indent = 0
  <2>1. PICK x : x = [indent |-> 0, node |-> f]
    OBVIOUS
  <2>2. x \in LineType /\ x.node = f /\ x.indent = 0 /\ A = << x >>
    BY <1>1, <2>1 DEF LineType, Line
  <2> QED
    BY <2>2
<1>4. AddsLine(A, B, 1, p)
  BY <1>1, <1>2, <1>3, LineMore
<1>5. AddsLine(B, C, 1, 0)
  <2>1. B \in Seq(LineType)
    BY <1>4 DEF AddsLine
  <2> QED
    BY <1>1, <1>2, <2>1, LineMore
<1>6. AddsLine(C, L, 2, b)
  <2>1. C \in Seq(LineType)
    BY <1>5 DEF AddsLine
  <2> QED
    BY <1>1, <1>2, <2>1, LineMore
<1>7. Len(B) = 2 /\ B[1] = A[1] /\ B[2].node = p /\ B[2].indent = 1
  BY <1>3, <1>4 DEF AddsLine
<1>8. Len(C) = 3 /\ C[1] = A[1] /\ C[2] = B[2] /\ C[3].node = 0 /\ C[3].indent = 1
  BY <1>5, <1>7 DEF AddsLine
<1>9. Len(L) = 4 /\ L[1] = A[1] /\ L[2] = B[2] /\ L[3] = C[3] /\ L[4].node = b /\ L[4].indent = 2
  BY <1>6, <1>8 DEF AddsLine
<1>10. FunctionLines(L, f, p, b)
  BY <1>3, <1>6, <1>7, <1>8, <1>9 DEF FunctionLines, AddsLine
<1>11. L = Line(f, 0) \o Line(p, 1) \o Caption(1) \o Line(b, 2)
  BY <1>1, Zenon DEF Caption
<1> QED
  BY <1>10, <1>11

LEMMA DumpBeginShows ==
    ASSUME ParserInv, DumperInv, visits = <<>>, ret # 0, Dump(ret), UNCHANGED <<ast, ret>>
    PROVE  ShowInv'
<1>1. indent = 0 /\ ret \in 1..Len(ast) /\ TreeOfKids(ast) /\ Len(ast) \in Nat
  <2>1. indent = 0
    BY DEF DumperInv
  <2> QED
    BY <2>1, Facts, TreeKids
<1>2. CASE ast[ret].kind = "function"
  <2>1. PICK p, b, L, w, f : /\ p = ast[ret].kids[1] /\ b = ast[ret].kids[2] /\ L = lines' /\ w = visits'
                             /\ f = ret
    OBVIOUS
  <2>2. p \in 1..Len(ast) /\ b \in 1..Len(ast) /\ p # 0 /\ b # 0 /\ ast[p].kids = <<>>
    BY <1>1, <1>2, <2>1, FunctionParts, ProtoBare
  <2>3. /\ L = Line(f, indent) \o Line(p, indent + 1) \o Caption(indent + 1) \o Line(b, indent + 2)
        /\ w = Visit(b)
    BY <1>2, <2>1 DEF Dump, DumpFunction
  <2>4. L = Line(f, 0) \o Line(p, 1) \o Caption(1) \o Line(b, 2)
    <3>1. indent + 1 = 1 /\ indent + 2 = 2
      BY <1>1
    <3> QED
      BY <1>1, <2>3, <3>1, Zenon
  <2>5. FunctionLines(L, f, p, b)
    <3>1. f \in Nat /\ p \in Nat /\ b \in Nat
      BY <1>1, <2>1, <2>2
    <3> QED
      BY <2>4, <3>1, FourLines
  <2>6. Len(w) = 1 /\ w[1].node = b /\ w[1].done = 0
    BY <2>3 DEF Visit
  <2>7. Len(ast[f].kids) = 2 /\ ast[f].kids \in Seq(Nat) /\ ast[f].kind = "function"
    <3>1. NodeOK(text, ast, ast[ret], ret - 1)
      BY <1>1, Facts DEF AstOK
    <3> QED
      BY <1>2, <2>1, <3>1 DEF NodeOK, NodeType
  <2>8. AllShown(ast, L, w)
    <3>1. b = ast[f].kids[2]
      BY <2>1
    <3> QED
      BY <1>1, <2>2, <2>5, <2>6, <2>7, <3>1, FunctionShown
  <2>9. L # <<>> /\ L[1].node = f /\ L[1].indent = 0
    <3>1. Len(L) = 4 /\ L[1].node = f /\ L[1].indent = 0
      BY <2>5 DEF FunctionLines
    <3>2. L # <<>>
      BY <3>1, NoLists
    <3> QED
      BY <3>1, <3>2
  <2> QED
    BY <2>1, <2>8, <2>9 DEF ShowInv
<1>3. CASE ast[ret].kind # "function"
  <2>1. PICK x, L : x = [indent |-> 0, node |-> ret] /\ L = lines'
    OBVIOUS
  <2>2. L = << x >> /\ x.indent = 0 /\ x.node = ret /\ visits' = <<>>
    BY <1>1, <1>3, <2>1 DEF Dump, DumpPrototype, Line
  <2>3. Len(L) = 1 /\ L[1] = x
    BY <2>2
  <2>4. AllShown(ast, L, <<>>)
    BY <1>3, <2>2, <2>3, PrototypeShown
  <2>5. lines' # <<>>
    BY <2>1, <2>3, NoLists
  <2> QED
    BY <2>1, <2>2, <2>3, <2>4, <2>5 DEF ShowInv
<1> QED
  BY <1>2, <1>3

LEMMA NothingShown ==
    /\ lines = <<>> /\ visits = <<>> => ShowInv
    /\ lines' = <<>> /\ visits' = <<>> => ShowInv'
<1>1. ASSUME NEW a, NEW v PROVE AllShown(a, <<>>, v)
  <2>1. \A j \in 1..Len(<<>>) : FALSE
    OBVIOUS
  <2> QED
    BY <2>1 DEF AllShown
<1> QED
  BY <1>1 DEF ShowInv

LEMMA ShowStep == ASSUME FrontendInv, ShowInv, [Next]_vars PROVE ShowInv'
<1>1. ParserInv /\ DumperInv /\ DriverInv
  BY DEF FrontendInv
<1>2. CASE EndOfInput \/ Semicolon \/ ReadDefinition \/ ReadExtern \/ ReadExpression
           \/ SecondExpression \/ Parse
  <2>1. pc \in {"loop", "parse"} /\ UNCHANGED dumperVars
    BY <1>2, Zenon DEF EndOfInput, Semicolon, ReadDefinition, ReadExtern, ReadExpression, Begin,
                       SecondExpression, Parse
  <2>2. lines = <<>> /\ visits = <<>>
    BY <1>1, <2>1 DEF DriverInv
  <2> QED
    BY <2>1, <2>2, NothingShown DEF dumperVars
<1>3. CASE Recover \/ Generate \/ Declare
  <2>1. lines' = <<>> /\ visits' = visits /\ pc \in {"parse", "codegen"}
    BY <1>3, Zenon DEF Recover, Generate, Declare, NextConstruct
  <2>2. visits = <<>>
    BY <1>1, <2>1 DEF DriverInv
  <2> QED
    BY <2>1, <2>2, NothingShown
<1>4. CASE Accept
  <2>1. pc = "parse" /\ ret # 0 /\ UNCHANGED <<ast, ret>>
    BY <1>4, Zenon DEF Accept, parserVars
  <2>2. lines = <<>> /\ visits = <<>>
    BY <1>1, <2>1 DEF DriverInv
  <2>3. CASE Dump(ret)
    BY <1>1, <2>1, <2>2, <2>3, DumpBeginShows
  <2>4. CASE UNCHANGED dumperVars
    BY <2>2, <2>4, NothingShown DEF dumperVars
  <2> QED
    BY <1>4, <2>3, <2>4, Zenon DEF Accept
<1>5. CASE PrintTree
  <2>1. CASE DumpStep
    BY <1>1, <2>1, DumpStepShows
  <2>2. CASE UNCHANGED <<parserVars, dumperVars>>
    BY <2>2 DEF ShowInv, parserVars, dumperVars
  <2> QED
    BY <1>5, <2>1, <2>2, Zenon DEF PrintTree
<1>6. CASE UNCHANGED vars
  BY <1>6 DEF ShowInv, vars, parserVars, dumperVars
<1> QED
  BY <1>2, <1>3, <1>4, <1>5, <1>6, Zenon DEF Next, Stopped

LEMMA ShownParts ==
    ASSUME NEW j \in 1..Len(lines), DumperInv, TreeOfKids(ast), lines[j].node # 0
    PROVE  /\ PartsRead(j) = PartsIn(lines, j)
           /\ PartsOf(j) = PartsTo(ast, lines[j].node, j, Len(ast[lines[j].node].kids))
<1>1. PartsRead(j) = PartsIn(lines, j)
  BY DEF PartsRead, Below, PartsIn
<1>2. PICK x, kids, d : x = lines[j].node /\ kids = ast[x].kids /\ d = Len(kids)
  OBVIOUS
<1>3. x \in 1..Len(ast)
  <2>1. lines[j].node \in 0..Len(ast)
    BY DEF DumperInv
  <2> QED
    BY <1>2, <2>1
<1>4. DOMAIN kids = 1..d /\ \A k \in DOMAIN kids : k <= d
  BY <1>2, <1>3, LenProperties DEF TreeOfKids
<1>5. PartsOf(j) = PartsTo(ast, x, j, d)
  BY <1>2, <1>4 DEF PartsOf, PartsTo
<1> QED
  BY <1>1, <1>2, <1>5

\* When the dump of a tree has ended, for any tokens and any table of operators, its
\* indentation shows the tree: under the line of each node are those of its parts and no
\* others, two steps further in and in their order; the first line is that of the
\* construct, and Indent is back at 0 for the next one.
THEOREM DumpsHold == Spec => []DumpShowsTheTree
<1>1. Init => ShowInv
  BY NothingShown DEF Init, DumperInit
<1>2. FrontendInv /\ ShowInv /\ [Next]_vars => ShowInv'
  BY ShowStep
<1>3. FrontendInv /\ ShowInv => DumpShowsTheTree
  <2> SUFFICES ASSUME FrontendInv, ShowInv, lines # <<>>, visits = <<>>
               PROVE  /\ indent = 0 /\ lines[1].node = ret
                      /\ \A j \in DOMAIN lines : lines[j].node # 0 =>
                           Matching(lines, PartsOf(j), PartsRead(j), ast[lines[j].node].kids)
    BY Zenon DEF DumpShowsTheTree, Matching
  <2>1. DumperInv /\ TreeOfKids(ast) /\ lines[1].node = ret /\ AllShown(ast, lines, visits)
    BY TreeKids DEF FrontendInv, ShowInv
  <2>2. Len(visits) = 0
    OBVIOUS
  <2>3. indent = 0
    BY <2>1, <2>2 DEF DumperInv
  <2>4. DOMAIN lines = 1..Len(lines)
    BY <2>1, LenProperties DEF DumperInv
  <2>5. ASSUME NEW j \in 1..Len(lines), lines[j].node # 0
        PROVE  Matching(lines, PartsOf(j), PartsRead(j), ast[lines[j].node].kids)
    <3>1. \A i \in 1..Len(visits) : FALSE
      BY <2>2
    <3>2. Done(ast, lines, Len(visits), j)
      BY <2>1, <2>5, <3>1 DEF AllShown, Visited
    <3>3. Shows(ast, lines, j, Len(ast[lines[j].node].kids))
      BY <3>2 DEF Done
    <3> QED
      BY <2>1, <2>5, <3>3, ShownParts DEF Shows
  <2> QED
    BY <2>1, <2>3, <2>4, <2>5
<1> QED
  BY FrontendShapeHolds, <1>1, <1>2, <1>3, PTL DEF Spec
=============================================================================
