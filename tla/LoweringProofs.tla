---------------------------- MODULE LoweringProofs ----------------------------
(***************************************************************************)
(* The safety of the visitor that lowers a body, for any names, arguments, *)
(* numbers of operands and depth of the tree.                              *)
(*                                                                         *)
(* The first invariant says what a visit that waits holds: it is what lets *)
(* every step find its operands, its blocks and its names.  The others say *)
(* one thing each and build on it: where a null is until it reaches the    *)
(* top, what a scope gives back when it ends, where the location points,   *)
(* which blocks still wait for their terminator, and which values are      *)
(* ready in the current block and in those that wait.                      *)
(***************************************************************************)
EXTENDS Lowering, SequenceTheorems, WellFoundedInduction, TLAPS

\* A set of natural numbers that is not empty has a least element.
LEMMA LeastExists ==
    ASSUME NEW S, S \subseteq Nat, S # {}
    PROVE  \E n \in S : \A m \in S : n <= m
<1> DEFINE Less == OpToRel(<, Nat)
<1>1. IsWellFoundedOn(Less, Nat)
  BY NatLessThanWellFounded
<1> HIDE DEF Less
<1>2. PICK n \in S : \A m \in S : <<m, n>> \notin Less
  BY <1>1, WFMin
<1>3. \A m \in S : ~ (m < n)
  BY <1>2 DEF Less, OpToRel
<1> QED
  BY <1>3

\* One that is bounded has a greatest.
LEMMA GreatestExists ==
    ASSUME NEW S, S \subseteq Nat, S # {}, NEW b \in Nat, \A n \in S : n <= b
    PROVE  \E n \in S : \A m \in S : m <= n
<1> DEFINE D == {d \in Nat : \E n \in S : d = b - n}
<1>1. \A n \in S : b - n \in D
  <2> SUFFICES ASSUME NEW n \in S PROVE b - n \in D
    OBVIOUS
  <2>1. n \in Nat /\ n <= b
    OBVIOUS
  <2>2. b - n \in Nat
    BY <2>1
  <2> QED
    BY <2>2
<1>2. D \subseteq Nat /\ D # {}
  BY <1>1
<1> HIDE DEF D
<1>3. PICK d \in D : \A e \in D : d <= e
  BY <1>2, LeastExists
<1>4. PICK n \in S : d = b - n
  BY DEF D
<1>5. ASSUME NEW m \in S PROVE m <= n
  <2>1. b - n <= b - m
    BY <1>1, <1>3, <1>4
  <2>2. m \in Nat /\ n \in Nat
    OBVIOUS
  <2> QED
    BY <2>1, <2>2
<1> QED
  BY <1>5

-----------------------------------------------------------------------------
\* A sequence with an element more, and with one less.
AllButLast(s) == SubSeq(s, 1, Len(s) - 1)

LEMMA PushFacts ==
    ASSUME NEW S, NEW s \in Seq(S), NEW f \in S
    PROVE  /\ Append(s, f) \in Seq(S)
           /\ Len(Append(s, f)) = Len(s) + 1
           /\ Len(s) \in Nat
           /\ Append(s, f) # <<>>
           /\ \A i \in 1..Len(s) : Append(s, f)[i] = s[i]
           /\ Append(s, f)[Len(s) + 1] = f
           /\ AllButLast(Append(s, f)) = s
<1>1. /\ Append(s, f) \in Seq(S)
      /\ Len(Append(s, f)) = Len(s) + 1
      /\ Len(s) \in Nat
      /\ \A i \in 1..Len(s) : Append(s, f)[i] = s[i]
      /\ Append(s, f)[Len(s) + 1] = f
  BY AppendProperties, LenProperties
<1>2. Append(s, f) # <<>>
  BY <1>1, EmptySeq
<1>3. AllButLast(Append(s, f)) = s
  BY <1>1 DEF AllButLast
<1> QED
  BY <1>1, <1>2, <1>3

LEMMA PopFacts ==
    ASSUME NEW S, NEW s \in Seq(S), s # <<>>
    PROVE  /\ AllButLast(s) \in Seq(S)
           /\ Len(s) \in Nat \ {0}
           /\ Len(AllButLast(s)) = Len(s) - 1
           /\ \A i \in 1..Len(s) - 1 : AllButLast(s)[i] = s[i]
           /\ s[Len(s)] \in S
<1>1. Len(s) \in Nat \ {0}
  BY EmptySeq, LenProperties
<1>2. \A i \in 1..Len(s) : s[i] \in S
  BY ElementOfSeq
<1>3. AllButLast(s) = [i \in 1..Len(s) - 1 |-> s[i]]
  BY <1>1 DEF AllButLast
<1>4. AllButLast(s) \in [1..Len(s) - 1 -> S]
  BY <1>1, <1>2, <1>3
<1>5. AllButLast(s) \in Seq(S) /\ Len(AllButLast(s)) = Len(s) - 1
  BY <1>1, <1>4
<1> QED
  BY <1>1, <1>2, <1>3, <1>5

\* Sequences over a larger set, and those of one and of three elements.
LEMMA SeqMono == ASSUME NEW S, NEW T, S \subseteq T PROVE Seq(S) \subseteq Seq(T)
OBVIOUS

LEMMA Tuples ==
    ASSUME NEW S, NEW x \in S
    PROVE  /\ <<x>> \in Seq(S) /\ Len(<<x>>) = 1
           /\ \A y, z \in S : <<x, y, z>> \in Seq(S) /\ Len(<<x, y, z>>) = 3
           /\ \A T : S \subseteq T => Seq(S) \subseteq Seq(T)
<1>1. <<x>> \in Seq(S)
  OBVIOUS
<1>2. \A y, z \in S : <<x, y, z>> \in Seq(S)
  OBVIOUS
<1>3. \A T : S \subseteq T => Seq(S) \subseteq Seq(T)
  OBVIOUS
<1> QED
  BY <1>1, <1>2, <1>3

-----------------------------------------------------------------------------

Size == Len(cfg.terms)

\* A value is computed in one of b blocks, and there is one null.
ValueOK(v, b) == v \in Value /\ v.at \in 0..b /\ (~v.ok => v = Null)

\* What a visit holds at each of its steps.
Shape(f) ==
    /\ f.node = "assign" => f.step = "operand" /\ Len(f.names) = 1
    /\ f.node = "unary" => f.step = "operand"
    /\ f.node \in {"call", "binary"} => f.step = "operand" /\ f.want # 0
    /\ f.node = "if" => \/ f.step = "cond"
                        \/ f.step = "then" /\ Len(f.blocks) = 3
                        \/ f.step = "else" /\ Len(f.blocks) = 3 /\ f.vals # {}
    /\ f.node = "for" => /\ Len(f.names) = 1 /\ Len(f.own) = 1
                         /\ \/ f.step = "start" /\ f.old = <<>>
                            \/ /\ f.step \in {"body", "step", "end"}
                               /\ Len(f.blocks) = 1 /\ Len(f.old) = 1
    /\ f.node = "var" => /\ f.step \in {"init", "body"}
                         /\ Len(f.old) = Len(f.own) /\ Len(f.own) <= Len(f.names)
                         /\ f.step = "body" => Len(f.own) = Len(f.names)
    /\ f.node \notin {"for", "var"} => f.own = <<>> /\ f.old = <<>>
    /\ f.node = "for" \/ f.node = "var" => f.step \notin {"cond", "then", "else"}

FrameOK(f, a, b) ==
    /\ f \in Frame
    /\ f.own \in Seq(1..a)
    /\ f.old \in Seq(0..a)
    /\ f.blocks \in Seq(1..b)
    /\ \A v \in f.vals : ValueOK(v, b)
    /\ Null \in f.vals => f.node = "binary"
    /\ Shape(f)

Frames(s, a, b) == s \in Seq(Frame) /\ \A i \in 1..Len(s) : FrameOK(s[i], a, b)

\* A `var` that waits for an initialiser has a name to bind to it.
Waits(f)   == f.node = "var" /\ f.step = "init" => Len(f.own) < Len(f.names)
AllWait(s) == \A i \in 1..Len(s) : Waits(s[i])

Graph == [terms : Seq(Nat), edges : SUBSET (Nat \X Nat), uses : SUBSET (Nat \X Nat),
          phis : SUBSET [block : Nat, from : Nat]]
GraphOK(g) == LET D == 1..Len(g.terms) IN
    /\ g \in Graph
    /\ g.edges \subseteq D \X D
    /\ g.uses \subseteq D \X D
    /\ g.phis \subseteq [block : D, from : D]

ShapeInv ==
    /\ phase \in {"idle", "visit", "return", "bind"}
    /\ result \in {"none", "ok", "failed"}
    /\ nulls \in BOOLEAN /\ doubled \in BOOLEAN
    /\ args \in Seq(Var)
    /\ val \in Value /\ (phase = "return" => ValueOK(val, Size))
    /\ GraphOK(cfg) /\ cur \in 1..Size
    /\ allocas \in Nat /\ named \in [Var -> 0..allocas]
    /\ Frames(stack, allocas, Size)
    /\ nodes \in 0..MaxNodes /\ Len(stack) <= nodes
    /\ loc \in Location /\ line \in Line
    /\ phase = "idle" => stack = <<>>
    /\ phase # "bind" => AllWait(stack)
    /\ phase = "bind" => /\ stack # <<>> /\ AllWait(Rest)
                         /\ Top.node = "var" /\ Top.step = "init"

-----------------------------------------------------------------------------
\* Where a null is until it reaches the top.
NullInv ==
    /\ phase # "idle" => (nulls <=> \/ phase = "return" /\ ~val.ok
                                    \/ \E i \in DOMAIN stack : Null \in stack[i].vals)
    /\ phase # "idle" => result = "none"
    /\ FailureReachesTheTop

\* What a name stands for inside the visits of s.
Sees(s, ps, v) ==
    LET around == {i \in DOMAIN s : Bound(s[i], v) # 0}
    IN  IF around = {} THEN Position(ps, v)
        ELSE Bound(s[CHOOSE i \in around : \A j \in around : j <= i], v)

\* A scope keeps what its names stood for in front of it.
KeepsOld(f, s, ps) == \A k \in DOMAIN f.old :
    (\A j \in 1..k - 1 : f.names[j] # f.names[k]) => f.old[k] = Sees(s, ps, f.names[k])
AllKeepOld(s, ps) == \A i \in DOMAIN s : KeepsOld(s[i], SubSeq(s, 1, i - 1), ps)

ScopeInv == phase # "idle" /\ ~nulls /\ ~doubled =>
    /\ \A v \in Var : named[v] = Sees(stack, args, v)
    /\ AllKeepOld(stack, args)

\* A value that was generated has left the location at the visit that gets it.
PlaceInv ==
    /\ phase # "idle" => loc.of = "this"
    /\ phase = "return" /\ val.ok => loc.depth = Depth
    /\ InstructionsAreWhereTheyBelong

\* The blocks of a visit that nothing has been put into yet.
Pending(f) == IF f.node # "if" THEN {}
              ELSE IF f.step = "then" THEN {f.blocks[2], f.blocks[3]}
              ELSE IF f.step = "else" THEN {f.blocks[3]} ELSE {}
PendingIn(s) == UNION {Pending(s[i]) : i \in DOMAIN s}
Distinct(f)  == f.node = "if" /\ f.step = "then" => f.blocks[2] # f.blocks[3]
Apart(s) == \A i \in DOMAIN s :
    Distinct(s[i]) /\ \A j \in DOMAIN s : i # j => Pending(s[i]) \cap Pending(s[j]) = {}

\* Every block but the current and the pending ones has its terminator.
Terminated(s, g, c) ==
    /\ Apart(s)
    /\ c \notin PendingIn(s)
    /\ \A b \in 1..Len(g.terms) : g.terms[b] = IF b = c \/ b \in PendingIn(s) THEN 0 ELSE 1
BlockInv ==
    /\ phase # "idle" /\ ~nulls => Terminated(stack, cfg, cur)
    /\ OneTerminatorEach

-----------------------------------------------------------------------------
\* The stack: a visit more, a visit less, and the innermost one replaced.
LEMMA FramesGrow ==
    ASSUME NEW a \in Nat, NEW b \in Nat, NEW a2 \in Nat, NEW b2 \in Nat,
           a <= a2, b <= b2
    PROVE  /\ \A v : ValueOK(v, b) => ValueOK(v, b2)
           /\ \A f : FrameOK(f, a, b) => FrameOK(f, a2, b2)
           /\ \A s : Frames(s, a, b) => Frames(s, a2, b2)
<1>1. /\ 1..a \subseteq 1..a2 /\ 0..a \subseteq 0..a2
      /\ 1..b \subseteq 1..b2 /\ 0..b \subseteq 0..b2
  OBVIOUS
<1>2. /\ Seq(1..a) \subseteq Seq(1..a2) /\ Seq(0..a) \subseteq Seq(0..a2)
      /\ Seq(1..b) \subseteq Seq(1..b2)
  BY <1>1
<1>3. \A v : ValueOK(v, b) => ValueOK(v, b2)
  BY <1>1 DEF ValueOK
<1>4. \A f : FrameOK(f, a, b) => FrameOK(f, a2, b2)
  BY <1>2, <1>3, Zenon DEF FrameOK
<1> QED
  BY <1>3, <1>4 DEF Frames

LEMMA FramesPush ==
    ASSUME NEW a, NEW b, NEW s, Frames(s, a, b), AllWait(s), NEW f, FrameOK(f, a, b)
    PROVE  /\ Frames(Append(s, f), a, b)
           /\ Waits(f) => AllWait(Append(s, f))
<1>1. s \in Seq(Frame) /\ f \in Frame
  BY DEF Frames, FrameOK
<1>2. /\ Append(s, f) \in Seq(Frame)
      /\ Len(Append(s, f)) = Len(s) + 1
      /\ Len(s) \in Nat
      /\ \A i \in 1..Len(s) : Append(s, f)[i] = s[i]
      /\ Append(s, f)[Len(s) + 1] = f
  BY <1>1, PushFacts
<1>3. \A i \in 1..Len(s) + 1 : i \in 1..Len(s) \/ i = Len(s) + 1
  BY <1>2
<1>4. \A i \in 1..Len(s) + 1 : FrameOK(Append(s, f)[i], a, b)
  BY <1>2, <1>3 DEF Frames
<1>5. Waits(f) => \A i \in 1..Len(s) + 1 : Waits(Append(s, f)[i])
  BY <1>2, <1>3 DEF AllWait
<1> QED
  BY <1>2, <1>4, <1>5 DEF Frames, AllWait

LEMMA FramesPop ==
    ASSUME NEW a, NEW b, NEW s, Frames(s, a, b), s # <<>>
    PROVE  /\ Frames(AllButLast(s), a, b)
           /\ AllWait(s) => AllWait(AllButLast(s)) /\ Waits(s[Len(s)])
           /\ FrameOK(s[Len(s)], a, b)
           /\ Len(s) \in Nat \ {0}
           /\ Len(AllButLast(s)) = Len(s) - 1
<1>1. s \in Seq(Frame)
  BY DEF Frames
<1>2. /\ AllButLast(s) \in Seq(Frame)
      /\ Len(s) \in Nat \ {0}
      /\ Len(AllButLast(s)) = Len(s) - 1
      /\ \A i \in 1..Len(s) - 1 : AllButLast(s)[i] = s[i]
  BY <1>1, PopFacts
<1>3. Len(s) \in 1..Len(s) /\ \A i \in 1..Len(s) - 1 : i \in 1..Len(s)
  BY <1>2
<1>4. FrameOK(s[Len(s)], a, b) /\ (AllWait(s) => Waits(s[Len(s)]))
  BY <1>3 DEF Frames, AllWait
<1>5. \A i \in 1..Len(s) - 1 : FrameOK(AllButLast(s)[i], a, b) /\ (AllWait(s) => Waits(AllButLast(s)[i]))
  BY <1>2, <1>3 DEF Frames, AllWait
<1> QED
  BY <1>2, <1>4, <1>5 DEF Frames, AllWait

-----------------------------------------------------------------------------
\* The graph: what the operations on it leave alone.
LEMMA WithBlocksFacts ==
    ASSUME NEW g, GraphOK(g), NEW n \in Nat
    PROVE  /\ GraphOK(WithBlocks(g, n))
           /\ Len(WithBlocks(g, n).terms) = Len(g.terms) + n
           /\ \A b \in 1..Len(g.terms) : WithBlocks(g, n).terms[b] = g.terms[b]
           /\ \A b \in Len(g.terms) + 1..Len(g.terms) + n : WithBlocks(g, n).terms[b] = 0
           /\ WithBlocks(g, n).edges = g.edges
           /\ WithBlocks(g, n).uses = g.uses
           /\ WithBlocks(g, n).phis = g.phis
<1> DEFINE z == [i \in 1..n |-> 0]
           t == g.terms \o z
<1>1. g \in Graph /\ g.terms \in Seq(Nat) /\ Len(g.terms) \in Nat
  BY LenProperties DEF GraphOK, Graph
<1>2. z \in Seq(Nat) /\ Len(z) = n
  OBVIOUS
<1>3. /\ t \in Seq(Nat) /\ Len(t) = Len(g.terms) + n
      /\ \A b \in 1..Len(g.terms) : t[b] = g.terms[b]
      /\ \A b \in Len(g.terms) + 1..Len(g.terms) + n : t[b] = 0
  <2> HIDE DEF z
  <2>1. /\ t \in Seq(Nat) /\ Len(t) = Len(g.terms) + n
        /\ \A b \in 1..Len(g.terms) + n :
              t[b] = IF b <= Len(g.terms) THEN g.terms[b] ELSE z[b - Len(g.terms)]
    BY <1>1, <1>2, ConcatProperties
  <2>2. \A b \in Len(g.terms) + 1..Len(g.terms) + n : b - Len(g.terms) \in 1..n
    BY <1>1
  <2>3. \A i \in 1..n : z[i] = 0
    BY DEF z
  <2> HIDE DEF t
  <2>4. \A b \in 1..Len(g.terms) : b \in 1..Len(g.terms) + n /\ b <= Len(g.terms)
    BY <1>1
  <2>5. \A b \in Len(g.terms) + 1..Len(g.terms) + n :
          b \in 1..Len(g.terms) + n /\ ~(b <= Len(g.terms))
    BY <1>1
  <2> QED
    BY <2>1, <2>2, <2>3, <2>4, <2>5
<1> HIDE DEF t
<1>4. WithBlocks(g, n) = [g EXCEPT !.terms = t]
  BY DEF WithBlocks, t
<1>5. /\ WithBlocks(g, n).terms = t
      /\ WithBlocks(g, n).edges = g.edges
      /\ WithBlocks(g, n).uses = g.uses
      /\ WithBlocks(g, n).phis = g.phis
      /\ WithBlocks(g, n) \in Graph
  BY <1>1, <1>3, <1>4 DEF Graph
<1>6. 1..Len(g.terms) \subseteq 1..Len(t)
  BY <1>1, <1>3
<1>7. GraphOK(WithBlocks(g, n))
  BY <1>5, <1>6 DEF GraphOK
<1> QED
  BY <1>3, <1>5, <1>7

LEMMA WithBranchFacts ==
    ASSUME NEW g, GraphOK(g), NEW b \in 1..Len(g.terms), NEW T \in SUBSET (1..Len(g.terms))
    PROVE  /\ GraphOK(WithBranch(g, b, T))
           /\ Len(WithBranch(g, b, T).terms) = Len(g.terms)
           /\ \A c \in 1..Len(g.terms) :
                WithBranch(g, b, T).terms[c] = IF c = b THEN g.terms[c] + 1 ELSE g.terms[c]
           /\ WithBranch(g, b, T).edges = g.edges \cup {<<b, t>> : t \in T}
           /\ WithBranch(g, b, T).uses = g.uses
           /\ WithBranch(g, b, T).phis = g.phis
<1> DEFINE s == [g.terms EXCEPT ![b] = @ + 1]
           e == g.edges \cup {<<b, t>> : t \in T}
<1>1. g \in Graph /\ g.terms \in Seq(Nat) /\ Len(g.terms) \in Nat /\ DOMAIN g.terms = 1..Len(g.terms)
  BY LenProperties DEF GraphOK, Graph
<1>2. /\ s \in Seq(Nat) /\ Len(s) = Len(g.terms)
      /\ \A c \in 1..Len(g.terms) : s[c] = IF c = b THEN g.terms[c] + 1 ELSE g.terms[c]
  <2>1. \A c \in 1..Len(g.terms) : s[c] = IF c = b THEN g.terms[c] + 1 ELSE g.terms[c]
    BY <1>1
  <2>2. s \in Seq(Nat) /\ Len(s) = Len(g.terms)
    BY <1>1
  <2> QED
    BY <2>1, <2>2
<1>3. e \subseteq (1..Len(g.terms)) \X (1..Len(g.terms)) /\ e \in SUBSET (Nat \X Nat)
  <2>1. 1..Len(g.terms) \subseteq Nat
    BY <1>1
  <2>2. e \subseteq (1..Len(g.terms)) \X (1..Len(g.terms))
    BY DEF GraphOK
  <2> QED
    BY <2>1, <2>2
<1> HIDE DEF s, e
<1>4. WithBranch(g, b, T) = [g EXCEPT !.terms = s, !.edges = e]
  BY <1>1 DEF WithBranch, s, e, Graph
<1>5. /\ WithBranch(g, b, T).terms = s
      /\ WithBranch(g, b, T).edges = e
      /\ WithBranch(g, b, T).uses = g.uses
      /\ WithBranch(g, b, T).phis = g.phis
      /\ WithBranch(g, b, T) \in Graph
  BY <1>1, <1>2, <1>3, <1>4 DEF Graph
<1>6. GraphOK(WithBranch(g, b, T))
  BY <1>2, <1>3, <1>5 DEF GraphOK
<1> QED
  BY <1>2, <1>5, <1>6 DEF e

LEMMA WithUsesFacts ==
    ASSUME NEW g, GraphOK(g), NEW b \in 1..Len(g.terms), NEW V,
           \A v \in V : ValueOK(v, Len(g.terms))
    PROVE  /\ GraphOK(WithUses(g, b, V))
           /\ WithUses(g, b, V).terms = g.terms
           /\ WithUses(g, b, V).edges = g.edges
           /\ WithUses(g, b, V).phis = g.phis
           /\ WithUses(g, b, V).uses = g.uses \cup ({v.at : v \in V} \ {0}) \X {b}
<1> DEFINE u == g.uses \cup ({v.at : v \in V} \ {0}) \X {b}
<1>1. g \in Graph /\ g.terms \in Seq(Nat) /\ Len(g.terms) \in Nat
  BY LenProperties DEF GraphOK, Graph
<1>2. {v.at : v \in V} \ {0} \subseteq 1..Len(g.terms)
  BY <1>1 DEF ValueOK
<1>3. u \subseteq (1..Len(g.terms)) \X (1..Len(g.terms)) /\ u \in SUBSET (Nat \X Nat)
  <2>1. 1..Len(g.terms) \subseteq Nat
    BY <1>1
  <2>2. u \subseteq (1..Len(g.terms)) \X (1..Len(g.terms))
    BY <1>2 DEF GraphOK
  <2> QED
    BY <2>1, <2>2
<1> HIDE DEF u
<1>4. WithUses(g, b, V) = [g EXCEPT !.uses = u]
  BY <1>1 DEF WithUses, u, Graph
<1>5. /\ WithUses(g, b, V).terms = g.terms
      /\ WithUses(g, b, V).edges = g.edges
      /\ WithUses(g, b, V).uses = u
      /\ WithUses(g, b, V).phis = g.phis
      /\ WithUses(g, b, V) \in Graph
  BY <1>1, <1>3, <1>4 DEF Graph
<1>6. GraphOK(WithUses(g, b, V))
  BY <1>3, <1>5 DEF GraphOK
<1> QED
  BY <1>5, <1>6, Zenon DEF u

LEMMA WithPhiFacts ==
    ASSUME NEW g, GraphOK(g), NEW m \in 1..Len(g.terms), NEW I,
           \A p \in I : /\ p = <<p[1], p[2]>> /\ p[1] \in 1..Len(g.terms)
                       /\ ValueOK(p[2], Len(g.terms))
    PROVE  /\ GraphOK(WithPhi(g, m, I))
           /\ WithPhi(g, m, I).terms = g.terms
           /\ WithPhi(g, m, I).edges = g.edges
           /\ WithPhi(g, m, I).phis = g.phis \cup {[block |-> m, from |-> p[1]] : p \in I}
           /\ WithPhi(g, m, I).uses =
                g.uses \cup {<<p[2].at, p[1]>> : p \in {q \in I : q[2].at # 0}}
<1> DEFINE h == g.phis \cup {[block |-> m, from |-> p[1]] : p \in I}
           u == g.uses \cup {<<p[2].at, p[1]>> : p \in {q \in I : q[2].at # 0}}
<1>1. g \in Graph /\ g.terms \in Seq(Nat) /\ Len(g.terms) \in Nat /\ 1..Len(g.terms) \subseteq Nat
  BY LenProperties DEF GraphOK, Graph
<1>2. u \subseteq (1..Len(g.terms)) \X (1..Len(g.terms)) /\ u \in SUBSET (Nat \X Nat)
  <2>1. \A p \in I : p[2].at # 0 => p[2].at \in 1..Len(g.terms)
    BY <1>1 DEF ValueOK
  <2>2. u \subseteq (1..Len(g.terms)) \X (1..Len(g.terms))
    BY <2>1 DEF GraphOK
  <2> QED
    BY <1>1, <2>2
<1>3. h \subseteq [block : 1..Len(g.terms), from : 1..Len(g.terms)]
  BY DEF GraphOK
<1>4. h \in SUBSET [block : Nat, from : Nat]
  BY <1>1, <1>3
<1> HIDE DEF u, h
<1>5. WithPhi(g, m, I) = [g EXCEPT !.phis = h, !.uses = u]
  BY <1>1 DEF WithPhi, u, h, Graph
<1>6. /\ WithPhi(g, m, I).terms = g.terms
      /\ WithPhi(g, m, I).edges = g.edges
      /\ WithPhi(g, m, I).uses = u
      /\ WithPhi(g, m, I).phis = h
      /\ WithPhi(g, m, I) \in Graph
  BY <1>1, <1>2, <1>4, <1>5 DEF Graph
<1>7. GraphOK(WithPhi(g, m, I))
  BY <1>2, <1>3, <1>6 DEF GraphOK
<1> QED
  BY <1>6, <1>7, Zenon DEF h, u

-----------------------------------------------------------------------------
\* What every step may rely on.
LEMMA StackFacts ==
    ASSUME ShapeInv
    PROVE  /\ stack \in Seq(Frame) /\ Len(stack) \in Nat /\ Depth = Len(stack)
           /\ DOMAIN stack = 1..Len(stack)
           /\ Len(stack) <= nodes /\ nodes \in Nat /\ nodes <= MaxNodes /\ MaxNodes \in Nat
           /\ Size \in Nat /\ allocas \in Nat
           /\ \A i \in 1..Len(stack) : FrameOK(stack[i], allocas, Size)
<1>1. stack \in Seq(Frame) /\ cfg.terms \in Seq(Nat) /\ allocas \in Nat
      /\ \A i \in 1..Len(stack) : FrameOK(stack[i], allocas, Size)
  BY DEF ShapeInv, Frames, GraphOK, Graph
<1>2. nodes \in 0..MaxNodes /\ Len(stack) <= nodes /\ MaxNodes \in Nat
  BY LoweringAssumption DEF ShapeInv
<1>3. Len(stack) \in Nat /\ DOMAIN stack = 1..Len(stack) /\ Size \in Nat
  BY <1>1, LenProperties DEF Size
<1> QED
  BY <1>1, <1>2, <1>3 DEF Depth

LEMMA TopFacts ==
    ASSUME ShapeInv, stack # <<>>
    PROVE  /\ Len(stack) \in Nat \ {0}
           /\ FrameOK(Top, allocas, Size)
           /\ phase # "bind" => Waits(Top)
           /\ Frames(Rest, allocas, Size)
           /\ AllWait(Rest)
           /\ Rest \in Seq(Frame)
           /\ Len(Rest) = Len(stack) - 1
<1>1. Frames(stack, allocas, Size)
  BY DEF ShapeInv
<1>2. /\ Frames(Rest, allocas, Size)
      /\ AllWait(stack) => AllWait(Rest) /\ Waits(Top)
      /\ FrameOK(Top, allocas, Size)
      /\ Len(stack) \in Nat \ {0}
      /\ Len(Rest) = Len(stack) - 1
  BY <1>1, FramesPop DEF AllButLast, Rest, Top
<1>3. AllWait(Rest)
  BY <1>2 DEF ShapeInv
<1> QED
  BY <1>2, <1>3 DEF ShapeInv, Frames

LEMMA LocationFacts ==
    ASSUME ShapeInv
    PROVE  /\ \A d \in 0..MaxNodes + 1 : AtNode(d) \in Location
           /\ \A l \in Location : \A d \in 0..MaxNodes + 1 : Within(l, d) \in Location
           /\ \A n : OnEntry(n) \in Location
           /\ Nowhere \in Location
           /\ NoLine \in Line
<1>1. /\ Len(stack) \in Nat /\ Depth = Len(stack) /\ Depth + 1 \in 0..MaxNodes + 1
      /\ MaxNodes \in Nat /\ loc \in Location
  <2>1. /\ Len(stack) \in Nat /\ Depth = Len(stack) /\ Len(stack) <= nodes /\ nodes \in Nat
        /\ nodes <= MaxNodes /\ MaxNodes \in Nat
    BY StackFacts
  <2> QED
    BY <2>1 DEF ShapeInv
<1>2. \A d \in 0..MaxNodes + 1 : AtNode(d) \in Location
  BY DEF AtNode, Location
<1>3. \A l \in Location : \A d \in 0..MaxNodes + 1 : Within(l, d) \in Location
  BY DEF Within, Location
<1>4. \A n : OnEntry(n) \in Location
  BY <1>1, <1>2 DEF OnEntry
<1> QED
  BY <1>1, <1>2, <1>3, <1>4 DEF Nowhere, NoLine, Location, Line

LEMMA LineFacts ==
    ASSUME NEW n \in Node \cup {"argument", "default", "variable", "function"},
           NEW l \in Location, NEW d \in Nat, Creates(n, l, d)
    PROVE  line' \in Line
<1>1. l.of \in {"nothing", "earlier", "this"}
  BY DEF Location
<1>2. line'.of = n /\ line'.where \in {"nothing", "earlier", "outside", "inside", "own"}
      /\ line' = [of |-> line'.of, where |-> line'.where]
  BY <1>1 DEF Creates
<1> QED
  BY <1>2 DEF Line

\* What a step has to show for the invariant, in terms of what it leaves behind.
LEMMA Keeps ==
    ASSUME ShapeInv, NEW s, stack' = s, NEW g, cfg' = g, NEW a \in Nat, allocas' = a,
           GraphOK(g), NEW c \in 1..Len(g.terms), cur' = c,
           Frames(s, a, Len(g.terms)), NEW n \in 0..MaxNodes, nodes' = n, Len(s) <= n,
           NEW p \in {"visit", "return", "bind"}, phase' = p,
           p # "bind" => AllWait(s),
           p = "bind" => /\ s # <<>> /\ AllWait(AllButLast(s))
                         /\ s[Len(s)].node = "var" /\ s[Len(s)].step = "init",
           NEW v \in Value, val' = v, p = "return" => ValueOK(v, Len(g.terms)),
           nulls' \in BOOLEAN, doubled' \in BOOLEAN, UNCHANGED <<args, result>>,
           NEW m \in [Var -> 0..a], named' = m, loc' \in Location, line' \in Line
    PROVE  ShapeInv'
<1>1. p \in {"idle", "visit", "return", "bind"} /\ p # "idle"
  OBVIOUS
<1>2. args' \in Seq(Var) /\ result' \in {"none", "ok", "failed"}
  BY DEF ShapeInv
<1>3. (Top' = s[Len(s)]) /\ (Rest' = AllButLast(s)) /\ (Size' = Len(g.terms))
  BY DEF Top, Rest, AllButLast, Size
<1> QED
  BY <1>1, <1>2, <1>3 DEF ShapeInv

\* A visit begins.
LEMMA EnterKeeps ==
    ASSUME ShapeInv, NEW f, Enter(f), NEW a \in Nat, allocas' = a, allocas <= a,
           FrameOK(f, a, Size), Waits(f), f.node = "var" => f.step = "init",
           UNCHANGED named, NoCode
    PROVE  ShapeInv'
<1>1. /\ phase = "visit" /\ nodes < MaxNodes /\ nodes' = nodes + 1
      /\ stack' = Append(stack, f)
      /\ loc' = OnEntry(f.node) /\ line' = NoLine
      /\ UNCHANGED <<val, nulls, args, result, doubled, cur, cfg>>
  BY DEF Enter, NoCode
<1>2. PICK p \in {"visit", "bind"} : phase' = p /\ (p = "bind" => f.node = "var")
  BY DEF Enter
<1>3. /\ Len(stack) \in Nat /\ Len(stack) <= nodes /\ nodes \in Nat
      /\ nodes + 1 \in 0..MaxNodes /\ Size \in Nat /\ allocas \in Nat
  BY <1>1, StackFacts
<1>4. Frames(stack, a, Size) /\ AllWait(stack) /\ stack \in Seq(Frame) /\ f \in Frame
  <2>1. Size <= Size
    BY <1>3
  <2> QED
    BY <1>1, <1>3, <2>1, FramesGrow DEF ShapeInv, Frames, FrameOK
<1>5. /\ Frames(Append(stack, f), a, Size) /\ AllWait(Append(stack, f))
      /\ Len(Append(stack, f)) = Len(stack) + 1
      /\ Append(stack, f) # <<>>
      /\ Append(stack, f)[Len(stack) + 1] = f
      /\ AllButLast(Append(stack, f)) = stack
  BY <1>4, FramesPush, PushFacts
<1>6. Len(Append(stack, f)) <= nodes + 1
  BY <1>3, <1>5
<1>7. named \in [Var -> 0..a]
  <2>1. 0..allocas \subseteq 0..a
    BY <1>3
  <2> QED
    BY <2>1 DEF ShapeInv
<1>8. /\ GraphOK(cfg) /\ cur \in 1..Size /\ val \in Value /\ nulls \in BOOLEAN
      /\ doubled \in BOOLEAN
  BY DEF ShapeInv
<1>9. loc' \in Location /\ line' \in Line
  BY <1>1, LocationFacts
<1>10. p \in {"visit", "return", "bind"} /\ p # "return"
  BY <1>2
<1> QED
  BY <1>1, <1>2, <1>3, <1>4, <1>5, <1>6, <1>7, <1>8, <1>9, <1>10, Keeps DEF Size

\* A visit is over, with or without having waited.
LEMMA ReturnKeeps ==
    ASSUME ShapeInv, NEW s, stack' = s, s = stack \/ (stack # <<>> /\ s = Rest),
           phase # "bind",
           NEW v, Return(v), NEW g, cfg' = g, GraphOK(g), Size <= Len(g.terms),
           ValueOK(v, Len(g.terms)), NEW c \in 1..Len(g.terms), cur' = c,
           UNCHANGED <<allocas, args, result, nodes>>, doubled' \in BOOLEAN,
           named' \in [Var -> 0..allocas], loc' \in Location, line' \in Line
    PROVE  ShapeInv'
<1>1. /\ phase' = "return" /\ val' = v /\ v \in Value
      /\ nulls' \in BOOLEAN
  BY DEF Return, ValueOK, ShapeInv
<1>2. /\ Len(stack) \in Nat /\ Len(stack) <= nodes /\ nodes \in 0..MaxNodes
      /\ Size \in Nat /\ allocas \in Nat /\ Len(g.terms) \in Nat
  <2>1. g.terms \in Seq(Nat)
    BY DEF GraphOK, Graph
  <2> QED
    BY <2>1, StackFacts, LenProperties DEF ShapeInv
<1>3. Frames(s, allocas, Size) /\ AllWait(s) /\ Len(s) <= nodes
  <2>1. CASE s = stack
    BY <1>2, <2>1 DEF ShapeInv
  <2>2. CASE stack # <<>> /\ s = Rest
    <3>1. /\ Frames(s, allocas, Size) /\ AllWait(s)
          /\ Len(s) = Len(stack) - 1
      BY <2>2, TopFacts
    <3> QED
      BY <1>2, <3>1
  <2> QED
    BY <2>1, <2>2
<1>4. Frames(s, allocas, Len(g.terms))
  <2>1. allocas <= allocas
    BY <1>2
  <2> QED
    BY <1>2, <1>3, <2>1, FramesGrow
<1>5. "return" \in {"visit", "return", "bind"} /\ "return" # "bind"
  OBVIOUS
<1> QED
  BY <1>1, <1>2, <1>3, <1>4, <1>5, Keeps

\* A visit goes on to its next part.
LEMMA ContinueKeeps ==
    ASSUME ShapeInv, stack # <<>>,
           NEW f, Continue(f), NEW g, cfg' = g, GraphOK(g), Size <= Len(g.terms),
           FrameOK(f, allocas, Len(g.terms)), Waits(f),
           NEW c \in 1..Len(g.terms), cur' = c,
           UNCHANGED <<allocas, args, result, nodes, doubled>>,
           named' \in [Var -> 0..allocas], loc' \in Location, line' \in Line
    PROVE  ShapeInv'
<1>1. /\ phase' = "visit" /\ val' = val /\ nulls' = nulls /\ stack' = Append(Rest, f)
      /\ val \in Value /\ nulls \in BOOLEAN /\ doubled \in BOOLEAN
  BY DEF Continue, ShapeInv
<1>2. /\ Len(stack) \in Nat \ {0} /\ Len(stack) <= nodes /\ nodes \in 0..MaxNodes
      /\ Size \in Nat /\ allocas \in Nat /\ Len(g.terms) \in Nat
      /\ Len(Rest) = Len(stack) - 1
  <2>1. g.terms \in Seq(Nat)
    BY DEF GraphOK, Graph
  <2> QED
    BY <2>1, StackFacts, TopFacts, LenProperties DEF ShapeInv
<1>3. Frames(Rest, allocas, Len(g.terms)) /\ AllWait(Rest) /\ Rest \in Seq(Frame) /\ f \in Frame
  <2>1. allocas <= allocas
    BY <1>2
  <2> QED
    BY <1>2, <2>1, TopFacts, FramesGrow DEF FrameOK
<1>4. /\ Frames(Append(Rest, f), allocas, Len(g.terms)) /\ AllWait(Append(Rest, f))
      /\ Len(Append(Rest, f)) = Len(Rest) + 1
  BY <1>3, FramesPush, PushFacts
<1>5. Len(Append(Rest, f)) <= nodes
  BY <1>2, <1>4
<1>6. "visit" \in {"visit", "return", "bind"} /\ "visit" # "bind" /\ "visit" # "return"
  OBVIOUS
<1> QED
  BY <1>1, <1>2, <1>4, <1>5, <1>6, Keeps

-----------------------------------------------------------------------------
\* What the new visits hold.
LEMMA NewFrameFacts ==
    ASSUME NEW n \in Node, NEW t \in Step
    PROVE  /\ NewFrame(n, t) \in Frame
           /\ NewFrame(n, t).node = n /\ NewFrame(n, t).step = t
           /\ NewFrame(n, t).names = <<>> /\ NewFrame(n, t).own = <<>>
           /\ NewFrame(n, t).old = <<>> /\ NewFrame(n, t).blocks = <<>>
           /\ NewFrame(n, t).vals = {} /\ NewFrame(n, t).want = 0
BY DEF NewFrame, Frame

LEMMA VisitNumberShape == ASSUME ShapeInv, VisitNumber PROVE ShapeInv'
<1>1. /\ phase = "visit" /\ Return(Const) /\ loc' = Within(OnEntry("number"), Depth)
      /\ line' = NoLine
      /\ UNCHANGED <<stack, named, allocas, cur, cfg, args, result, nodes, doubled>>
  BY DEF VisitNumber, SameCode, SameBody, NoCode
<1>2. /\ Size \in Nat /\ Size <= Size /\ Depth \in 0..MaxNodes + 1
  BY StackFacts
<1>3. loc' \in Location /\ line' \in Line
  BY <1>1, <1>2, LocationFacts
<1>4. ValueOK(Const, Size)
  BY <1>2 DEF ValueOK, Const, Value
<1>5. /\ GraphOK(cfg) /\ cur \in 1..Size /\ doubled \in BOOLEAN
      /\ named \in [Var -> 0..allocas]
  BY DEF ShapeInv
<1> QED
  BY <1>1, <1>2, <1>3, <1>4, <1>5, ReturnKeeps DEF Size

LEMMA VisitVariableShape ==
    ASSUME ShapeInv, NEW x \in Var, VisitVariable(x)
    PROVE  ShapeInv'
<1>1. /\ phase = "visit"
      /\ UNCHANGED <<stack, named, allocas, cur, cfg, args, result, nodes, doubled>>
  BY DEF VisitVariable, SameNames, SameBody, NoCode
<1>2. /\ Size \in Nat /\ Size <= Size /\ Depth \in 0..MaxNodes + 1 /\ Depth + 1 \in Nat
  BY StackFacts
<1>3. /\ GraphOK(cfg) /\ cur \in 1..Size /\ doubled \in BOOLEAN
      /\ named \in [Var -> 0..allocas] /\ loc \in Location
  BY DEF ShapeInv
<1>4. CASE Return(Null) /\ UNCHANGED loc /\ NoCode
  <2>1. ValueOK(Null, Size)
    BY <1>2 DEF ValueOK, Null, Value
  <2>2. loc' \in Location /\ line' \in Line
    BY <1>3, <1>4, LocationFacts DEF NoCode
  <2> QED
    BY <1>1, <1>2, <1>3, <1>4, <2>1, <2>2, ReturnKeeps DEF Size
<1>5. CASE /\ Return(In(cur))
           /\ Creates("variable", OnEntry("variable"), Depth + 1)
           /\ loc' = Within(OnEntry("variable"), Depth)
  <2>1. ValueOK(In(cur), Size)
    BY <1>2, <1>3 DEF ValueOK, In, Value
  <2>2. loc' \in Location /\ OnEntry("variable") \in Location
    BY <1>2, <1>5, LocationFacts
  <2>3. line' \in Line
    BY <1>2, <1>5, <2>2, LineFacts
  <2> QED
    BY <1>1, <1>2, <1>3, <1>5, <2>1, <2>2, <2>3, ReturnKeeps DEF Size
<1> QED
  BY <1>4, <1>5 DEF VisitVariable

LEMMA VisitCallShape ==
    ASSUME ShapeInv, NEW k \in Operands, VisitCall(k)
    PROVE  ShapeInv'
<1>1. /\ Size \in Nat /\ Size <= Size /\ Depth \in 0..MaxNodes + 1 /\ Depth + 1 \in Nat
      /\ allocas \in Nat /\ allocas <= allocas
  BY StackFacts
<1>2. /\ GraphOK(cfg) /\ cur \in 1..Size /\ doubled \in BOOLEAN
      /\ named \in [Var -> 0..allocas] /\ loc \in Location
  BY DEF ShapeInv
<1>3. CASE /\ phase = "visit"
           /\ \/ Return(Null) /\ NoCode
              \/ /\ k = 0
                 /\ Return(In(cur))
                 /\ Creates("call", OnEntry("call"), Depth + 1)
                 /\ UNCHANGED <<cur, cfg>>
           /\ loc' = Within(OnEntry("call"), Depth)
           /\ UNCHANGED stack
           /\ SameNames
           /\ SameBody
  <2>1. UNCHANGED <<stack, named, allocas, cur, cfg, args, result, nodes, doubled>>
    BY <1>3 DEF SameNames, SameBody, NoCode
  <2>2. OnEntry("call") \in Location /\ loc' \in Location
    BY <1>1, <1>3, LocationFacts
  <2>3. PICK v : Return(v) /\ v \in {Null, In(cur)}
    BY <1>3
  <2>4. ValueOK(v, Size)
    <3>1. ValueOK(Null, Size)
      BY <1>1 DEF ValueOK, Null, Value
    <3>2. ValueOK(In(cur), Size)
      BY <1>1, <1>2 DEF ValueOK, In, Value
    <3> QED
      BY <2>3, <3>1, <3>2
  <2>5. line' \in Line
    <3>1. CASE NoCode
      BY <3>1, LocationFacts DEF NoCode
    <3>2. CASE Creates("call", OnEntry("call"), Depth + 1)
      BY <1>1, <2>2, <3>2, LineFacts DEF Node
    <3> QED
      BY <1>3, <3>1, <3>2
  <2>6. phase # "bind"
    BY <1>3
  <2> QED
    BY <1>1, <1>2, <2>1, <2>2, <2>3, <2>4, <2>5, <2>6, ReturnKeeps DEF Size
<1>4. CASE k > 0 /\ Enter([NewFrame("call", "operand") EXCEPT !.want = k]) /\ SameCode
  <2> DEFINE f == [NewFrame("call", "operand") EXCEPT !.want = k]
  <2>1. k \in Nat
    BY LoweringAssumption
  <2>2. /\ f \in Frame /\ f.node = "call" /\ f.step = "operand" /\ f.own = <<>>
        /\ f.old = <<>> /\ f.blocks = <<>> /\ f.vals = {} /\ f.want # 0
    <3>1. "call" \in Node /\ "operand" \in Step
      BY DEF Node, Step
    <3>2. NewFrame("call", "operand") \in Frame
      BY <3>1, NewFrameFacts
    <3> QED
      BY <1>4, <2>1, <3>1, <3>2, NewFrameFacts DEF Frame
  <2>3. Enter(f) /\ UNCHANGED <<named, allocas>> /\ NoCode
    BY <1>4 DEF SameCode
  <2> HIDE DEF f
  <2>4. FrameOK(f, allocas, Size) /\ Waits(f)
    BY <2>2 DEF FrameOK, Shape, Waits
  <2> QED
    BY <1>1, <2>2, <2>3, <2>4, EnterKeeps
<1> QED
  BY <1>3, <1>4 DEF VisitCall

\* The other visits that wait for a part bind no name yet.
LEMMA VisitPartShape ==
    ASSUME ShapeInv, NEW f \in Frame, Enter(f), SameCode,
           f.node \in {"assign", "unary", "binary", "if"},
           f.step = IF f.node = "if" THEN "cond" ELSE "operand",
           f.own = <<>>, f.old = <<>>, f.blocks = <<>>, f.vals = {},
           f.node = "assign" => Len(f.names) = 1,
           f.node = "binary" => f.want # 0
    PROVE  ShapeInv'
<1>1. allocas \in Nat /\ allocas <= allocas
  BY StackFacts
<1>2. FrameOK(f, allocas, Size) /\ Waits(f)
  BY DEF FrameOK, Shape, Waits
<1>3. UNCHANGED <<named, allocas>> /\ NoCode /\ f.node # "var"
  BY DEF SameCode
<1> QED
  BY <1>1, <1>2, <1>3, EnterKeeps

LEMMA VisitAssignShape ==
    ASSUME ShapeInv, NEW x \in Var, VisitAssign(x)
    PROVE  ShapeInv'
<1> DEFINE f == [NewFrame("assign", "operand") EXCEPT !.names = <<x>>]
<1>1. /\ f \in Frame /\ f.node = "assign" /\ f.step = "operand" /\ f.own = <<>>
      /\ f.old = <<>> /\ f.blocks = <<>> /\ f.vals = {} /\ Len(f.names) = 1
  <2>1. "assign" \in Node /\ "operand" \in Step
    BY DEF Node, Step
  <2>2. NewFrame("assign", "operand") \in Frame
    BY <2>1, NewFrameFacts
  <2>3. PICK w \in Seq(Var) : w = <<x>> /\ Len(w) = 1
    <3>1. <<x>> \in Seq(Var)
      OBVIOUS
    <3>2. Len(<<x>>) = 1
      OBVIOUS
    <3> QED
      BY <3>1, <3>2, Zenon
  <2>4. f = [NewFrame("assign", "operand") EXCEPT !.names = w]
    BY <2>3
  <2> HIDE DEF f
  <2>5. f \in Frame
    BY <2>2, <2>4 DEF Frame
  <2> QED
    BY <2>1, <2>2, <2>3, <2>4, <2>5, NewFrameFacts DEF Frame
<1>2. Enter(f) /\ SameCode
  BY DEF VisitAssign
<1> HIDE DEF f
<1> QED
  BY <1>1, <1>2, VisitPartShape

LEMMA VisitUnaryShape == ASSUME ShapeInv, VisitUnary PROVE ShapeInv'
<1> DEFINE f == NewFrame("unary", "operand")
<1>1. /\ f \in Frame /\ f.node = "unary" /\ f.step = "operand" /\ f.own = <<>>
      /\ f.old = <<>> /\ f.blocks = <<>> /\ f.vals = {}
  BY DEF NewFrame, Frame, Node, Step
<1>2. Enter(f) /\ SameCode
  BY DEF VisitUnary
<1> HIDE DEF f
<1> QED
  BY <1>1, <1>2, VisitPartShape

LEMMA VisitBinaryShape == ASSUME ShapeInv, VisitBinary PROVE ShapeInv'
<1> DEFINE f == [NewFrame("binary", "operand") EXCEPT !.want = 2]
<1>1. /\ f \in Frame /\ f.node = "binary" /\ f.step = "operand" /\ f.own = <<>>
      /\ f.old = <<>> /\ f.blocks = <<>> /\ f.vals = {} /\ f.want # 0
  <2>1. "binary" \in Node /\ "operand" \in Step
    BY DEF Node, Step
  <2>2. NewFrame("binary", "operand") \in Frame
    BY <2>1, NewFrameFacts
  <2> QED
    BY <2>1, <2>2, NewFrameFacts DEF Frame
<1>2. Enter(f) /\ SameCode
  BY DEF VisitBinary
<1> HIDE DEF f
<1> QED
  BY <1>1, <1>2, VisitPartShape

LEMMA VisitIfShape == ASSUME ShapeInv, VisitIf PROVE ShapeInv'
<1> DEFINE f == NewFrame("if", "cond")
<1>1. /\ f \in Frame /\ f.node = "if" /\ f.step = "cond" /\ f.own = <<>>
      /\ f.old = <<>> /\ f.blocks = <<>> /\ f.vals = {}
  BY DEF NewFrame, Frame, Node, Step
<1>2. Enter(f) /\ SameCode
  BY DEF VisitIf
<1> HIDE DEF f
<1> QED
  BY <1>1, <1>2, VisitPartShape

LEMMA VisitForShape ==
    ASSUME ShapeInv, NEW x \in Var, VisitFor(x)
    PROVE  ShapeInv'
<1> DEFINE f == [NewFrame("for", "start") EXCEPT !.names = <<x>>, !.own = <<allocas + 1>>]
<1>1. allocas \in Nat /\ allocas + 1 \in 1..allocas + 1 /\ allocas <= allocas + 1
  BY StackFacts
<1>2. /\ f \in Frame /\ f.node = "for" /\ f.step = "start" /\ f.own \in Seq(1..allocas + 1)
      /\ f.old = <<>> /\ f.blocks = <<>> /\ f.vals = {} /\ Len(f.names) = 1 /\ Len(f.own) = 1
  <2>1. "for" \in Node /\ "start" \in Step
    BY DEF Node, Step
  <2>2. NewFrame("for", "start") \in Frame
    BY <2>1, NewFrameFacts
  <2>3. PICK g, xs, as : g = NewFrame("for", "start") /\ xs = <<x>> /\ as = <<allocas + 1>>
    OBVIOUS
  <2>4. as \in Seq(Nat) /\ as \in Seq(1..allocas + 1) /\ xs \in Seq(Var) /\ Len(xs) = 1 /\ Len(as) = 1
    BY <1>1, <2>3
  <2>5. f = [g EXCEPT !.names = xs, !.own = as]
    BY <2>3
  <2>6. /\ g \in Frame /\ g.node = "for" /\ g.step = "start" /\ g.old = <<>> /\ g.blocks = <<>>
        /\ g.vals = {}
    BY <2>1, <2>3, NewFrameFacts
  <2> QED
    BY <2>4, <2>5, <2>6 DEF Frame
<1>3. Enter(f) /\ allocas' = allocas + 1 /\ UNCHANGED named /\ NoCode
  BY DEF VisitFor
<1> HIDE DEF f
<1>4. FrameOK(f, allocas + 1, Size) /\ Waits(f) /\ f.node # "var"
  BY <1>2 DEF FrameOK, Shape, Waits
<1> QED
  BY <1>1, <1>3, <1>4, EnterKeeps

LEMMA VisitVarShape ==
    ASSUME ShapeInv, NEW ns \in VarLists, VisitVar(ns)
    PROVE  ShapeInv'
<1> DEFINE f == [NewFrame("var", "init") EXCEPT !.names = ns]
<1>1. ns \in Seq(Var) /\ Len(ns) \in Nat \ {0}
  BY LoweringAssumption, EmptySeq, LenProperties
<1>2. /\ f \in Frame /\ f.node = "var" /\ f.step = "init" /\ f.own = <<>> /\ f.names = ns
      /\ f.old = <<>> /\ f.blocks = <<>> /\ f.vals = {}
  <2>1. "var" \in Node /\ "init" \in Step
    BY DEF Node, Step
  <2>2. NewFrame("var", "init") \in Frame
    BY <2>1, NewFrameFacts
  <2> QED
    BY <1>1, <2>1, <2>2, NewFrameFacts DEF Frame
<1>3. Enter(f) /\ UNCHANGED <<allocas, named>> /\ NoCode
  BY DEF VisitVar, SameCode
<1> HIDE DEF f
<1>4. FrameOK(f, allocas, Size) /\ Waits(f)
  BY <1>1, <1>2 DEF FrameOK, Shape, Waits
<1>5. allocas \in Nat /\ allocas <= allocas
  BY StackFacts
<1> QED
  BY <1>2, <1>3, <1>4, <1>5, EnterKeeps

-----------------------------------------------------------------------------
\* What a visit that gets the value of a part may rely on.
LEMMA GotFacts ==
    ASSUME ShapeInv, phase = "return", stack # <<>>
    PROVE  /\ FrameOK(Top, allocas, Size) /\ Waits(Top)
           /\ ValueOK(val, Size)
           /\ GraphOK(cfg) /\ cur \in 1..Size /\ Size \in Nat /\ Size <= Size
           /\ allocas \in Nat /\ named \in [Var -> 0..allocas]
           /\ loc \in Location /\ doubled \in BOOLEAN
           /\ Depth \in Nat \ {0} /\ Depth \in 0..MaxNodes + 1 /\ Depth - 1 \in 0..MaxNodes + 1
           /\ Within(loc, Depth - 1) \in Location
           /\ NoLine \in Line
           /\ Instruction => line' \in Line
<1>1. "return" # "bind"
  OBVIOUS
<1>2. /\ FrameOK(Top, allocas, Size) /\ Waits(Top)
      /\ ValueOK(val, Size)
      /\ GraphOK(cfg) /\ cur \in 1..Size
      /\ allocas \in Nat /\ named \in [Var -> 0..allocas]
      /\ loc \in Location /\ doubled \in BOOLEAN
  BY <1>1, TopFacts DEF ShapeInv
<1>3. /\ Len(stack) \in Nat \ {0} /\ Depth = Len(stack)
      /\ Len(stack) <= nodes /\ nodes \in Nat /\ nodes <= MaxNodes /\ MaxNodes \in Nat
      /\ Size \in Nat
  BY StackFacts, TopFacts
<1>4. /\ Depth \in Nat \ {0} /\ Depth \in 0..MaxNodes + 1 /\ Depth - 1 \in 0..MaxNodes + 1
      /\ Size <= Size
  BY <1>3
<1>5. Within(loc, Depth - 1) \in Location /\ NoLine \in Line
  BY <1>2, <1>4, LocationFacts
<1>6. Top.node \in Node
  BY <1>2 DEF FrameOK, Frame
<1>7. Instruction => line' \in Line
  BY <1>2, <1>4, <1>6, LineFacts DEF Instruction
<1> QED
  BY <1>2, <1>3, <1>4, <1>5, <1>7

\* A visit that leaves with a value it got, with null or with a new one.
LEMMA LeaveShape ==
    ASSUME ShapeInv, phase = "return", stack # <<>>, NEW v, Leave(v),
           NEW g, cfg' = g, GraphOK(g), Size <= Len(g.terms), ValueOK(v, Len(g.terms)),
           NEW c \in 1..Len(g.terms), cur' = c, NoCode \/ Instruction,
           UNCHANGED <<allocas, args, result, nodes>>, doubled' \in BOOLEAN,
           named' \in [Var -> 0..allocas]
    PROVE  ShapeInv'
<1>1. stack' = Rest /\ Return(v) /\ loc' = Within(loc, Depth - 1) /\ phase # "bind"
  BY DEF Leave
<1>2. loc' \in Location
  BY <1>1, GotFacts
<1>3. line' \in Line
  BY GotFacts DEF NoCode
<1> QED
  BY <1>1, <1>2, <1>3, ReturnKeeps

\* A null leaves the code as it is.
LEMMA LeaveNullShape ==
    ASSUME ShapeInv, phase = "return", stack # <<>>, Leave(Null), NoCode, SameNames, SameBody
    PROVE  ShapeInv'
<1>1. ValueOK(Null, Size)
  BY GotFacts DEF ValueOK, Null, Value
<1>2. UNCHANGED <<allocas, args, result, nodes, doubled, named, cfg, cur>>
  BY DEF NoCode, SameNames, SameBody
<1> QED
  BY <1>1, <1>2, GotFacts, LeaveShape DEF Size

LEMMA PartFailsShape == ASSUME ShapeInv, PartFails PROVE ShapeInv'
BY LeaveNullShape DEF PartFails, SameCode, SameNames

\* The value is used by an instruction of the visit.
LEMMA LeaveUsingShape ==
    ASSUME ShapeInv, phase = "return", stack # <<>>, NEW v \in {val, In(cur)},
           NEW V, \A w \in V : ValueOK(w, Size), cfg' = WithUses(cfg, cur, V),
           stack' = Rest, Return(v), loc' \in Location, line' \in Line,
           cur' = cur, SameNames, SameBody
    PROVE  ShapeInv'
<1>1. ValueOK(In(cur), Size)
  BY GotFacts DEF ValueOK, In, Value
<1>2. UNCHANGED <<allocas, args, result, nodes, doubled, named>>
  BY DEF SameNames, SameBody
<1>3. /\ GraphOK(WithUses(cfg, cur, V)) /\ Len(WithUses(cfg, cur, V).terms) = Size
      /\ Size <= Size
  BY GotFacts, WithUsesFacts DEF Size
<1>4. ValueOK(v, Size) /\ phase # "bind"
  BY <1>1, GotFacts
<1> QED
  BY <1>2, <1>3, <1>4, GotFacts, ReturnKeeps

LEMMA AssignDoneShape == ASSUME ShapeInv, AssignDone PROVE ShapeInv'
<1>1. phase = "return" /\ stack # <<>> /\ SameNames /\ SameBody
  BY DEF AssignDone, Got
<1>2. CASE Leave(Null) /\ NoCode
  BY <1>1, <1>2, LeaveNullShape
<1>3. CASE Leave(val) /\ cfg' = WithUses(cfg, cur, {val}) /\ Instruction /\ UNCHANGED cur
  <2>1. stack' = Rest /\ Return(val) /\ loc' \in Location /\ line' \in Line
    BY <1>1, <1>3, GotFacts DEF Leave
  <2>2. \A w \in {val} : ValueOK(w, Size)
    BY <1>1, GotFacts
  <2> QED
    BY <1>1, <1>3, <2>1, <2>2, LeaveUsingShape
<1> QED
  BY <1>2, <1>3 DEF AssignDone

LEMMA UnaryDoneShape == ASSUME ShapeInv, UnaryDone PROVE ShapeInv'
<1>1. phase = "return" /\ stack # <<>> /\ SameNames /\ SameBody
  BY DEF UnaryDone, Got
<1>2. CASE Leave(Null) /\ NoCode
  BY <1>1, <1>2, LeaveNullShape
<1>3. CASE /\ stack' = Rest
           /\ Return(In(cur))
           /\ cfg' = WithUses(cfg, cur, {val})
           /\ Creates("unary", AtNode(Depth), Depth)
           /\ loc' = Within(AtNode(Depth), Depth - 1)
           /\ UNCHANGED cur
  <2>1. AtNode(Depth) \in Location /\ loc' \in Location
    BY <1>1, <1>3, GotFacts, LocationFacts
  <2>2. line' \in Line
    BY <1>1, <1>3, <2>1, GotFacts, LineFacts DEF Node
  <2>3. \A w \in {val} : ValueOK(w, Size)
    BY <1>1, GotFacts
  <2> QED
    BY <1>1, <1>3, <2>1, <2>2, <2>3, LeaveUsingShape
<1> QED
  BY <1>2, <1>3 DEF UnaryDone

LEMMA NextOperandShape == ASSUME ShapeInv, NextOperand PROVE ShapeInv'
<1> DEFINE f == [Top EXCEPT !.want = @ - 1, !.vals = @ \cup {val}]
<1>1. /\ phase = "return" /\ stack # <<>> /\ Top.node \in {"call", "binary"}
      /\ Top.node # "binary" => val.ok
      /\ Top.want > 1 /\ Continue(f)
      /\ UNCHANGED <<named, allocas, cur, cfg, loc, args, result, nodes, doubled>> /\ line' = NoLine
  BY DEF NextOperand, Got, Checks, SameCode, SameBody, NoCode
<1>2. /\ FrameOK(Top, allocas, Size) /\ ValueOK(val, Size)
  BY <1>1, GotFacts
<1>3. /\ f \in Frame /\ f.node = Top.node /\ f.step = Top.step /\ f.names = Top.names
      /\ f.own = Top.own /\ f.old = Top.old /\ f.blocks = Top.blocks
      /\ f.want # 0 /\ f.vals = Top.vals \cup {val}
  <2>1. Top \in Frame /\ val \in Value /\ Top.want - 1 \in Nat /\ Top.want - 1 # 0
    BY <1>1, <1>2 DEF FrameOK, ValueOK, Frame
  <2> QED
    BY <2>1 DEF Frame
<1> HIDE DEF f
<1>4. FrameOK(f, allocas, Size)
  <2>1. Null \in f.vals => f.node = "binary"
    BY <1>1, <1>2, <1>3 DEF FrameOK, Null
  <2>2. \A v \in f.vals : ValueOK(v, Size)
    BY <1>2, <1>3 DEF FrameOK
  <2>3. Shape(f)
    BY <1>1, <1>2, <1>3 DEF FrameOK, Shape
  <2> QED
    BY <1>2, <1>3, <2>1, <2>2, <2>3 DEF FrameOK
<1>5. Waits(f)
  BY <1>1, <1>3 DEF Waits
<1> QED
  BY <1>1, <1>4, <1>5, GotFacts, ContinueKeeps DEF Size

LEMMA LastOperandShape == ASSUME ShapeInv, LastOperand PROVE ShapeInv'
<1>1. phase = "return" /\ stack # <<>> /\ SameNames /\ SameBody
  BY DEF LastOperand, Got
<1>2. CASE Leave(Null) /\ NoCode
  BY <1>1, <1>2, LeaveNullShape
<1>3. CASE /\ Leave(In(cur))
           /\ cfg' = WithUses(cfg, cur, Top.vals \cup {val})
           /\ Instruction
           /\ UNCHANGED cur
  <2>1. stack' = Rest /\ Return(In(cur)) /\ loc' \in Location /\ line' \in Line
    BY <1>1, <1>3, GotFacts DEF Leave
  <2>2. \A w \in Top.vals \cup {val} : ValueOK(w, Size)
    BY <1>1, GotFacts DEF FrameOK
  <2> QED
    BY <1>1, <1>3, <2>1, <2>2, LeaveUsingShape
<1> QED
  BY <1>2, <1>3 DEF LastOperand

LEMMA IfCondShape == ASSUME ShapeInv, IfCond PROVE ShapeInv'
<1> DEFINE u == WithUses(cfg, cur, {val})
           w == WithBlocks(u, 3)
           g == WithBranch(w, cur, {NewBlock, NewBlock + 1})
           f == [Top EXCEPT !.step = "then", !.blocks = <<NewBlock, NewBlock + 1, NewBlock + 2>>]
<1>1. /\ phase = "return" /\ stack # <<>> /\ Top.node = "if" /\ Top.step = "cond"
      /\ cfg' = g /\ cur' = NewBlock /\ Continue(f) /\ Instruction
      /\ UNCHANGED <<named, allocas, loc, args, result, nodes, doubled>>
  BY DEF IfCond, Got, SameNames, SameBody
<1>2. /\ FrameOK(Top, allocas, Size) /\ ValueOK(val, Size) /\ Size \in Nat /\ allocas \in Nat
      /\ NewBlock = Size + 1
  BY <1>1, GotFacts DEF NewBlock, Size
<1>3. GraphOK(u) /\ u.terms = cfg.terms
  BY <1>1, GotFacts, WithUsesFacts DEF Size
<1>4. GraphOK(w) /\ Len(w.terms) = Size + 3
  BY <1>3, WithBlocksFacts DEF Size
<1>5. GraphOK(g) /\ Len(g.terms) = Size + 3
  <2>1. cur \in 1..Len(w.terms) /\ {NewBlock, NewBlock + 1} \in SUBSET (1..Len(w.terms))
    BY <1>1, <1>2, <1>4, GotFacts
  <2> HIDE DEF w
  <2> QED
    BY <1>4, <2>1, WithBranchFacts
<1>6. NewBlock \in 1..Len(g.terms) /\ Size <= Len(g.terms) /\ allocas <= allocas /\ Size + 3 \in Nat
  BY <1>2, <1>5
<1>7. FrameOK(f, allocas, Len(g.terms)) /\ Waits(f)
  <2>1. PICK l \in Seq(1..Size + 3) :
          l = <<NewBlock, NewBlock + 1, NewBlock + 2>> /\ Len(l) = 3 /\ l \in Seq(Nat)
    <3>1. /\ NewBlock \in 1..Size + 3 /\ NewBlock + 1 \in 1..Size + 3
          /\ NewBlock + 2 \in 1..Size + 3 /\ 1..Size + 3 \subseteq Nat
      BY <1>2
    <3>2. Seq(1..Size + 3) \subseteq Seq(Nat)
      BY <3>1, Tuples, Zenon
    <3>3. /\ <<NewBlock, NewBlock + 1, NewBlock + 2>> \in Seq(1..Size + 3)
          /\ Len(<<NewBlock, NewBlock + 1, NewBlock + 2>>) = 3
      BY <3>1, Tuples
    <3> QED
      BY <3>2, <3>3, Zenon
  <2>2. f = [Top EXCEPT !.step = "then", !.blocks = l]
    BY <2>1
  <2>3. FrameOK(Top, allocas, Size + 3) /\ "then" \in Step
    BY <1>2, <1>5, <1>6, FramesGrow DEF Step
  <2> HIDE DEF f
  <2>4. /\ f \in Frame /\ f.node = Top.node /\ f.step = "then" /\ f.names = Top.names
        /\ f.own = Top.own /\ f.old = Top.old /\ f.blocks = l
        /\ f.want = Top.want /\ f.vals = Top.vals
    BY <2>1, <2>2, <2>3 DEF FrameOK, Frame
  <2>5. Shape(f) /\ Waits(f)
    BY <1>1, <2>1, <2>3, <2>4 DEF FrameOK, Shape, Waits
  <2> QED
    BY <1>5, <2>1, <2>3, <2>4, <2>5 DEF FrameOK
<1> HIDE DEF f, g
<1> QED
  BY <1>1, <1>5, <1>6, <1>7, GotFacts, ContinueKeeps

LEMMA IfThenShape == ASSUME ShapeInv, IfThen PROVE ShapeInv'
<1> DEFINE g == WithBranch(cfg, cur, {Top.blocks[3]})
           f == [Top EXCEPT !.step = "else", !.vals = {val}, !.blocks[1] = cur]
<1>1. /\ phase = "return" /\ stack # <<>> /\ Top.node = "if" /\ Top.step = "then" /\ val.ok
      /\ cfg' = g /\ cur' = Top.blocks[2] /\ Continue(f) /\ Instruction
      /\ UNCHANGED <<named, allocas, loc, args, result, nodes, doubled>>
  BY DEF IfThen, Got, Checks, SameNames, SameBody, WhereItEnds
<1>2. /\ FrameOK(Top, allocas, Size) /\ ValueOK(val, Size) /\ Size \in Nat
      /\ cur \in 1..Size /\ GraphOK(cfg)
  BY <1>1, GotFacts
<1>3. /\ Top \in Frame /\ Top.blocks \in Seq(1..Size) /\ Len(Top.blocks) = 3
      /\ Top.blocks[2] \in 1..Size /\ Top.blocks[3] \in 1..Size
  <2>1. /\ Top \in Frame /\ Top.blocks \in Seq(1..Size) /\ Len(Top.blocks) = 3
    BY <1>1, <1>2 DEF FrameOK, Shape
  <2>2. 2 \in 1..Len(Top.blocks) /\ 3 \in 1..Len(Top.blocks)
    BY <2>1
  <2> QED
    BY <2>1, <2>2, ElementOfSeq
<1>4. GraphOK(g) /\ Len(g.terms) = Size /\ Size <= Size
  BY <1>2, <1>3, WithBranchFacts DEF Size
<1>5. FrameOK(f, allocas, Size) /\ Waits(f)
  <2>1. PICK l \in Seq(1..Size) :
          l = [Top.blocks EXCEPT ![1] = cur] /\ Len(l) = 3 /\ l \in Seq(Nat)
    <3>1. 1..Size \subseteq Nat /\ 1 \in 1..Len(Top.blocks)
      BY <1>2, <1>3
    <3>2. Seq(1..Size) \subseteq Seq(Nat)
      BY <1>2, <3>1, Tuples, Zenon
    <3>3. [Top.blocks EXCEPT ![1] = cur] \in Seq(1..Size) /\ Len([Top.blocks EXCEPT ![1] = cur]) = 3
      BY <1>2, <1>3, <3>1, ExceptSeq
    <3> QED
      BY <3>2, <3>3, Zenon
  <2>2. f = [Top EXCEPT !.step = "else", !.vals = {val}, !.blocks = l]
    BY <1>3, <2>1 DEF Frame
  <2>3. "else" \in Step /\ val \in Value /\ val # Null
    BY <1>1, <1>2 DEF Step, ValueOK, Null
  <2> HIDE DEF f
  <2>4. /\ f \in Frame /\ f.node = Top.node /\ f.step = "else" /\ f.names = Top.names
        /\ f.own = Top.own /\ f.old = Top.old /\ f.blocks = l
        /\ f.want = Top.want /\ f.vals = {val}
    BY <1>3, <2>1, <2>2, <2>3 DEF Frame
  <2>5. Shape(f) /\ Waits(f)
    BY <1>1, <1>2, <2>1, <2>4 DEF FrameOK, Shape, Waits
  <2> QED
    BY <1>2, <2>1, <2>3, <2>4, <2>5 DEF FrameOK
<1> HIDE DEF f, g
<1> QED
  BY <1>1, <1>3, <1>4, <1>5, GotFacts, ContinueKeeps

LEMMA IfElseShape == ASSUME ShapeInv, IfElse PROVE ShapeInv'
<1>1. /\ phase = "return" /\ stack # <<>> /\ Top.node = "if" /\ Top.step = "else" /\ val.ok
      /\ cur' = Top.blocks[3] /\ Leave(In(Top.blocks[3])) /\ Instruction
      /\ UNCHANGED <<named, allocas, args, result, nodes, doubled>>
  BY DEF IfElse, Got, Checks, SameNames, SameBody
<1> DEFINE w == WithBranch(cfg, cur, {Top.blocks[3]})
<1>2. PICK v \in Top.vals :
        cfg' = WithPhi(w, Top.blocks[3], {<<Top.blocks[1], v>>, <<cur, val>>})
  BY DEF IfElse, Incoming, WhereItEnds
<1> DEFINE I == {<<Top.blocks[1], v>>, <<cur, val>>}
           g == WithPhi(w, Top.blocks[3], I)
<1>3. /\ FrameOK(Top, allocas, Size) /\ ValueOK(val, Size) /\ Size \in Nat
      /\ cur \in 1..Size /\ GraphOK(cfg) /\ ValueOK(v, Size)
  BY <1>1, GotFacts DEF FrameOK
<1>4. Top.blocks[1] \in 1..Size /\ Top.blocks[3] \in 1..Size
  BY <1>1, <1>3 DEF FrameOK, Shape
<1>5. GraphOK(w) /\ Len(w.terms) = Size
  BY <1>3, <1>4, WithBranchFacts DEF Size
<1> HIDE DEF w
<1>6. GraphOK(g) /\ Len(g.terms) = Size /\ Size <= Size
  <2>1. \A p \in I : p = <<p[1], p[2]>> /\ p[1] \in 1..Len(w.terms) /\ ValueOK(p[2], Len(w.terms))
    BY <1>3, <1>4, <1>5
  <2> HIDE DEF I
  <2>2. GraphOK(g) /\ g.terms = w.terms
    BY <1>4, <1>5, <2>1, WithPhiFacts
  <2> QED
    BY <1>3, <1>5, <2>2
<1>7. ValueOK(In(Top.blocks[3]), Size)
  BY <1>3, <1>4 DEF ValueOK, In, Value
<1>8. cfg' = g
  BY <1>2
<1> HIDE DEF g, I
<1> QED
  BY <1>1, <1>4, <1>6, <1>7, <1>8, GotFacts, LeaveShape

LEMMA ForStartShape == ASSUME ShapeInv, ForStart PROVE ShapeInv'
<1> DEFINE u == WithUses(cfg, cur, {val})
           w == WithBlocks(u, 1)
           g == WithBranch(w, cur, {NewBlock})
           f == [Top EXCEPT !.step = "body", !.blocks = <<NewBlock>>,
                            !.old = <<named[Top.names[1]]>>]
<1>1. /\ phase = "return" /\ stack # <<>> /\ Top.node = "for" /\ Top.step = "start"
      /\ cfg' = g /\ cur' = NewBlock /\ Continue(f) /\ Instruction
      /\ named' = [named EXCEPT ![Top.names[1]] = Top.own[1]]
      /\ UNCHANGED <<allocas, loc, args, result, nodes, doubled>>
  BY DEF ForStart, Got, SameBody
<1>2. /\ FrameOK(Top, allocas, Size) /\ ValueOK(val, Size) /\ Size \in Nat /\ allocas \in Nat
      /\ NewBlock = Size + 1 /\ named \in [Var -> 0..allocas]
  BY <1>1, GotFacts DEF NewBlock, Size
<1>3. GraphOK(u) /\ u.terms = cfg.terms
  BY <1>1, GotFacts, WithUsesFacts DEF Size
<1>4. GraphOK(w) /\ Len(w.terms) = Size + 1
  BY <1>3, WithBlocksFacts DEF Size
<1>5. GraphOK(g) /\ Len(g.terms) = Size + 1
  <2>1. cur \in 1..Len(w.terms) /\ {NewBlock} \in SUBSET (1..Len(w.terms))
    BY <1>1, <1>2, <1>4, GotFacts
  <2> HIDE DEF w
  <2> QED
    BY <1>4, <2>1, WithBranchFacts
<1>6. NewBlock \in 1..Len(g.terms) /\ Size <= Len(g.terms) /\ allocas <= allocas /\ Size + 1 \in Nat
  BY <1>2, <1>5
<1>7. /\ Top.names \in Seq(Var) /\ Len(Top.names) = 1 /\ Top.names[1] \in Var
      /\ Top.own \in Seq(1..allocas) /\ Len(Top.own) = 1 /\ Top.own[1] \in 1..allocas
      /\ named[Top.names[1]] \in 0..allocas
  BY <1>1, <1>2 DEF FrameOK, Shape, Frame
<1>8. named' \in [Var -> 0..allocas]
  BY <1>1, <1>2, <1>7
<1>9. FrameOK(f, allocas, Len(g.terms)) /\ Waits(f)
  <2>1. PICK l \in Seq(1..Size + 1) : l = <<NewBlock>> /\ Len(l) = 1 /\ l \in Seq(Nat)
    <3>1. NewBlock \in 1..Size + 1 /\ Seq(1..Size + 1) \subseteq Seq(Nat)
      BY <1>2
    <3>2. <<NewBlock>> \in Seq(1..Size + 1) /\ Len(<<NewBlock>>) = 1
      BY <3>1, Tuples
    <3> QED
      BY <3>1, <3>2, Zenon
  <2>2. PICK o \in Seq(0..allocas) : o = <<named[Top.names[1]]>> /\ Len(o) = 1 /\ o \in Seq(Nat)
    <3>1. Seq(0..allocas) \subseteq Seq(Nat)
      BY <1>2
    <3>2. <<named[Top.names[1]]>> \in Seq(0..allocas) /\ Len(<<named[Top.names[1]]>>) = 1
      BY <1>7, Tuples
    <3> QED
      BY <3>1, <3>2, Zenon
  <2>3. f = [Top EXCEPT !.step = "body", !.blocks = l, !.old = o]
    BY <2>1, <2>2
  <2>4. FrameOK(Top, allocas, Size + 1) /\ "body" \in Step
    BY <1>2, <1>5, <1>6, FramesGrow DEF Step
  <2> HIDE DEF f
  <2>5. /\ f \in Frame /\ f.node = Top.node /\ f.step = "body" /\ f.names = Top.names
        /\ f.own = Top.own /\ f.old = o /\ f.blocks = l
        /\ f.want = Top.want /\ f.vals = Top.vals
    BY <2>1, <2>2, <2>3, <2>4 DEF FrameOK, Frame
  <2>6. Shape(f) /\ Waits(f)
    BY <1>1, <1>7, <2>1, <2>2, <2>4, <2>5 DEF FrameOK, Shape, Waits
  <2> QED
    BY <1>5, <2>1, <2>2, <2>4, <2>5, <2>6 DEF FrameOK
<1> HIDE DEF f, g
<1> QED
  BY <1>1, <1>5, <1>6, <1>8, <1>9, GotFacts, ContinueKeeps

\* The steps of a loop that only go on.
LEMMA LoopGoesOn ==
    ASSUME ShapeInv, phase = "return", stack # <<>>, Top.node = "for",
           Top.step \in {"body", "step"}, val.ok,
           NEW t \in {"step", "end"}, NEW V \in {Top.vals, {Const}, {val}},
           Continue([Top EXCEPT !.step = t, !.vals = V]),
           UNCHANGED loc, SameCode, SameBody
    PROVE  ShapeInv'
<1> DEFINE f == [Top EXCEPT !.step = t, !.vals = V]
<1>1. /\ FrameOK(Top, allocas, Size) /\ ValueOK(val, Size) /\ Size \in Nat
  BY GotFacts
<1>2. /\ Top \in Frame /\ t \in Step
      /\ \A v \in V : ValueOK(v, Size) /\ v \in Value /\ v # Null
  <2>1. ValueOK(Const, Size) /\ Const # Null /\ val # Null
    BY <1>1 DEF ValueOK, Const, Value, Null
  <2>2. \A v \in Top.vals : ValueOK(v, Size) /\ v # Null
    BY <1>1 DEF FrameOK
  <2> QED
    BY <1>1, <2>1, <2>2 DEF FrameOK, Step, ValueOK
<1>3. /\ f \in Frame /\ f.node = Top.node /\ f.step = t /\ f.names = Top.names
      /\ f.own = Top.own /\ f.old = Top.old /\ f.blocks = Top.blocks
      /\ f.want = Top.want /\ f.vals = V
  BY <1>2 DEF Frame
<1>4. Continue(f)
  OBVIOUS
<1> HIDE DEF f
<1>5. Shape(f) /\ Waits(f)
  BY <1>1, <1>3 DEF FrameOK, Shape, Waits
<1>6. FrameOK(f, allocas, Size)
  BY <1>1, <1>2, <1>3, <1>5 DEF FrameOK
<1>7. UNCHANGED <<cfg, cur, named, allocas, args, result, nodes, doubled>> /\ line' = NoLine
  BY DEF SameCode, SameBody, NoCode
<1> QED
  BY <1>4, <1>5, <1>6, <1>7, GotFacts, ContinueKeeps DEF Size

LEMMA ForBodyShape == ASSUME ShapeInv, ForBody PROVE ShapeInv'
<1>1. /\ phase = "return" /\ stack # <<>> /\ Top.node = "for" /\ Top.step = "body" /\ val.ok
      /\ UNCHANGED loc /\ SameCode /\ SameBody
  BY DEF ForBody, Got, Checks
<1>2. CASE Continue([Top EXCEPT !.step = "step"])
  <2>1. Top \in Frame
    BY <1>1, GotFacts DEF FrameOK
  <2>2. [Top EXCEPT !.step = "step"] = [Top EXCEPT !.step = "step", !.vals = Top.vals]
    BY <2>1 DEF Frame
  <2>3. Continue([Top EXCEPT !.step = "step", !.vals = Top.vals])
    BY <1>2, <2>2
  <2> QED
    BY <1>1, <2>3, LoopGoesOn
<1>3. CASE Continue([Top EXCEPT !.step = "end", !.vals = {Const}])
  BY <1>1, <1>3, LoopGoesOn
<1> QED
  BY <1>2, <1>3 DEF ForBody

LEMMA ForStepShape == ASSUME ShapeInv, ForStep PROVE ShapeInv'
<1>1. /\ phase = "return" /\ stack # <<>> /\ Top.node = "for" /\ Top.step = "step" /\ val.ok
      /\ UNCHANGED loc /\ SameCode /\ SameBody
      /\ Continue([Top EXCEPT !.step = "end", !.vals = {val}])
  BY DEF ForStep, Got, Checks
<1> QED
  BY <1>1, LoopGoesOn

\* What a scope gives back is what it kept.
LEMMA RestoredFacts ==
    ASSUME ShapeInv, NEW f \in Frame, f.old \in Seq(0..allocas), Len(f.names) = Len(f.old)
    PROVE  /\ Restored(f) \in [Var -> 0..allocas]
           /\ \A x \in Var : (\A i \in DOMAIN f.names : f.names[i] # x) =>
                Restored(f)[x] = named[x]
           /\ \A k \in DOMAIN f.names :
                (\A j \in DOMAIN f.names : f.names[j] = f.names[k] => j = k) =>
                  Restored(f)[f.names[k]] = f.old[k]
<1>1. /\ f.names \in Seq(Var) /\ DOMAIN f.names = 1..Len(f.names) /\ Len(f.names) \in Nat
      /\ DOMAIN f.old = 1..Len(f.old) /\ named \in [Var -> 0..allocas]
  BY LenProperties DEF Frame, ShapeInv
<1>2. ASSUME NEW x \in Var, NEW k \in DOMAIN f.names, f.names[k] = x
      PROVE  \E i \in DOMAIN f.names :
               /\ f.names[i] = x /\ Restored(f)[x] = f.old[i]
  <2> DEFINE own == {i \in DOMAIN f.names : f.names[i] = x}
  <2>1. own \subseteq Nat /\ k \in own /\ \A i \in own : i <= Len(f.names)
    BY <1>1, <1>2
  <2> HIDE DEF own
  <2>2. \E i \in own : \A j \in own : j <= i
    BY <1>1, <2>1, GreatestExists
  <2>3. (CHOOSE i \in own : \A j \in own : j <= i) \in own
    BY <2>2
  <2>4. Restored(f)[x] = f.old[CHOOSE i \in own : \A j \in own : j <= i]
    BY <2>1 DEF Restored, own
  <2> QED
    BY <2>3, <2>4 DEF own
<1>3. ASSUME NEW x \in Var, \A i \in DOMAIN f.names : f.names[i] # x
      PROVE  Restored(f)[x] = named[x]
  BY <1>3 DEF Restored
<1>4. \A x \in Var : Restored(f)[x] \in 0..allocas
  <2> SUFFICES ASSUME NEW x \in Var PROVE Restored(f)[x] \in 0..allocas
    OBVIOUS
  <2>1. CASE \E k \in DOMAIN f.names : f.names[k] = x
    <3>1. PICK i \in DOMAIN f.names : Restored(f)[x] = f.old[i]
      BY <1>2, <2>1
    <3>2. i \in 1..Len(f.old)
      BY <1>1
    <3> QED
      BY <3>1, <3>2, ElementOfSeq
  <2>2. CASE \A i \in DOMAIN f.names : f.names[i] # x
    BY <1>1, <1>3, <2>2
  <2> QED
    BY <2>1, <2>2
<1>5. Restored(f) \in [Var -> 0..allocas]
  BY <1>4 DEF Restored
<1>6. ASSUME NEW k \in DOMAIN f.names, \A j \in DOMAIN f.names : f.names[j] = f.names[k] => j = k
      PROVE  Restored(f)[f.names[k]] = f.old[k]
  <2>1. f.names[k] \in Var
    BY <1>1, ElementOfSeq
  <2> QED
    BY <1>2, <1>6, <2>1
<1> QED
  BY <1>3, <1>5, <1>6

LEMMA ForEndShape == ASSUME ShapeInv, ForEnd PROVE ShapeInv'
<1> DEFINE V == Top.vals \cup {val}
           u == WithUses(cfg, cur, V)
           w == WithBlocks(u, 1)
           g == WithBranch(w, cur, {Top.blocks[1], NewBlock})
<1>1. /\ phase = "return" /\ stack # <<>> /\ Top.node = "for" /\ Top.step = "end"
      /\ cfg' = g /\ cur' = NewBlock /\ Leave(Const) /\ Instruction
      /\ named' = Restored(Top)
      /\ UNCHANGED <<allocas, args, result, nodes, doubled>>
  BY DEF ForEnd, Got, SameBody, Latch
<1>2. /\ FrameOK(Top, allocas, Size) /\ ValueOK(val, Size) /\ Size \in Nat
      /\ NewBlock = Size + 1 /\ doubled \in BOOLEAN
  BY <1>1, GotFacts DEF NewBlock, Size
<1>3. /\ Top.blocks[1] \in 1..Size /\ Top \in Frame /\ Top.old \in Seq(0..allocas)
      /\ Len(Top.names) = Len(Top.old)
  BY <1>1, <1>2 DEF FrameOK, Shape
<1>4. \A v \in V : ValueOK(v, Size)
  BY <1>2 DEF FrameOK
<1> HIDE DEF V
<1>5. GraphOK(u) /\ u.terms = cfg.terms
  BY <1>1, <1>4, GotFacts, WithUsesFacts DEF Size
<1>6. GraphOK(w) /\ Len(w.terms) = Size + 1
  BY <1>5, WithBlocksFacts DEF Size
<1>7. GraphOK(g) /\ Len(g.terms) = Size + 1
  <2>1. cur \in 1..Len(w.terms) /\ {Top.blocks[1], NewBlock} \in SUBSET (1..Len(w.terms))
    BY <1>1, <1>2, <1>3, <1>6, GotFacts
  <2> HIDE DEF w
  <2> QED
    BY <1>6, <2>1, WithBranchFacts
<1>8. NewBlock \in 1..Len(g.terms) /\ Size <= Len(g.terms)
  BY <1>2, <1>7
<1>9. ValueOK(Const, Len(g.terms))
  BY <1>2, <1>7 DEF ValueOK, Const, Value
<1>10. named' \in [Var -> 0..allocas]
  BY <1>1, <1>3, RestoredFacts
<1> HIDE DEF g
<1> QED
  BY <1>1, <1>2, <1>7, <1>8, <1>9, <1>10, LeaveShape

\* The next name of a `var` is bound.
LEMMA BindShape ==
    ASSUME ShapeInv, stack # <<>>, Top.node = "var", Top.step = "init",
           Len(Top.own) < Len(Top.names), NEW x, ValueOK(x, Size),
           NEW n \in {"default", "var"}, Bind(x, n)
    PROVE  ShapeInv'
<1> DEFINE k == Len(Top.own) + 1
           f == [Top EXCEPT !.own = Append(@, allocas + 1), !.old = Append(@, named[Top.names[k]])]
           g == WithUses(cfg, cur, {x})
<1>1. /\ FrameOK(Top, allocas, Size) /\ Frames(Rest, allocas, Size) /\ AllWait(Rest)
      /\ Len(stack) \in Nat \ {0} /\ Len(stack) <= nodes /\ nodes \in 0..MaxNodes
      /\ Size \in Nat /\ allocas \in Nat /\ Len(Rest) = Len(stack) - 1 /\ Rest \in Seq(Frame)
      /\ GraphOK(cfg) /\ cur \in 1..Size /\ named \in [Var -> 0..allocas]
      /\ loc \in Location /\ val \in Value /\ nulls \in BOOLEAN /\ doubled \in BOOLEAN
      /\ Depth \in Nat
  BY StackFacts, TopFacts DEF ShapeInv
<1>2. /\ phase' = "bind" /\ allocas' = allocas + 1 /\ cfg' = g
      /\ named' = [named EXCEPT ![Top.names[k]] = allocas + 1]
      /\ stack' = Append(Rest, f) /\ Creates(n, loc, Depth)
      /\ UNCHANGED <<val, nulls, cur, loc, args, result, nodes, doubled>>
  BY DEF Bind, SameBody
<1>3. /\ Top \in Frame /\ Top.own \in Seq(1..allocas) /\ Top.old \in Seq(0..allocas)
      /\ Len(Top.old) = Len(Top.own) /\ Top.names \in Seq(Var)
      /\ Len(Top.own) \in Nat /\ Len(Top.names) \in Nat
  <2>1. /\ Top \in Frame /\ Top.own \in Seq(1..allocas) /\ Top.old \in Seq(0..allocas)
        /\ Len(Top.old) = Len(Top.own)
    BY <1>1 DEF FrameOK, Shape
  <2>2. Top.names \in Seq(Var)
    BY <2>1 DEF Frame
  <2> QED
    BY <2>1, <2>2, LenProperties
<1>4. Top.names[k] \in Var /\ named[Top.names[k]] \in 0..allocas
  <2>1. k \in 1..Len(Top.names)
    BY <1>3
  <2>2. Top.names[k] \in Var
    BY <1>3, <2>1, ElementOfSeq
  <2> QED
    BY <1>1, <2>2
<1>5. named' \in [Var -> 0..allocas + 1]
  <2>1. 0..allocas \subseteq 0..allocas + 1 /\ allocas + 1 \in 0..allocas + 1
    BY <1>1
  <2> QED
    BY <1>1, <1>2, <1>4, <2>1
<1>6. PICK ow \in Seq(1..allocas + 1) :
        ow = Append(Top.own, allocas + 1) /\ Len(ow) = Len(Top.own) + 1 /\ ow \in Seq(Nat)
  <2>1. /\ 1..allocas \subseteq 1..allocas + 1 /\ allocas + 1 \in 1..allocas + 1
        /\ 1..allocas + 1 \subseteq Nat /\ 1 \in 1..allocas + 1
    BY <1>1
  <2>2. Top.own \in Seq(1..allocas + 1)
    <3>1. Seq(1..allocas) \subseteq Seq(1..allocas + 1)
      BY <2>1, SeqMono, Zenon
    <3> QED
      BY <1>3, <3>1, Zenon
  <2>3. /\ Append(Top.own, allocas + 1) \in Seq(1..allocas + 1)
        /\ Len(Append(Top.own, allocas + 1)) = Len(Top.own) + 1
    BY <2>1, <2>2, AppendProperties
  <2>4. Append(Top.own, allocas + 1) \in Seq(Nat)
    BY <2>1, <2>3, Tuples
  <2> QED
    BY <2>3, <2>4
<1>7. PICK ol \in Seq(0..allocas + 1) :
        ol = Append(Top.old, named[Top.names[k]]) /\ Len(ol) = Len(Top.own) + 1 /\ ol \in Seq(Nat)
  <2>1. /\ 0..allocas \subseteq 0..allocas + 1 /\ 0..allocas + 1 \subseteq Nat
        /\ 0 \in 0..allocas + 1
    BY <1>1
  <2>2. Top.old \in Seq(0..allocas + 1) /\ named[Top.names[k]] \in 0..allocas + 1
    <3>1. Seq(0..allocas) \subseteq Seq(0..allocas + 1)
      BY <2>1, SeqMono, Zenon
    <3> QED
      BY <1>3, <1>4, <2>1, <3>1, Zenon
  <2>3. /\ Append(Top.old, named[Top.names[k]]) \in Seq(0..allocas + 1)
        /\ Len(Append(Top.old, named[Top.names[k]])) = Len(Top.own) + 1
    BY <1>3, <2>2, AppendProperties
  <2>4. Append(Top.old, named[Top.names[k]]) \in Seq(Nat)
    <3>1. Seq(0..allocas + 1) \subseteq Seq(Nat)
      BY <2>1, SeqMono, Zenon
    <3> QED
      BY <2>3, <3>1, Zenon
  <2> QED
    BY <2>3, <2>4
<1>8. /\ f \in Frame /\ f.node = Top.node /\ f.step = Top.step /\ f.names = Top.names
      /\ f.own = ow /\ f.old = ol /\ f.blocks = Top.blocks
      /\ f.want = Top.want /\ f.vals = Top.vals
  <2>1. f = [Top EXCEPT !.own = ow, !.old = ol]
    BY <1>3, <1>6, <1>7 DEF Frame
  <2> HIDE DEF f
  <2> QED
    BY <1>3, <1>6, <1>7, <2>1 DEF Frame
<1>9. allocas + 1 \in Nat /\ allocas <= allocas + 1 /\ Size <= Size
  BY <1>1
<1>10. FrameOK(f, allocas + 1, Size)
  <2> HIDE DEF f
  <2>1. Shape(f)
    <3>1. Len(ol) = Len(ow) /\ Len(ow) <= Len(Top.names)
      BY <1>3, <1>6, <1>7
    <3> QED
      BY <1>8, <3>1 DEF Shape
  <2> QED
    BY <1>1, <1>6, <1>7, <1>8, <2>1 DEF FrameOK
<1> HIDE DEF f
<1>11. Frames(Rest, allocas + 1, Size)
  BY <1>1, <1>9, FramesGrow
<1>12. /\ Frames(Append(Rest, f), allocas + 1, Size)
       /\ Append(Rest, f) # <<>> /\ AllButLast(Append(Rest, f)) = Rest
       /\ Len(Append(Rest, f)) = Len(Rest) + 1
       /\ Append(Rest, f)[Len(Rest) + 1] = f
  BY <1>1, <1>8, <1>10, <1>11, FramesPush, PushFacts
<1>13. /\ Len(Append(Rest, f)) = Len(stack) /\ Append(Rest, f)[Len(Append(Rest, f))] = f
  BY <1>1, <1>12
<1>14. GraphOK(g) /\ Len(g.terms) = Size
  <2>1. \A w \in {x} : ValueOK(w, Size)
    OBVIOUS
  <2> QED
    BY <1>1, <2>1, WithUsesFacts DEF Size
<1>15. line' \in Line /\ loc' \in Location
  BY <1>1, <1>2, LineFacts DEF Node
<1>16. "bind" \in {"visit", "return", "bind"} /\ "bind" # "return"
  OBVIOUS
<1>17. PICK m \in [Var -> 0..allocas + 1] : named' = m
  BY <1>5
<1>18. PICK s : s = Append(Rest, f)
  OBVIOUS
<1>19. /\ Frames(s, allocas + 1, Size) /\ s # <<>> /\ AllWait(AllButLast(s)) /\ Len(s) <= nodes
       /\ s[Len(s)].node = "var" /\ s[Len(s)].step = "init" /\ stack' = s
  BY <1>1, <1>2, <1>8, <1>12, <1>13, <1>18
<1>20. nulls' \in BOOLEAN /\ doubled' \in BOOLEAN /\ UNCHANGED <<args, result>>
  BY <1>1, <1>2
<1> HIDE DEF g
<1> QED
  BY <1>1, <1>2, <1>9, <1>14, <1>15, <1>16, <1>17, <1>19, <1>20, Keeps

LEMMA VarNextShape == ASSUME ShapeInv, VarNext PROVE ShapeInv'
<1>1. /\ phase = "bind" /\ Len(Top.own) < Len(Top.names)
      /\ stack # <<>> /\ Top.node = "var" /\ Top.step = "init"
  BY DEF VarNext, ShapeInv
<1>2. /\ Len(stack) \in Nat \ {0} /\ Size \in Nat /\ FrameOK(Top, allocas, Size)
      /\ Len(Rest) = Len(stack) - 1 /\ AllWait(Rest) /\ stack \in Seq(Frame)
  BY <1>1, StackFacts, TopFacts
<1>3. CASE Bind(Const, "default")
  <2>1. ValueOK(Const, Size)
    BY <1>2 DEF ValueOK, Const, Value
  <2> QED
    BY <1>1, <1>3, <2>1, BindShape
<1>4. CASE /\ phase' = "visit"
           /\ UNCHANGED <<val, nulls, stack, loc>>
           /\ SameCode
           /\ SameBody
  <2>1. AllWait(stack)
    <3>1. Waits(Top)
      BY <1>1 DEF Waits
    <3>2. \A i \in 1..Len(stack) - 1 : Rest[i] = stack[i]
      BY <1>1, <1>2, PopFacts DEF Rest, AllButLast
    <3>3. \A i \in 1..Len(stack) : i \in 1..Len(stack) - 1 \/ i = Len(stack)
      BY <1>2
    <3> QED
      BY <1>2, <3>1, <3>2, <3>3 DEF AllWait, Top
  <2>2. /\ Frames(stack, allocas, Size) /\ Len(stack) <= nodes /\ nodes \in 0..MaxNodes
        /\ GraphOK(cfg) /\ cur \in 1..Size /\ named \in [Var -> 0..allocas] /\ allocas \in Nat
        /\ loc \in Location /\ val \in Value /\ nulls \in BOOLEAN /\ doubled \in BOOLEAN
    BY DEF ShapeInv
  <2>3. /\ UNCHANGED <<cfg, cur, named, allocas, args, result, nodes, doubled>> /\ line' = NoLine
    BY <1>4 DEF SameCode, SameBody, NoCode
  <2>4. line' \in Line
    BY <2>3, LocationFacts
  <2>5. "visit" \in {"visit", "return", "bind"} /\ "visit" # "return" /\ "visit" # "bind"
    OBVIOUS
  <2> QED
    BY <1>4, <2>1, <2>2, <2>3, <2>4, <2>5, Keeps DEF Size
<1> QED
  BY <1>3, <1>4 DEF VarNext

LEMMA VarInitShape == ASSUME ShapeInv, VarInit PROVE ShapeInv'
<1>1. /\ phase = "return" /\ stack # <<>> /\ Top.node = "var" /\ Top.step = "init"
      /\ Bind(val, "var")
  BY DEF VarInit, Got
<1>2. Len(Top.own) < Len(Top.names) /\ ValueOK(val, Size)
  BY <1>1, GotFacts DEF Waits
<1> QED
  BY <1>1, <1>2, BindShape

LEMMA VarBodyShape == ASSUME ShapeInv, VarBody PROVE ShapeInv'
<1> DEFINE f == [Top EXCEPT !.step = "body"]
<1>1. /\ phase = "bind" /\ Len(Top.own) = Len(Top.names)
      /\ stack # <<>> /\ Top.node = "var" /\ Top.step = "init" /\ Continue(f)
      /\ loc' = AtNode(Depth)
      /\ UNCHANGED <<cfg, cur, named, allocas, args, result, nodes, doubled>> /\ line' = NoLine
  BY DEF VarBody, ShapeInv, SameCode, SameBody, NoCode
<1>2. /\ Size \in Nat /\ FrameOK(Top, allocas, Size) /\ Size <= Size
      /\ GraphOK(cfg) /\ cur \in 1..Size /\ named \in [Var -> 0..allocas]
      /\ Depth \in 0..MaxNodes + 1
  BY <1>1, StackFacts, TopFacts DEF ShapeInv
<1>3. Top \in Frame /\ "body" \in Step
  BY <1>2 DEF FrameOK, Step
<1>4. /\ f \in Frame /\ f.node = Top.node /\ f.step = "body" /\ f.names = Top.names
      /\ f.own = Top.own /\ f.old = Top.old /\ f.blocks = Top.blocks
      /\ f.want = Top.want /\ f.vals = Top.vals
  BY <1>3 DEF Frame
<1> HIDE DEF f
<1>5. Shape(f) /\ Waits(f)
  BY <1>1, <1>2, <1>4 DEF FrameOK, Shape, Waits
<1>6. FrameOK(f, allocas, Size)
  BY <1>2, <1>4, <1>5 DEF FrameOK
<1>7. loc' \in Location /\ line' \in Line
  BY <1>1, <1>2, LocationFacts
<1> QED
  BY <1>1, <1>2, <1>5, <1>6, <1>7, ContinueKeeps DEF Size

LEMMA VarDoneShape == ASSUME ShapeInv, VarDone PROVE ShapeInv'
<1>1. /\ phase = "return" /\ stack # <<>> /\ Top.node = "var" /\ Top.step = "body"
      /\ named' = Restored(Top) /\ Leave(val) /\ NoCode
      /\ doubled' = (doubled \/ Repeats(Top.names))
      /\ UNCHANGED <<cfg, cur, allocas, args, result, nodes>>
  BY DEF VarDone, Got, NoCode
<1>2. /\ FrameOK(Top, allocas, Size) /\ ValueOK(val, Size) /\ doubled' \in BOOLEAN
  BY <1>1, GotFacts
<1>3. /\ Top \in Frame /\ Top.old \in Seq(0..allocas) /\ Len(Top.names) = Len(Top.old)
  BY <1>1, <1>2 DEF FrameOK, Shape
<1>4. named' \in [Var -> 0..allocas]
  BY <1>1, <1>3, RestoredFacts
<1> QED
  BY <1>1, <1>2, <1>4, GotFacts, LeaveShape DEF Size

-----------------------------------------------------------------------------
LEMMA EntryFacts == GraphOK(EntryOnly) /\ Len(EntryOnly.terms) = 1 /\ EntryOnly.terms[1] = 0
<1>1. /\ EntryOnly.terms = <<0>> /\ EntryOnly.edges = {} /\ EntryOnly.uses = {}
      /\ EntryOnly.phis = {} /\ EntryOnly \in Graph
  BY DEF EntryOnly, Graph
<1> QED
  BY <1>1 DEF GraphOK

LEMMA ArgumentsFacts ==
    ASSUME NEW ps \in Seq(Var)
    PROVE  /\ Len(ps) \in Nat
           /\ Arguments(ps) \in [Var -> 0..Len(ps)]
<1>1. Len(ps) \in Nat /\ DOMAIN ps = 1..Len(ps)
  BY LenProperties
<1>2. \A x : Position(ps, x) \in 0..Len(ps)
  BY <1>1 DEF Position
<1> QED
  BY <1>1, <1>2 DEF Arguments

LEMMA EmptyStack ==
    ASSUME NEW a, NEW b
    PROVE  Frames(<<>>, a, b) /\ AllWait(<<>>)
BY DEF Frames, AllWait

LEMMA InitShape == Init => ShapeInv
<1> SUFFICES ASSUME Init PROVE ShapeInv
  OBVIOUS
<1>1. /\ phase = "idle" /\ val = Const /\ stack = <<>> /\ named = Arguments(<<>>)
      /\ allocas = 0 /\ cur = 1 /\ cfg = EntryOnly /\ args = <<>> /\ loc = Nowhere
      /\ line = NoLine /\ result = "none" /\ nodes = 0 /\ nulls = FALSE /\ doubled = FALSE
  BY DEF Init
<1>2. <<>> \in Seq(Var) /\ Len(<<>>) = 0
  OBVIOUS
<1>3. named \in [Var -> 0..allocas]
  BY <1>1, <1>2, ArgumentsFacts
<1>4. GraphOK(cfg) /\ cur \in 1..Size
  BY <1>1, EntryFacts DEF Size
<1>5. loc \in Location /\ line \in Line /\ val \in Value /\ nodes \in 0..MaxNodes
  BY <1>1, LoweringAssumption DEF Nowhere, NoLine, Location, Line, Const, Value
<1>6. Frames(stack, allocas, Size) /\ AllWait(stack) /\ Len(stack) <= nodes
  BY <1>1, <1>2, EmptyStack
<1> QED
  BY <1>1, <1>2, <1>3, <1>4, <1>5, <1>6 DEF ShapeInv

LEMMA BeginShape ==
    ASSUME ShapeInv, NEW ps \in ArgLists, Begin(ps)
    PROVE  ShapeInv'
<1>1. /\ phase = "idle" /\ phase' = "visit" /\ named' = Arguments(ps) /\ allocas' = Len(ps)
      /\ cur' = 1 /\ cfg' = EntryOnly /\ args' = ps /\ loc' = AtNode(1)
      /\ result' = "none" /\ nodes' = 0 /\ nulls' = FALSE /\ doubled' = FALSE
      /\ val' = val /\ stack' = stack /\ stack = <<>>
      /\ line' = NoLine \/ Creates("argument", Nowhere, 0)
  BY DEF Begin, Forgotten, ShapeInv
<1>2. ps \in Seq(Var) /\ Len(ps) \in Nat /\ Arguments(ps) \in [Var -> 0..Len(ps)]
  BY LoweringAssumption, ArgumentsFacts
<1>3. loc' \in Location /\ line' \in Line
  <2>1. 1 \in 0..MaxNodes + 1
    BY LoweringAssumption
  <2> QED
    BY <1>1, <2>1, LocationFacts, LineFacts
<1>4. GraphOK(EntryOnly) /\ 1 \in 1..Len(EntryOnly.terms)
  BY EntryFacts
<1>5. Frames(<<>>, Len(ps), Len(EntryOnly.terms)) /\ AllWait(<<>>) /\ Len(<<>>) = 0
  BY EmptyStack
<1>6. 0 \in 0..MaxNodes /\ val \in Value
  BY LoweringAssumption DEF ShapeInv
<1>7. (Size = Len(cfg.terms))' /\ "visit" \in {"idle", "visit", "return", "bind"}
      /\ "none" \in {"none", "ok", "failed"}
  BY DEF Size
<1>8. GraphOK(cfg') /\ cur' \in 1..Size' /\ named' \in [Var -> 0..allocas'] /\ allocas' \in Nat
  BY <1>1, <1>2, <1>4, <1>7
<1>9. Frames(stack', allocas', Size') /\ AllWait(stack') /\ Len(stack') <= nodes'
  BY <1>1, <1>5, <1>7
<1>10. /\ phase' # "idle" /\ phase' # "bind" /\ phase' # "return"
       /\ nulls' \in BOOLEAN /\ doubled' \in BOOLEAN /\ nodes' \in 0..MaxNodes /\ val' \in Value
  BY <1>1, <1>6
<1> QED
  BY <1>1, <1>2, <1>3, <1>7, <1>8, <1>9, <1>10 DEF ShapeInv

LEMMA FinishShape == ASSUME ShapeInv, Finish PROVE ShapeInv'
<1>1. /\ phase = "return" /\ stack = <<>> /\ phase' = "idle"
      /\ loc' = [Nowhere EXCEPT !.of = "earlier"]
      /\ UNCHANGED <<val, stack, named, allocas, cur, args, nodes, nulls, doubled>>
      /\ result' \in {"ok", "failed"}
      /\ cfg' = cfg \/ cfg' = WithBranch(WithUses(cfg, cur, {val}), cur, {})
      /\ line' = NoLine \/ Creates("function", loc, 0)
  BY DEF Finish
<1>2. /\ ValueOK(val, Size) /\ GraphOK(cfg) /\ cur \in 1..Size /\ loc \in Location
  BY <1>1 DEF ShapeInv
<1>3. GraphOK(cfg') /\ Size' = Size
  <2> DEFINE u == WithUses(cfg, cur, {val})
  <2>1. GraphOK(u) /\ u.terms = cfg.terms
    BY <1>2, WithUsesFacts DEF Size
  <2> HIDE DEF u
  <2>2. GraphOK(WithBranch(u, cur, {})) /\ Len(WithBranch(u, cur, {}).terms) = Size
    BY <1>2, <2>1, WithBranchFacts DEF Size
  <2> QED
    BY <1>1, <1>2, <2>2 DEF Size, u
<1>4. loc' \in Location /\ line' \in Line
  <2>1. loc' \in Location
    <3>1. loc' = [of |-> "earlier", depth |-> 0, own |-> FALSE]
      BY <1>1 DEF Nowhere
    <3>2. 0 \in 0..MaxNodes + 1
      BY LoweringAssumption
    <3> QED
      BY <3>1, <3>2 DEF Location
  <2> QED
    BY <1>1, <1>2, <2>1, LocationFacts, LineFacts
<1> QED
  BY <1>1, <1>3, <1>4 DEF ShapeInv

LEMMA ShapeStep == ShapeInv /\ [Next]_vars => ShapeInv'
<1> SUFFICES ASSUME ShapeInv, [Next]_vars PROVE ShapeInv'
  OBVIOUS
<1>1. CASE \E ps \in ArgLists : Begin(ps)
  BY <1>1, BeginShape
<1>2. CASE Visit
  BY <1>2, VisitNumberShape, VisitUnaryShape, VisitBinaryShape, VisitIfShape,
     VisitVariableShape, VisitAssignShape, VisitForShape, VisitCallShape, VisitVarShape
     DEF Visit
<1>3. CASE Resume
  BY <1>3, PartFailsShape, AssignDoneShape, UnaryDoneShape, NextOperandShape,
     LastOperandShape, IfCondShape, IfThenShape, IfElseShape, ForStartShape, ForBodyShape,
     ForStepShape, ForEndShape, VarNextShape, VarInitShape, VarBodyShape, VarDoneShape
     DEF Resume
<1>4. CASE Finish
  BY <1>4, FinishShape
<1>5. CASE UNCHANGED vars
  BY <1>5 DEF vars, ShapeInv, Size, Rest, Top
<1> QED
  BY <1>1, <1>2, <1>3, <1>4, <1>5 DEF Next

\* Every visit that waits holds what its next step needs.
THEOREM ShapeHolds == Spec => []ShapeInv
BY InitShape, ShapeStep, PTL DEF Spec

\* The state of the visitor keeps its type: every block, every alloca and every name it
\* reaches for is there.
THEOREM LoweringTypeCorrect == Spec => []LoweringTypeOK
<1>1. ASSUME ShapeInv PROVE LoweringTypeOK
  <2>1. cfg.terms \in Seq(Nat) /\ Blocks = 1..Size
    BY <1>1, LenProperties DEF ShapeInv, GraphOK, Graph, Blocks, Size
  <2> QED
    BY <1>1, <2>1 DEF ShapeInv, GraphOK, Frames, LoweringTypeOK, Size
<1> QED
  BY <1>1, ShapeHolds, PTL

-----------------------------------------------------------------------------
\* The stack is the visits around the innermost one and that one.
LEMMA SplitFacts ==
    ASSUME ShapeInv, stack # <<>>
    PROVE  /\ stack = Append(Rest, Top)
           /\ stack \in Seq(Frame) /\ Rest \in Seq(Frame) /\ Top \in Frame
<1>1. stack \in Seq(Frame) /\ Top \in Frame /\ Rest \in Seq(Frame)
  BY StackFacts, TopFacts DEF FrameOK
<1>2. /\ Len(Rest) = Len(stack) - 1 /\ Len(stack) \in Nat \ {0}
      /\ \A i \in 1..Len(stack) - 1 : Rest[i] = stack[i]
  BY <1>1, PopFacts DEF AllButLast, Rest
<1>3. /\ Append(Rest, Top) \in Seq(Frame) /\ Len(Append(Rest, Top)) = Len(stack)
      /\ \A i \in 1..Len(stack) - 1 : Append(Rest, Top)[i] = stack[i]
      /\ Append(Rest, Top)[Len(stack)] = Top
  BY <1>1, <1>2, PushFacts
<1>4. \A i \in 1..Len(stack) : Append(Rest, Top)[i] = stack[i]
  <2>1. \A i \in 1..Len(stack) : i \in 1..Len(stack) - 1 \/ i = Len(stack)
    BY <1>2
  <2> QED
    BY <1>3, <2>1 DEF Top
<1>5. Append(Rest, Top) = stack
  BY <1>1, <1>3, <1>4, SeqEqual
<1> QED
  BY <1>1, <1>5

\* A visit that begins has nothing yet; most others end at once.
Fresh(f) == /\ f \in Frame /\ f.vals = {} /\ f.blocks = <<>> /\ f.old = <<>>
            /\ f.node = "if" => f.step = "cond"
            /\ f.node = "for" <=> f.step = "start"
            /\ f.node # "for" => f.own = <<>>
            /\ f.node = "var" => f.step = "init"

Begins(f) == /\ Fresh(f) /\ Enter(f) /\ UNCHANGED named /\ NoCode
             /\ allocas' \in Nat /\ allocas <= allocas'

Ends(n, v) == /\ n \in {"number", "variable", "call"} /\ v \in {Null, Const, In(cur)}
              /\ phase = "visit" /\ Return(v)
              /\ UNCHANGED <<stack, named, allocas, cur, cfg>> /\ SameBody
              /\ \/ line' = NoLine
                 \/ n # "number" /\ v.ok /\ Creates(n, AtNode(Depth + 1), Depth + 1)
              /\ \/ loc' = Within(AtNode(Depth + 1), Depth)
                 \/ n = "variable" /\ ~v.ok /\ loc' = loc

LEMMA VisitCases ==
    ASSUME ShapeInv, Visit
    PROVE  (\E f : Begins(f)) \/ (\E n, v : Ends(n, v))
<1>1. /\ Null \in {Null, Const, In(cur)} /\ Const \in {Null, Const, In(cur)}
      /\ In(cur) \in {Null, Const, In(cur)}
      /\ ~Null.ok /\ Const.ok /\ In(cur).ok
  BY DEF Null, Const, In
<1>2. \A n \in {"number", "variable", "call"} : OnEntry(n) = AtNode(Depth + 1)
  BY DEF OnEntry
<1>3. allocas \in Nat /\ allocas <= allocas /\ allocas + 1 \in Nat /\ allocas <= allocas + 1
  BY StackFacts
<1>4. ASSUME NEW n \in Node, NEW t \in Step
      PROVE  /\ NewFrame(n, t) \in Frame
             /\ NewFrame(n, t).node = n /\ NewFrame(n, t).step = t
             /\ NewFrame(n, t).own = <<>> /\ NewFrame(n, t).old = <<>>
             /\ NewFrame(n, t).blocks = <<>> /\ NewFrame(n, t).vals = {}
  BY NewFrameFacts
<1>5. CASE VisitNumber
  <2>1. Ends("number", Const)
    BY <1>1, <1>2, <1>5 DEF Ends, VisitNumber, SameCode, NoCode
  <2> QED
    BY <2>1
<1>6. CASE VisitUnary
  <2> DEFINE f == NewFrame("unary", "operand")
  <2>1. Fresh(f)
    BY <1>4 DEF Fresh, Node, Step
  <2>2. Begins(f)
    BY <1>3, <1>6, <2>1 DEF Begins, VisitUnary, SameCode
  <2> QED
    BY <2>2
<1>7. CASE VisitBinary
  <2>1. PICK b : b = NewFrame("binary", "operand")
    OBVIOUS
  <2> DEFINE f == [b EXCEPT !.want = 2]
  <2>2. /\ b \in Frame /\ b.node = "binary" /\ b.step = "operand" /\ b.own = <<>> /\ b.old = <<>>
        /\ b.blocks = <<>> /\ b.vals = {}
    BY <1>4, <2>1 DEF Node, Step
  <2>3. Fresh(f)
    BY <2>2 DEF Fresh, Frame
  <2>4. Begins(f)
    BY <1>3, <1>7, <2>1, <2>3 DEF Begins, VisitBinary, SameCode
  <2> QED
    BY <2>4
<1>8. CASE VisitIf
  <2> DEFINE f == NewFrame("if", "cond")
  <2>1. Fresh(f)
    BY <1>4 DEF Fresh, Node, Step
  <2>2. Begins(f)
    BY <1>3, <1>8, <2>1 DEF Begins, VisitIf, SameCode
  <2> QED
    BY <2>2
<1>9. ASSUME NEW v \in Var, VisitVariable(v) PROVE \E n, x : Ends(n, x)
  <2>1. Ends("variable", Null) \/ Ends("variable", In(cur))
    BY <1>1, <1>2, <1>9 DEF Ends, VisitVariable, SameNames, NoCode
  <2> QED
    BY <2>1
<1>10. ASSUME NEW v \in Var, VisitAssign(v) PROVE \E f : Begins(f)
  <2>1. PICK b : b = NewFrame("assign", "operand")
    OBVIOUS
  <2>2. PICK ns : ns = <<v>>
    OBVIOUS
  <2> DEFINE f == [b EXCEPT !.names = ns]
  <2>3. /\ b \in Frame /\ b.node = "assign" /\ b.step = "operand" /\ b.own = <<>> /\ b.old = <<>>
        /\ b.blocks = <<>> /\ b.vals = {} /\ ns \in Seq(Var)
    BY <1>4, <2>1, <2>2, Tuples DEF Node, Step
  <2>4. Fresh(f)
    BY <2>3 DEF Fresh, Frame
  <2>5. Begins(f)
    BY <1>3, <1>10, <2>1, <2>2, <2>4 DEF Begins, VisitAssign, SameCode
  <2> QED
    BY <2>5
<1>11. ASSUME NEW v \in Var, VisitFor(v) PROVE \E f : Begins(f)
  <2>1. PICK b : b = NewFrame("for", "start")
    OBVIOUS
  <2>2. PICK ns, o : ns = <<v>> /\ o = <<allocas + 1>>
    OBVIOUS
  <2> DEFINE f == [b EXCEPT !.names = ns, !.own = o]
  <2>3. /\ b \in Frame /\ b.node = "for" /\ b.step = "start" /\ b.old = <<>>
        /\ b.blocks = <<>> /\ b.vals = {} /\ ns \in Seq(Var) /\ o \in Seq(Nat)
    BY <1>3, <1>4, <2>1, <2>2, Tuples DEF Node, Step
  <2>4. Fresh(f)
    BY <2>3 DEF Fresh, Frame
  <2>5. Begins(f)
    BY <1>3, <1>11, <2>1, <2>2, <2>4 DEF Begins, VisitFor
  <2> QED
    BY <2>5
<1>12. ASSUME NEW k \in Operands, VisitCall(k) PROVE (\E f : Begins(f)) \/ (\E n, v : Ends(n, v))
  <2>1. PICK b : b = NewFrame("call", "operand")
    OBVIOUS
  <2> DEFINE f == [b EXCEPT !.want = k]
  <2>2. /\ b \in Frame /\ b.node = "call" /\ b.step = "operand" /\ b.own = <<>> /\ b.old = <<>>
        /\ b.blocks = <<>> /\ b.vals = {} /\ k \in Nat
    BY <1>4, <2>1, LoweringAssumption DEF Node, Step
  <2>3. Fresh(f)
    BY <2>2 DEF Fresh, Frame
  <2>4. CASE Enter(f) /\ SameCode
    <3>1. Begins(f)
      BY <1>3, <2>3, <2>4 DEF Begins, SameCode
    <3> QED
      BY <3>1
  <2>5. CASE /\ phase = "visit"
             /\ \/ Return(Null) /\ NoCode
                \/ /\ Return(In(cur)) /\ Creates("call", OnEntry("call"), Depth + 1)
                   /\ UNCHANGED <<cur, cfg>>
             /\ loc' = Within(OnEntry("call"), Depth)
             /\ UNCHANGED stack
             /\ SameNames
             /\ SameBody
    <3>1. Ends("call", Null) \/ Ends("call", In(cur))
      BY <1>1, <1>2, <2>5 DEF Ends, SameNames, NoCode
    <3> QED
      BY <3>1
  <2> QED
    BY <1>12, <2>1, <2>4, <2>5 DEF VisitCall
<1>13. ASSUME NEW ns \in VarLists, VisitVar(ns) PROVE \E f : Begins(f)
  <2>1. PICK b : b = NewFrame("var", "init")
    OBVIOUS
  <2> DEFINE f == [b EXCEPT !.names = ns]
  <2>2. /\ b \in Frame /\ b.node = "var" /\ b.step = "init" /\ b.own = <<>> /\ b.old = <<>>
        /\ b.blocks = <<>> /\ b.vals = {} /\ ns \in Seq(Var)
    BY <1>4, <2>1, LoweringAssumption DEF Node, Step
  <2>3. Fresh(f)
    BY <2>2 DEF Fresh, Frame
  <2>4. Begins(f)
    BY <1>3, <1>13, <2>1, <2>3 DEF Begins, VisitVar, SameCode
  <2> QED
    BY <2>4
<1> QED
  BY <1>5, <1>6, <1>7, <1>8, <1>9, <1>10, <1>11, <1>12, <1>13 DEF Visit

-----------------------------------------------------------------------------
\* A null is the value of the last visit or an operand of a binary operator that still
\* waits for its second one.
NullIn(s) == \E i \in DOMAIN s : Null \in s[i].vals

LEMMA NullPush ==
    ASSUME NEW s \in Seq(Frame), NEW f \in Frame
    PROVE  NullIn(Append(s, f)) <=> NullIn(s) \/ Null \in f.vals
<1> DEFINE t == Append(s, f)
<1>1. /\ Len(s) \in Nat /\ DOMAIN s = 1..Len(s) /\ DOMAIN t = 1..Len(s) + 1
      /\ t[Len(s) + 1] = f /\ \A i \in 1..Len(s) : t[i] = s[i]
  <2>1. t \in Seq(Frame) /\ Len(t) = Len(s) + 1
    BY PushFacts
  <2> QED
    BY <2>1, PushFacts, LenProperties
<1>2. Len(s) + 1 \in 1..Len(s) + 1 /\ \A i \in 1..Len(s) : i \in 1..Len(s) + 1
  BY <1>1
<1>3. \A i \in 1..Len(s) + 1 : i = Len(s) + 1 \/ i \in 1..Len(s)
  BY <1>1
<1> HIDE DEF t
<1>4. (\E i \in 1..Len(s) + 1 : Null \in t[i].vals) <=>
        (\E i \in 1..Len(s) : Null \in s[i].vals) \/ Null \in f.vals
  BY <1>1, <1>2, <1>3, Zenon
<1> QED
  BY <1>1, <1>4, Zenon DEF NullIn, t

LEMMA NullPop ==
    ASSUME ShapeInv, stack # <<>>
    PROVE  NullIn(stack) <=> NullIn(Rest) \/ Null \in Top.vals
BY SplitFacts, NullPush, Zenon

\* What a step has to show, in terms of what it leaves behind.
LEMMA NullKeeps ==
    ASSUME NullInv, phase # "idle", result' = result,
           NEW p \in {"visit", "bind"}, phase' = p, nulls' <=> NullIn(stack')
    PROVE  NullInv'
BY DEF NullInv, NullIn, FailureReachesTheTop

LEMMA NullReturns ==
    ASSUME NullInv, phase # "idle", result' = result, NEW v, Return(v),
           nulls \/ ~v.ok <=> ~v.ok \/ NullIn(stack')
    PROVE  NullInv'
BY DEF NullInv, NullIn, FailureReachesTheTop, Return

LEMMA NullEnter ==
    ASSUME ShapeInv, NullInv, NEW f \in Frame, f.vals = {}, Enter(f)
    PROVE  NullInv'
<1>1. /\ phase = "visit" /\ stack' = Append(stack, f) /\ nulls' = nulls /\ result' = result
  BY DEF Enter
<1>2. PICK p \in {"visit", "bind"} : phase' = p
  BY DEF Enter
<1>3. nulls <=> NullIn(stack)
  BY <1>1 DEF NullInv, NullIn
<1>4. stack \in Seq(Frame)
  BY StackFacts
<1>5. NullIn(stack') <=> NullIn(stack)
  BY <1>1, <1>4, NullPush
<1> QED
  BY <1>1, <1>2, <1>3, <1>5, NullKeeps

LEMMA NullStays ==
    ASSUME NullInv, phase = "visit", NEW v, Return(v), UNCHANGED <<stack, result>>
    PROVE  NullInv'
<1>1. nulls <=> NullIn(stack')
  BY DEF NullInv, NullIn
<1> QED
  BY <1>1, NullReturns

LEMMA NullLeaves ==
    ASSUME ShapeInv, NullInv, phase = "return", stack # <<>>, stack' = Rest, NEW v, Return(v),
           result' = result, ~val.ok \/ Null \in Top.vals => ~v.ok
    PROVE  NullInv'
<1>1. nulls <=> ~val.ok \/ NullIn(stack)
  BY DEF NullInv, NullIn
<1> QED
  BY <1>1, NullPop, NullReturns

LEMMA NullContinues ==
    ASSUME ShapeInv, NullInv, phase \in {"return", "bind"}, stack # <<>>, NEW f \in Frame,
           NEW p \in {"visit", "bind"}, phase' = p, stack' = Append(Rest, f),
           UNCHANGED <<nulls, result>>,
           Null \in f.vals <=> (phase = "return" /\ ~val.ok) \/ Null \in Top.vals
    PROVE  NullInv'
<1>1. nulls <=> (phase = "return" /\ ~val.ok) \/ NullIn(stack)
  BY DEF NullInv, NullIn
<1>2. NullIn(stack') <=> NullIn(Rest) \/ Null \in f.vals
  BY SplitFacts, NullPush
<1>3. phase # "idle"
  OBVIOUS
<1> QED
  BY <1>1, <1>2, <1>3, NullPop, NullKeeps

LEMMA NullVisit == ASSUME ShapeInv, NullInv, Visit PROVE NullInv'
<1>1. ASSUME NEW f, Begins(f) PROVE NullInv'
  BY <1>1, NullEnter DEF Begins, Fresh
<1>2. ASSUME NEW n, NEW v, Ends(n, v) PROVE NullInv'
  BY <1>2, NullStays DEF Ends, SameBody
<1> QED
  BY <1>1, <1>2, VisitCases

\* Who leaves, and with what.
LEMMA NullSome ==
    ASSUME ShapeInv, stack # <<>>
    PROVE  /\ Top \in Frame
           /\ Null \in Top.vals => Top.node = "binary"
           /\ phase = "return" /\ ~val.ok => val = Null
           /\ phase = "return" /\ val.ok => val # Null
           /\ ~Null.ok /\ Const.ok /\ Const # Null /\ \A b : In(b).ok /\ In(b) # Null
<1>1. FrameOK(Top, allocas, Size) /\ (phase = "return" => ValueOK(val, Size))
  BY TopFacts DEF ShapeInv
<1> QED
  BY <1>1 DEF FrameOK, ValueOK, Null, Const, In

LEMMA NullOperands == ASSUME ShapeInv, NullInv, NextOperand PROVE NullInv'
<1> DEFINE f == [Top EXCEPT !.want = @ - 1, !.vals = @ \cup {val}]
<1>1. /\ phase = "return" /\ stack # <<>> /\ Top.want > 1 /\ result' = result
      /\ phase' = "visit" /\ stack' = Append(Rest, f) /\ UNCHANGED nulls
  BY DEF NextOperand, Got, SameBody, Continue
<1>2. f \in Frame /\ f.vals = Top.vals \cup {val}
  <2>1. Top \in Frame /\ val \in Value /\ Top.want - 1 \in Nat
    <3>1. Top \in Frame /\ Top.want \in Nat
      BY <1>1, NullSome DEF Frame
    <3> QED
      BY <1>1, <3>1 DEF ShapeInv
  <2>2. PICK n, v : n = Top.want - 1 /\ v = Top.vals \cup {val}
    OBVIOUS
  <2>3. n \in Nat /\ v \in SUBSET Value
    BY <2>1, <2>2 DEF Frame
  <2>4. f = [Top EXCEPT !.want = n, !.vals = v]
    BY <2>2
  <2>5. f \in Frame /\ f.vals = v
    BY <2>1, <2>3, <2>4 DEF Frame
  <2> QED
    BY <2>2, <2>5, Zenon
<1> HIDE DEF f
<1>3. Null \in f.vals <=> ~val.ok \/ Null \in Top.vals
  BY <1>1, <1>2, NullSome
<1> QED
  BY <1>1, <1>2, <1>3, NullContinues

\* A visit that goes on with no null among what it keeps.
LEMMA NullGoesOn ==
    ASSUME ShapeInv, NullInv, stack # <<>>, NEW f, Continue(f), result' = result,
           f \in Frame, Null \notin f.vals, Top.node # "binary",
           (phase = "return" /\ val.ok) \/ phase = "bind"
    PROVE  NullInv'
<1>1. phase' = "visit" /\ stack' = Append(Rest, f) /\ UNCHANGED nulls
  BY DEF Continue
<1>2. Null \notin Top.vals
  BY NullSome
<1> QED
  BY <1>1, <1>2, NullContinues

LEMMA NullBind ==
    ASSUME ShapeInv, NullInv, stack # <<>>, NEW x, NEW n, Bind(x, n), Top.node = "var",
           Len(Top.own) < Len(Top.names),
           (phase = "return" /\ val.ok) \/ phase = "bind"
    PROVE  NullInv'
<1> DEFINE a == allocas + 1
           v == Top.names[Len(Top.own) + 1]
           f == [Top EXCEPT !.own = Append(@, a), !.old = Append(@, named[v])]
<1>1. /\ phase' = "bind" /\ stack' = Append(Rest, f) /\ UNCHANGED nulls /\ result' = result
  BY DEF Bind, SameBody
<1>2. f \in Frame /\ f.vals = Top.vals
  <2>1. Top \in Frame /\ a \in Nat /\ named[v] \in Nat
    <3>1. Top \in Frame /\ allocas \in Nat /\ named \in [Var -> 0..allocas]
      BY NullSome DEF ShapeInv
    <3>2. Top.names \in Seq(Var) /\ Len(Top.own) \in Nat /\ Len(Top.names) \in Nat
      BY <3>1, LenProperties DEF Frame
    <3>3. Len(Top.own) + 1 \in 1..Len(Top.names)
      BY <3>2
    <3>4. v \in Var
      BY <3>2, <3>3, ElementOfSeq
    <3> QED
      BY <3>1, <3>4
  <2> HIDE DEF a, v
  <2>2. PICK o, d : o = Append(Top.own, a) /\ d = Append(Top.old, named[v])
    OBVIOUS
  <2>3. o \in Seq(Nat) /\ d \in Seq(Nat)
    BY <2>1, <2>2 DEF Frame
  <2>4. f = [Top EXCEPT !.own = o, !.old = d]
    BY <2>1, <2>2 DEF Frame
  <2> HIDE DEF f
  <2> QED
    BY <2>1, <2>3, <2>4 DEF Frame
<1> HIDE DEF f
<1>3. Null \notin Top.vals
  BY NullSome
<1> QED
  BY <1>1, <1>2, <1>3, NullContinues

LEMMA NullResume == ASSUME ShapeInv, NullInv, Resume PROVE NullInv'
<1>1. CASE PartFails
  BY <1>1, NullLeaves, Zenon DEF PartFails, Leave, SameBody, Null
<1>2. CASE AssignDone
  BY <1>2, NullLeaves, NullSome DEF AssignDone, Got, Checks, Leave, SameBody
<1>3. CASE UnaryDone
  BY <1>3, NullLeaves, NullSome DEF UnaryDone, Got, Checks, Leave, SameBody
<1>4. CASE NextOperand
  BY <1>4, NullOperands
<1>5. CASE LastOperand
  <2>1. phase = "return" /\ stack # <<>> /\ result' = result
    BY <1>5 DEF LastOperand, Got, SameBody
  <2>2. CASE Leave(Null)
    BY <2>1, <2>2, NullLeaves, NullSome DEF Leave
  <2>3. CASE Leave(In(cur)) /\ Null \notin Top.vals \cup {val}
    BY <2>1, <2>3, NullLeaves, NullSome DEF Leave
  <2> QED
    BY <1>5, <2>2, <2>3 DEF LastOperand
<1>6. CASE IfCond
  <2> DEFINE B == <<NewBlock, NewBlock + 1, NewBlock + 2>>
             f == [Top EXCEPT !.step = "then", !.blocks = B]
  <2>1. /\ phase = "return" /\ stack # <<>> /\ result' = result /\ Top.node = "if" /\ val.ok
        /\ Continue(f)
    BY <1>6 DEF IfCond, Got, Checks, SameBody
  <2>2. B \in Seq(Nat)
    <3>1. NewBlock \in Nat /\ NewBlock + 1 \in Nat /\ NewBlock + 2 \in Nat
      BY StackFacts DEF NewBlock, Size
    <3> QED
      BY <3>1, Tuples
  <2> HIDE DEF B
  <2>3. f \in Frame /\ f.vals = Top.vals
    BY <2>1, <2>2, NullSome DEF Frame, Step
  <2> QED
    BY <2>1, <2>3, NullSome, NullGoesOn
<1>7. CASE IfThen
  <2> DEFINE B == [Top.blocks EXCEPT ![1] = WhereItEnds(@)]
             f == [Top EXCEPT !.step = "else", !.vals = {val}, !.blocks = B]
  <2>1. /\ phase = "return" /\ stack # <<>> /\ result' = result /\ Top.node = "if" /\ val.ok
        /\ Top.step = "then" /\ Top \in Frame /\ val \in Value
        /\ Continue([Top EXCEPT !.step = "else", !.vals = {val}, !.blocks[1] = WhereItEnds(@)])
    BY <1>7, NullSome DEF IfThen, Got, Checks, SameBody, ShapeInv
  <2>2. Continue(f)
    BY <2>1 DEF Frame
  <2>3. B \in Seq(Nat)
    <3>1. Top.blocks \in Seq(Nat) /\ Len(Top.blocks) = 3 /\ cur \in Nat
      BY <2>1, GotFacts DEF FrameOK, Shape, Frame
    <3>2. 1 \in 1..Len(Top.blocks)
      BY <3>1
    <3> QED
      BY <3>1, <3>2, ExceptSeq DEF WhereItEnds
  <2> HIDE DEF B
  <2>4. f \in Frame /\ f.vals = {val}
    BY <2>1, <2>3 DEF Frame, Step
  <2> QED
    BY <2>1, <2>2, <2>4, NullSome, NullGoesOn
<1>8. CASE IfElse
  BY <1>8, NullLeaves, NullSome DEF IfElse, Got, Checks, Leave, SameBody
<1>9. CASE ForStart
  <2> DEFINE B == <<NewBlock>>
             O == <<named[Top.names[1]]>>
             f == [Top EXCEPT !.step = "body", !.blocks = B, !.old = O]
  <2>1. /\ phase = "return" /\ stack # <<>> /\ result' = result /\ Top.node = "for" /\ val.ok
        /\ Top.step = "start" /\ Top \in Frame /\ Continue(f)
    BY <1>9, NullSome DEF ForStart, Got, Checks, SameBody
  <2>2. B \in Seq(Nat) /\ O \in Seq(Nat)
    <3>1. NewBlock \in Nat
      BY StackFacts DEF NewBlock, Size
    <3>2. Len(Top.names) = 1 /\ Top.names \in Seq(Var)
      BY <2>1, TopFacts DEF FrameOK, Shape, Frame
    <3>3. Top.names[1] \in Var
      BY <3>2, ElementOfSeq
    <3>4. named[Top.names[1]] \in Nat
      BY <3>3 DEF ShapeInv
    <3> QED
      BY <3>1, <3>4, Tuples
  <2> HIDE DEF B, O
  <2>3. f \in Frame /\ f.vals = Top.vals
    BY <2>1, <2>2 DEF Frame, Step
  <2> QED
    BY <2>1, <2>3, NullSome, NullGoesOn
<1>10. CASE ForBody
  <2>1. /\ phase = "return" /\ stack # <<>> /\ result' = result /\ Top.node = "for" /\ val.ok
        /\ Top \in Frame
    BY <1>10, NullSome DEF ForBody, Got, Checks, SameBody
  <2>2. CASE Continue([Top EXCEPT !.step = "step"])
    <3> DEFINE f == [Top EXCEPT !.step = "step"]
    <3>1. f \in Frame /\ f.vals = Top.vals
      BY <2>1 DEF Frame, Step
    <3> QED
      BY <2>1, <2>2, <3>1, NullSome, NullGoesOn
  <2>3. CASE Continue([Top EXCEPT !.step = "end", !.vals = {Const}])
    <3> DEFINE f == [Top EXCEPT !.step = "end", !.vals = {Const}]
    <3>1. {Const} \in SUBSET Value
      BY DEF Const, Value
    <3>2. f \in Frame /\ f.vals = {Const}
      BY <2>1, <3>1 DEF Frame, Step
    <3> QED
      BY <2>1, <2>3, <3>2, NullSome, NullGoesOn
  <2> QED
    BY <1>10, <2>2, <2>3 DEF ForBody
<1>11. CASE ForStep
  <2> DEFINE f == [Top EXCEPT !.step = "end", !.vals = {val}]
  <2>1. /\ phase = "return" /\ stack # <<>> /\ result' = result /\ Top.node = "for" /\ val.ok
        /\ Top \in Frame /\ val \in Value /\ Continue(f)
    BY <1>11, NullSome DEF ForStep, Got, Checks, SameBody, ShapeInv
  <2>2. f \in Frame /\ f.vals = {val}
    BY <2>1 DEF Frame, Step
  <2> QED
    BY <2>1, <2>2, NullSome, NullGoesOn
<1>12. CASE ForEnd
  BY <1>12, NullLeaves, NullSome DEF ForEnd, Got, Checks, Leave, SameBody
<1>13. CASE VarNext
  <2>1. stack # <<>> /\ Top.node = "var" /\ phase = "bind"
    BY <1>13 DEF VarNext, ShapeInv
  <2>2. CASE Bind(Const, "default")
    BY <1>13, <2>1, <2>2, NullBind DEF VarNext
  <2>3. CASE phase' = "visit" /\ UNCHANGED <<val, nulls, stack, loc>> /\ SameBody
    BY <2>1, <2>3, NullKeeps DEF SameBody, NullInv, NullIn
  <2> QED
    BY <1>13, <2>2, <2>3 DEF VarNext
<1>14. CASE VarInit
  <2>1. phase = "return" /\ stack # <<>> /\ Top.node = "var" /\ Top.step = "init" /\ val.ok
    BY <1>14 DEF VarInit, Got, Checks
  <2>2. Len(Top.own) < Len(Top.names)
    BY <2>1, GotFacts DEF Waits
  <2> QED
    BY <1>14, <2>1, <2>2, NullBind DEF VarInit
<1>15. CASE VarBody
  <2> DEFINE f == [Top EXCEPT !.step = "body"]
  <2>1. /\ phase = "bind" /\ stack # <<>> /\ result' = result /\ Top.node = "var"
        /\ Top \in Frame /\ Continue(f)
    BY <1>15, NullSome DEF VarBody, SameBody, ShapeInv
  <2>2. f \in Frame /\ f.vals = Top.vals
    BY <2>1 DEF Frame, Step
  <2> QED
    BY <2>1, <2>2, NullSome, NullGoesOn
<1>16. CASE VarDone
  BY <1>16, NullLeaves, NullSome DEF VarDone, Got, Checks, Leave
<1> QED
  BY <1>1, <1>2, <1>3, <1>4, <1>5, <1>6, <1>7, <1>8, <1>9, <1>10, <1>11, <1>12, <1>13, <1>14,
     <1>15, <1>16 DEF Resume

LEMMA NullStep == ShapeInv /\ NullInv /\ [Next]_vars => NullInv'
<1> SUFFICES ASSUME ShapeInv, NullInv, [Next]_vars PROVE NullInv'
  OBVIOUS
<1>1. ASSUME NEW ps \in ArgLists, Begin(ps) PROVE NullInv'
  <2>1. stack = <<>> /\ stack' = stack /\ phase' = "visit" /\ result' = "none" /\ nulls' = FALSE
    BY <1>1 DEF Begin, ShapeInv
  <2>2. DOMAIN stack' = {}
    BY <2>1
  <2> QED
    BY <2>1, <2>2 DEF NullInv, FailureReachesTheTop
<1>2. CASE Finish
  <2>1. /\ phase = "return" /\ stack = <<>> /\ phase' = "idle" /\ nulls' = nulls
        /\ IF val.ok THEN result' = "ok" ELSE result' = "failed"
    BY <1>2 DEF Finish
  <2>2. DOMAIN stack = {}
    BY <2>1
  <2>3. nulls <=> ~val.ok
    BY <2>1, <2>2 DEF NullInv
  <2> QED
    BY <2>1, <2>3 DEF NullInv, FailureReachesTheTop
<1>3. CASE UNCHANGED vars
  BY <1>3 DEF vars, NullInv, FailureReachesTheTop
<1> QED
  BY <1>1, <1>2, <1>3, NullVisit, NullResume DEF Next

\* A body is generated exactly if no part of it failed: whichever visit returned null, and
\* however many binary operators went on with their second operand behind it, the null
\* comes out at the top and nothing else makes the body fail.
THEOREM FailureAlwaysReachesTheTop == Spec => []FailureReachesTheTop
<1>1. Init => NullInv
  BY DEF Init, NullInv, FailureReachesTheTop
<1>2. NullInv => FailureReachesTheTop
  BY DEF NullInv
<1> QED
  BY <1>1, <1>2, NullStep, ShapeHolds, PTL DEF Spec

-----------------------------------------------------------------------------
\* What an instruction gets from a location in the function.
LEMMA CreatesFacts ==
    ASSUME NEW n, NEW l \in Location, l.of = "this", NEW d \in Nat, Creates(n, l, d)
    PROVE  /\ line'.of = n /\ line'.where \in {"outside", "inside", "own"}
           /\ d <= l.depth => line'.where \in {"inside", "own"}
<1>1. l.depth \in Nat
  BY LoweringAssumption DEF Location
<1>2. line' = [of |-> n, where |-> IF l.depth < d THEN "outside"
                                   ELSE IF l.depth = d /\ l.own THEN "own" ELSE "inside"]
  BY DEF Creates
<1> QED
  BY <1>1, <1>2

LEMMA WithinFacts ==
    ASSUME NEW l \in Location, l.of = "this", NEW d \in 0..MaxNodes + 1
    PROVE  /\ Within(l, d).of = "this"
           /\ d <= l.depth => Within(l, d).depth = d
<1>1. l.depth \in Nat /\ d \in Nat
  BY LoweringAssumption DEF Location
<1> QED
  BY <1>1 DEF Within, Location

\* What a step has to show for its instruction.
Placed == \/ line' = NoLine
          \/ \E n \in Node \cup {"variable", "function"}, l \in Location, d \in Nat :
               Creates(n, l, d) /\ l.of = "this" /\ d <= l.depth
          \/ \E l \in Location, d \in Nat : Creates("default", l, d) /\ l.of = "this"

LEMMA PlacedFacts == ASSUME Placed PROVE InstructionsAreWhereTheyBelong'
<1>1. CASE line' = NoLine
  BY <1>1 DEF NoLine, InstructionsAreWhereTheyBelong
<1>2. ASSUME NEW n \in Node \cup {"variable", "function"}, NEW l \in Location, NEW d \in Nat,
             Creates(n, l, d), l.of = "this", d <= l.depth
      PROVE  InstructionsAreWhereTheyBelong'
  <2>1. line'.of = n /\ line'.where \in {"inside", "own"}
    BY <1>2, CreatesFacts
  <2>2. n \notin {"none", "argument", "default"}
    BY DEF Node
  <2> QED
    BY <2>1, <2>2 DEF InstructionsAreWhereTheyBelong
<1>3. ASSUME NEW l \in Location, NEW d \in Nat, Creates("default", l, d), l.of = "this"
      PROVE  InstructionsAreWhereTheyBelong'
  <2>1. line'.of = "default" /\ line'.where \in {"outside", "inside", "own"}
    BY <1>3, CreatesFacts
  <2> QED
    BY <2>1 DEF InstructionsAreWhereTheyBelong
<1> QED
  BY <1>1, <1>2, <1>3 DEF Placed

LEMMA PlaceKeeps ==
    ASSUME PlaceInv, Placed, loc'.of = "this", phase' = "return" /\ val'.ok => loc'.depth = Depth'
    PROVE  PlaceInv'
BY PlacedFacts DEF PlaceInv

\* A visit that got a value has the location at its own depth.
LEMMA PlaceGot ==
    ASSUME ShapeInv, PlaceInv, phase = "return", stack # <<>>
    PROVE  /\ loc \in Location /\ loc.of = "this" /\ Depth \in Nat /\ Depth - 1 \in 0..MaxNodes + 1
           /\ Top.node \in Node
           /\ val.ok => loc.depth = Depth
           /\ Instruction /\ val.ok => Placed
           /\ NoCode => Placed
<1>1. /\ loc \in Location /\ loc.of = "this" /\ Depth \in Nat /\ Depth - 1 \in 0..MaxNodes + 1
      /\ val.ok => loc.depth = Depth
  BY GotFacts DEF PlaceInv
<1>2. Top.node \in Node
  BY GotFacts DEF FrameOK, Frame
<1>3. Depth <= Depth
  BY <1>1
<1>4. Instruction /\ val.ok => Placed
  BY <1>1, <1>2, <1>3 DEF Placed, Instruction
<1> QED
  BY <1>1, <1>2, <1>4 DEF Placed, NoCode

LEMMA PlaceLeaves ==
    ASSUME ShapeInv, PlaceInv, phase = "return", stack # <<>>, NEW v, Leave(v), v.ok => val.ok,
           Placed
    PROVE  PlaceInv'
<1>1. stack' = Rest /\ val' = v /\ phase' = "return" /\ loc' = Within(loc, Depth - 1)
  BY DEF Leave, Return
<1>2. Depth' = Depth - 1
  <2>1. Len(Rest) = Len(stack) - 1
    BY TopFacts
  <2> QED
    BY <1>1, <2>1 DEF Depth
<1>3. /\ loc \in Location /\ loc.of = "this" /\ Depth \in Nat /\ Depth - 1 \in 0..MaxNodes + 1
      /\ val.ok => loc.depth = Depth
  BY PlaceGot
<1>4. loc'.of = "this" /\ (val.ok => loc'.depth = Depth - 1)
  <2>1. Depth - 1 <= Depth
    BY <1>3
  <2> QED
    BY <1>1, <1>3, <2>1, WithinFacts
<1> QED
  BY <1>1, <1>2, <1>4, PlaceKeeps

LEMMA PlaceGoesOn ==
    ASSUME PlaceInv, phase # "idle", phase' # "return", Placed, UNCHANGED loc
    PROVE  PlaceInv'
BY PlaceKeeps DEF PlaceInv

LEMMA PlaceVisit == ASSUME ShapeInv, PlaceInv, Visit PROVE PlaceInv'
<1>1. /\ Depth \in Nat /\ Depth \in 0..MaxNodes + 1 /\ Depth + 1 \in 0..MaxNodes + 1
      /\ Depth + 1 \in Nat /\ Depth + 1 <= Depth + 1 /\ Depth <= Depth + 1
  <2>1. /\ Len(stack) \in Nat /\ Depth = Len(stack) /\ Len(stack) <= nodes /\ nodes \in Nat
        /\ nodes <= MaxNodes /\ MaxNodes \in Nat
    BY StackFacts
  <2> QED
    BY <2>1
<1>2. PICK l : l = AtNode(Depth + 1)
  OBVIOUS
<1>3. l \in Location /\ l.of = "this" /\ l.depth = Depth + 1
  BY <1>1, <1>2 DEF AtNode, Location
<1>4. ASSUME NEW f, Begins(f) PROVE PlaceInv'
  <2>1. /\ phase = "visit" /\ phase' \in {"visit", "bind"} /\ line' = NoLine
        /\ loc' = loc \/ loc' = l
    BY <1>2, <1>4 DEF Begins, Enter, NoCode, OnEntry
  <2>2. loc'.of = "this"
    BY <1>3, <2>1 DEF PlaceInv
  <2> QED
    BY <2>1, <2>2, PlaceKeeps DEF Placed
<1>5. ASSUME NEW n, NEW v, Ends(n, v) PROVE PlaceInv'
  <2>1. /\ phase = "visit" /\ val' = v /\ Depth' = Depth /\ n \in {"number", "variable", "call"}
        /\ line' = NoLine \/ (n # "number" /\ Creates(n, l, Depth + 1))
        /\ loc' = Within(l, Depth) \/ (~v.ok /\ loc' = loc)
    BY <1>2, <1>5 DEF Ends, Return, Depth
  <2>2. Placed
    <3>1. n # "number" => n \in Node \cup {"variable", "function"}
      BY <2>1 DEF Node
    <3>2. Depth + 1 <= l.depth
      BY <1>1, <1>3
    <3> QED
      BY <1>1, <1>3, <2>1, <3>1, <3>2 DEF Placed
  <2>3. Within(l, Depth).of = "this" /\ Within(l, Depth).depth = Depth
    BY <1>1, <1>3, WithinFacts
  <2> QED
    BY <2>1, <2>2, <2>3, PlaceKeeps DEF PlaceInv
<1> QED
  BY <1>4, <1>5, VisitCases

LEMMA PlaceBind ==
    ASSUME ShapeInv, PlaceInv, stack # <<>>, NEW x, NEW n \in {"default", "var"}, Bind(x, n),
           (phase = "bind" /\ n = "default") \/ (phase = "return" /\ val.ok)
    PROVE  PlaceInv'
<1>1. phase' = "bind" /\ Creates(n, loc, Depth) /\ UNCHANGED loc
  BY DEF Bind
<1>2. loc \in Location /\ loc.of = "this" /\ Depth \in Nat
  BY StackFacts DEF PlaceInv, ShapeInv
<1>3. n = "var" => n \in Node /\ Depth <= loc.depth
  BY <1>2, PlaceGot DEF Node
<1>4. Placed
  BY <1>1, <1>2, <1>3 DEF Placed
<1> QED
  BY <1>1, <1>4, PlaceGoesOn

LEMMA PlaceResume == ASSUME ShapeInv, PlaceInv, Resume PROVE PlaceInv'
<1>1. CASE PartFails
  BY <1>1, PlaceGot, PlaceLeaves DEF PartFails, SameCode, Null
<1>2. CASE AssignDone
  BY <1>2, PlaceGot, PlaceLeaves DEF AssignDone, Got, Checks, Null
<1>3. CASE UnaryDone
  <2>1. phase = "return" /\ stack # <<>> /\ val.ok
    BY <1>3 DEF UnaryDone, Got, Checks
  <2>2. CASE Leave(Null) /\ NoCode
    BY <2>1, <2>2, PlaceGot, PlaceLeaves
  <2>3. CASE /\ stack' = Rest
             /\ Return(In(cur))
             /\ Creates("unary", AtNode(Depth), Depth)
             /\ loc' = Within(AtNode(Depth), Depth - 1)
    <3>1. PICK l : l = AtNode(Depth)
      OBVIOUS
    <3>2. /\ Depth \in Nat /\ Depth \in 0..MaxNodes + 1 /\ Depth - 1 \in 0..MaxNodes + 1
          /\ Len(Rest) = Len(stack) - 1
      BY <2>1, GotFacts, TopFacts
    <3>3. l \in Location /\ l.of = "this" /\ l.depth = Depth
      BY <3>1, <3>2 DEF AtNode, Location
    <3>4. Depth <= l.depth /\ Depth - 1 <= l.depth
      BY <3>2, <3>3
    <3>5. Placed
      BY <2>3, <3>1, <3>2, <3>3, <3>4 DEF Placed, Node
    <3>6. loc'.of = "this" /\ loc'.depth = Depth - 1
      BY <2>3, <3>1, <3>2, <3>3, <3>4, WithinFacts
    <3>7. Depth' = Depth - 1
      BY <2>3, <3>2 DEF Depth
    <3> QED
      BY <3>5, <3>6, <3>7, PlaceKeeps
  <2> QED
    BY <1>3, <2>2, <2>3 DEF UnaryDone
<1>4. CASE NextOperand
  BY <1>4, PlaceGot, PlaceGoesOn DEF NextOperand, Got, Continue, SameCode
<1>5. CASE LastOperand
  <2>1. phase = "return" /\ stack # <<>>
    BY <1>5 DEF LastOperand, Got
  <2>2. CASE Leave(Null) /\ NoCode
    BY <2>1, <2>2, PlaceGot, PlaceLeaves DEF Null
  <2>3. CASE Leave(In(cur)) /\ Instruction /\ Null \notin Top.vals \cup {val}
    BY <2>1, <2>3, PlaceGot, PlaceLeaves, NullSome
  <2> QED
    BY <1>5, <2>2, <2>3 DEF LastOperand
<1>6. CASE IfCond
  BY <1>6, PlaceGot, PlaceGoesOn DEF IfCond, Got, Checks, Continue
<1>7. CASE IfThen
  BY <1>7, PlaceGot, PlaceGoesOn DEF IfThen, Got, Checks, Continue
<1>8. CASE IfElse
  BY <1>8, PlaceGot, PlaceLeaves DEF IfElse, Got, Checks
<1>9. CASE ForStart
  BY <1>9, PlaceGot, PlaceGoesOn DEF ForStart, Got, Checks, Continue
<1>10. CASE ForBody
  BY <1>10, PlaceGot, PlaceGoesOn DEF ForBody, Got, Continue, SameCode
<1>11. CASE ForStep
  BY <1>11, PlaceGot, PlaceGoesOn DEF ForStep, Got, Continue, SameCode
<1>12. CASE ForEnd
  BY <1>12, PlaceGot, PlaceLeaves DEF ForEnd, Got, Checks
<1>13. CASE VarNext
  <2>1. phase = "bind" /\ stack # <<>>
    BY <1>13 DEF VarNext, ShapeInv
  <2>2. CASE Bind(Const, "default")
    BY <2>1, <2>2, PlaceBind
  <2>3. CASE phase' = "visit" /\ UNCHANGED <<val, nulls, stack, loc>> /\ SameCode
    BY <2>1, <2>3, PlaceGoesOn DEF Placed, SameCode, NoCode
  <2> QED
    BY <1>13, <2>2, <2>3 DEF VarNext
<1>14. CASE VarInit
  BY <1>14, PlaceBind DEF VarInit, Got, Checks
<1>15. CASE VarBody
  <2>1. phase' = "visit" /\ loc'.of = "this" /\ line' = NoLine
    BY <1>15 DEF VarBody, Continue, SameCode, NoCode, AtNode
  <2> QED
    BY <2>1, PlaceKeeps DEF Placed
<1>16. CASE VarDone
  BY <1>16, PlaceGot, PlaceLeaves DEF VarDone, Got, Checks
<1> QED
  BY <1>1, <1>2, <1>3, <1>4, <1>5, <1>6, <1>7, <1>8, <1>9, <1>10, <1>11, <1>12, <1>13, <1>14,
     <1>15, <1>16 DEF Resume

LEMMA PlaceStep == ShapeInv /\ PlaceInv /\ [Next]_vars => PlaceInv'
<1> SUFFICES ASSUME ShapeInv, PlaceInv, [Next]_vars PROVE PlaceInv'
  OBVIOUS
<1>1. ASSUME NEW ps \in ArgLists, Begin(ps) PROVE PlaceInv'
  <2>1. /\ phase' = "visit" /\ loc'.of = "this"
        /\ line' = NoLine \/ line' = [of |-> "argument", where |-> "nothing"]
    BY <1>1 DEF Begin, Forgotten, Creates, Nowhere, AtNode
  <2> QED
    BY <2>1 DEF PlaceInv, InstructionsAreWhereTheyBelong, NoLine
<1>2. CASE Finish
  <2>1. /\ phase = "return" /\ phase' = "idle" /\ Depth = 0
        /\ line' = NoLine \/ (val.ok /\ Creates("function", loc, 0))
    BY <1>2 DEF Finish, Depth
  <2>2. loc \in Location /\ loc.of = "this" /\ (val.ok => 0 <= loc.depth) /\ 0 \in Nat
    BY <2>1 DEF PlaceInv, ShapeInv
  <2>3. Placed
    BY <2>1, <2>2 DEF Placed
  <2> QED
    BY <2>1, <2>3, PlacedFacts DEF PlaceInv
<1>3. CASE UNCHANGED vars
  BY <1>3 DEF vars, PlaceInv, InstructionsAreWhereTheyBelong, Depth
<1> QED
  BY <1>1, <1>2, <1>3, PlaceVisit, PlaceResume DEF Next

\* With -g, whatever parts, scopes and functions left in the Builder's one location: each
\* instruction is generated with a location in the expression it is generated for and in
\* the scope of its own function.
THEOREM PlacesAreRight == Spec => []InstructionsAreWhereTheyBelong
<1>1. Init => PlaceInv
  BY DEF Init, PlaceInv, InstructionsAreWhereTheyBelong, NoLine
<1>2. PlaceInv => InstructionsAreWhereTheyBelong
  BY DEF PlaceInv
<1> QED
  BY <1>1, <1>2, PlaceStep, ShapeHolds, PTL DEF Spec

-----------------------------------------------------------------------------
\* What the steps that wait for another part do to the innermost visit and to the blocks.
GoesOn(f) == /\ phase \in {"return", "bind"} /\ phase' \in {"visit", "bind"} /\ stack # <<>>
             /\ stack' = Append(Rest, f) /\ f \in Frame
             /\ f.node = Top.node /\ f.names = Top.names
             /\ UNCHANGED <<nulls, args, result, doubled>>

\* n blocks more, and a terminator of the current one.
Branched(n) ==
    /\ Len(cfg'.terms) = Size + n
    /\ \A b \in 1..Size : cfg'.terms[b] = IF b = cur THEN cfg.terms[b] + 1 ELSE cfg.terms[b]
    /\ \A b \in Size + 1..Size + n : cfg'.terms[b] = 0

SameBlocks == cfg'.terms = cfg.terms /\ cur' = cur

LEMMA BranchedFacts ==
    ASSUME ShapeInv, NEW V, \A v \in V : ValueOK(v, Size), NEW n \in Nat \ {0},
           NEW T, T \subseteq 1..Size + n,
           cfg' = WithBranch(WithBlocks(WithUses(cfg, cur, V), n), cur, T)
    PROVE  Branched(n)
<1> DEFINE u == WithUses(cfg, cur, V)
           w == WithBlocks(u, n)
           g == WithBranch(w, cur, T)
<1>1. GraphOK(cfg) /\ cur \in 1..Size /\ Size \in Nat
  BY StackFacts DEF ShapeInv
<1>2. GraphOK(u) /\ u.terms = cfg.terms
  BY <1>1, WithUsesFacts DEF Size
<1> HIDE DEF u
<1>3. /\ GraphOK(w) /\ Len(w.terms) = Size + n
      /\ \A b \in 1..Size : w.terms[b] = cfg.terms[b]
      /\ \A b \in Size + 1..Size + n : w.terms[b] = 0
  <2>1. n \in Nat /\ Len(u.terms) = Size
    BY <1>2 DEF Size
  <2>2. /\ GraphOK(w) /\ Len(w.terms) = Len(u.terms) + n
        /\ \A b \in 1..Len(u.terms) : w.terms[b] = u.terms[b]
        /\ \A b \in Len(u.terms) + 1..Len(u.terms) + n : w.terms[b] = 0
    BY <1>2, <2>1, WithBlocksFacts
  <2> HIDE DEF w
  <2> QED
    BY <1>2, <2>1, <2>2, Zenon
<1> HIDE DEF w
<1>4. cur \in 1..Size + n /\ \A b \in 1..Size : b \in 1..Size + n
  BY <1>1
<1>5. /\ Len(g.terms) = Size + n
      /\ \A c \in 1..Size + n : g.terms[c] = IF c = cur THEN w.terms[c] + 1 ELSE w.terms[c]
  BY <1>3, <1>4, WithBranchFacts
<1>6. \A b \in Size + 1..Size + n : b \in 1..Size + n /\ b # cur
  BY <1>1
<1>7. cfg' = g
  BY DEF g, w, u
<1> HIDE DEF g
<1> QED
  BY <1>3, <1>4, <1>5, <1>6, <1>7, Zenon DEF Branched

LEMMA IfCondEffect ==
    ASSUME ShapeInv, IfCond
    PROVE  /\ Top.node = "if" /\ Top.step = "cond"
           /\ \E f : /\ GoesOn(f) /\ f.step = "then" /\ f.own = Top.own /\ f.old = Top.old
                     /\ f.blocks[2] = Size + 2 /\ f.blocks[3] = Size + 3
           /\ cur' = Size + 1 /\ Branched(3) /\ named' = named
<1> DEFINE f == [Top EXCEPT !.step = "then", !.blocks = <<NewBlock, NewBlock + 1, NewBlock + 2>>]
<1>1. /\ phase = "return" /\ stack # <<>> /\ Top.node = "if" /\ Top.step = "cond" /\ Continue(f)
      /\ cfg' = WithBranch(WithBlocks(WithUses(cfg, cur, {val}), 3), cur, {NewBlock, NewBlock + 1})
      /\ cur' = NewBlock /\ named' = named /\ UNCHANGED <<args, result, doubled>>
  BY DEF IfCond, Got, SameNames, SameBody
<1>2. /\ ValueOK(val, Size) /\ Size \in Nat /\ NewBlock = Size + 1 /\ Top \in Frame
  BY <1>1, GotFacts DEF NewBlock, Size, FrameOK
<1>3. PICK l : l = <<NewBlock, NewBlock + 1, NewBlock + 2>>
  OBVIOUS
<1>4. l \in Seq(Nat) /\ l[2] = Size + 2 /\ l[3] = Size + 3
  BY <1>2, <1>3
<1>5. f = [Top EXCEPT !.step = "then", !.blocks = l]
  BY <1>3
<1> HIDE DEF f
<1>6. /\ f \in Frame /\ f.step = "then" /\ f.blocks = l /\ f.node = Top.node
      /\ f.names = Top.names /\ f.own = Top.own /\ f.old = Top.old
  BY <1>2, <1>4, <1>5 DEF Frame, Step
<1>7. GoesOn(f)
  BY <1>1, <1>6 DEF GoesOn, Continue
<1>8. Branched(3)
  <2>1. {NewBlock, NewBlock + 1} \subseteq 1..Size + 3
    BY <1>2
  <2> QED
    BY <1>1, <1>2, <2>1, BranchedFacts
<1>9. \E h : /\ GoesOn(h) /\ h.step = "then" /\ h.own = Top.own /\ h.old = Top.old
             /\ h.blocks[2] = Size + 2 /\ h.blocks[3] = Size + 3
  BY <1>4, <1>6, <1>7
<1> QED
  BY <1>1, <1>2, <1>8, <1>9

LEMMA IfThenEffect ==
    ASSUME ShapeInv, IfThen
    PROVE  /\ Top.node = "if" /\ Top.step = "then"
           /\ \E f : /\ GoesOn(f) /\ f.step = "else" /\ f.own = Top.own /\ f.old = Top.old
                     /\ f.blocks[1] = cur /\ f.blocks[3] = Top.blocks[3] /\ f.vals = {val}
           /\ cur' = Top.blocks[2] /\ Branched(0) /\ named' = named
           /\ Top.blocks[2] \in 1..Size /\ Top.blocks[3] \in 1..Size
<1> DEFINE f == [Top EXCEPT !.step = "else", !.vals = {val}, !.blocks[1] = cur]
<1>1. /\ phase = "return" /\ stack # <<>> /\ Top.node = "if" /\ Top.step = "then" /\ Continue(f)
      /\ cfg' = WithBranch(cfg, cur, {Top.blocks[3]})
      /\ cur' = Top.blocks[2] /\ named' = named /\ UNCHANGED <<args, result, doubled>>
  BY DEF IfThen, Got, SameNames, SameBody, WhereItEnds
<1>2. /\ FrameOK(Top, allocas, Size) /\ Size \in Nat /\ Top \in Frame /\ GraphOK(cfg)
      /\ cur \in 1..Size /\ val \in Value
  BY <1>1, GotFacts DEF FrameOK, ValueOK
<1>3. /\ Top.blocks \in Seq(Nat) /\ Len(Top.blocks) = 3 /\ Top.blocks \in Seq(1..Size)
      /\ 1 \in 1..Len(Top.blocks) /\ 2 \in 1..Len(Top.blocks) /\ 3 \in 1..Len(Top.blocks)
  <2>1. Top.blocks \in Seq(1..Size) /\ Len(Top.blocks) = 3
    BY <1>1, <1>2 DEF FrameOK, Shape
  <2>2. Top.blocks \in Seq(Nat)
    BY <1>2 DEF Frame
  <2> QED
    BY <2>1, <2>2
<1>4. Top.blocks[2] \in 1..Size /\ Top.blocks[3] \in 1..Size
  BY <1>3, ElementOfSeq
<1>5. PICK l : l = [Top.blocks EXCEPT ![1] = cur]
  OBVIOUS
<1>6. l \in Seq(Nat) /\ l[1] = cur /\ l[3] = Top.blocks[3]
  BY <1>2, <1>3, <1>5, ExceptSeq
<1>7. f = [Top EXCEPT !.step = "else", !.vals = {val}, !.blocks = l]
  BY <1>2, <1>5 DEF Frame
<1> HIDE DEF f
<1>8. /\ f \in Frame /\ f.step = "else" /\ f.blocks = l /\ f.node = Top.node
      /\ f.names = Top.names /\ f.own = Top.own /\ f.old = Top.old /\ f.vals = {val}
  BY <1>2, <1>6, <1>7 DEF Frame, Step
<1>9. GoesOn(f)
  BY <1>1, <1>8 DEF GoesOn, Continue
<1>10. Branched(0)
  <2>1. /\ Len(cfg'.terms) = Size
        /\ \A b \in 1..Size : cfg'.terms[b] = IF b = cur THEN cfg.terms[b] + 1 ELSE cfg.terms[b]
    BY <1>1, <1>2, <1>4, WithBranchFacts DEF Size
  <2>2. Size = Size + 0 /\ Size + 1..Size + 0 = {}
    BY <1>2
  <2> QED
    BY <2>1, <2>2 DEF Branched
<1>11. \E h : /\ GoesOn(h) /\ h.step = "else" /\ h.own = Top.own /\ h.old = Top.old
              /\ h.blocks[1] = cur /\ h.blocks[3] = Top.blocks[3] /\ h.vals = {val}
  BY <1>6, <1>8, <1>9
<1> QED
  BY <1>1, <1>4, <1>10, <1>11

LEMMA IfElseEffect ==
    ASSUME ShapeInv, IfElse
    PROVE  /\ phase = "return" /\ stack # <<>> /\ Top.node = "if" /\ Top.step = "else"
           /\ stack' = Rest /\ cur' = Top.blocks[3] /\ Branched(0) /\ named' = named
           /\ Top.blocks[3] \in 1..Size
<1>1. /\ phase = "return" /\ stack # <<>> /\ Top.node = "if" /\ Top.step = "else"
      /\ cur' = Top.blocks[3] /\ stack' = Rest /\ named' = named
  BY DEF IfElse, Got, Leave, SameNames
<1> DEFINE w == WithBranch(cfg, cur, {Top.blocks[3]})
<1>2. PICK v \in Top.vals :
        cfg' = WithPhi(w, Top.blocks[3], {<<Top.blocks[1], v>>, <<cur, val>>})
  BY DEF IfElse, Incoming, WhereItEnds
<1>3. FrameOK(Top, allocas, Size) /\ Size \in Nat /\ GraphOK(cfg) /\ cur \in 1..Size
  BY <1>1, GotFacts
<1>4. Top.blocks[3] \in 1..Size
  BY <1>1, <1>3 DEF FrameOK, Shape
<1>5. /\ Len(w.terms) = Size
      /\ \A b \in 1..Size : w.terms[b] = IF b = cur THEN cfg.terms[b] + 1 ELSE cfg.terms[b]
  BY <1>3, <1>4, WithBranchFacts DEF Size
<1>6. cfg'.terms = w.terms
  <2> HIDE DEF w
  <2>1. GraphOK(w)
    BY <1>3, <1>4, WithBranchFacts DEF Size, w
  <2> DEFINE I == {<<Top.blocks[1], v>>, <<cur, val>>}
  <2>2. \A p \in I : p = <<p[1], p[2]>> /\ p[1] \in 1..Len(w.terms) /\ ValueOK(p[2], Len(w.terms))
    <3>1. ValueOK(v, Size) /\ ValueOK(val, Size)
      BY <1>1, <1>3, GotFacts DEF FrameOK
    <3>2. Top.blocks \in Seq(1..Size) /\ Len(Top.blocks) = 3
      BY <1>1, <1>3 DEF FrameOK, Shape
    <3>3. Top.blocks[1] \in 1..Size
      <4>1. 1 \in 1..Len(Top.blocks)
        BY <3>2
      <4> QED
        BY <3>2, <4>1, ElementOfSeq
    <3> QED
      BY <1>3, <1>5, <3>1, <3>3
  <2> HIDE DEF I
  <2>3. WithPhi(w, Top.blocks[3], I).terms = w.terms
    BY <1>4, <1>5, <2>1, <2>2, WithPhiFacts
  <2> QED
    BY <1>2, <2>3 DEF I
<1>7. Size = Size + 0 /\ Size + 1..Size + 0 = {}
  BY <1>3
<1> HIDE DEF w
<1>8. Branched(0)
  BY <1>5, <1>6, <1>7 DEF Branched
<1> QED
  BY <1>1, <1>4, <1>8

LEMMA ForStartEffect ==
    ASSUME ShapeInv, ForStart
    PROVE  /\ Top.node = "for" /\ Top.step = "start"
           /\ \E f : /\ GoesOn(f) /\ f.step = "body" /\ f.own = Top.own
                     /\ f.old = <<named[Top.names[1]]>>
                     /\ f.blocks[1] = Size + 1 /\ f.vals = Top.vals
           /\ cur' = Size + 1 /\ Branched(1)
           /\ named' = [named EXCEPT ![Top.names[1]] = Top.own[1]]
           /\ Top.names[1] \in Var /\ Len(Top.names) = 1 /\ Len(Top.own) = 1 /\ Top.own[1] # 0
<1> DEFINE f == [Top EXCEPT !.step = "body", !.blocks = <<NewBlock>>,
                            !.old = <<named[Top.names[1]]>>]
<1>1. /\ phase = "return" /\ stack # <<>> /\ Top.node = "for" /\ Top.step = "start" /\ Continue(f)
      /\ cfg' = WithBranch(WithBlocks(WithUses(cfg, cur, {val}), 1), cur, {NewBlock})
      /\ cur' = NewBlock /\ UNCHANGED <<args, result, doubled>>
      /\ named' = [named EXCEPT ![Top.names[1]] = Top.own[1]]
  BY DEF ForStart, Got, SameBody
<1>2. /\ FrameOK(Top, allocas, Size) /\ ValueOK(val, Size) /\ Size \in Nat /\ NewBlock = Size + 1
      /\ Top \in Frame /\ allocas \in Nat /\ named \in [Var -> 0..allocas]
  BY <1>1, GotFacts DEF NewBlock, Size, FrameOK
<1>3. /\ Top.names \in Seq(Var) /\ Len(Top.names) = 1 /\ Top.names[1] \in Var
      /\ Len(Top.own) = 1 /\ Top.own[1] \in 1..allocas
  BY <1>1, <1>2 DEF FrameOK, Shape, Frame
<1>4. PICK l, o : l = <<NewBlock>> /\ o = <<named[Top.names[1]]>>
  OBVIOUS
<1>5. l \in Seq(Nat) /\ o \in Seq(Nat)
  <2>1. NewBlock \in Nat /\ named[Top.names[1]] \in Nat
    BY <1>2, <1>3
  <2> QED
    BY <1>4, <2>1, Tuples
<1>6. f = [Top EXCEPT !.step = "body", !.blocks = l, !.old = o]
  BY <1>4
<1> HIDE DEF f
<1>7. /\ f \in Frame /\ f.step = "body" /\ f.old = o /\ f.node = Top.node
      /\ f.names = Top.names /\ f.own = Top.own /\ f.blocks = l /\ f.vals = Top.vals
  BY <1>2, <1>5, <1>6 DEF Frame, Step
<1>8. GoesOn(f)
  BY <1>1, <1>7 DEF GoesOn, Continue
<1>9. Branched(1)
  <2>1. {NewBlock} \subseteq 1..Size + 1 /\ 1 \in Nat \ {0}
    BY <1>2
  <2> QED
    BY <1>1, <1>2, <2>1, BranchedFacts
<1>10. \E h : /\ GoesOn(h) /\ h.step = "body" /\ h.own = Top.own
              /\ h.old = <<named[Top.names[1]]>>
              /\ h.blocks[1] = Size + 1 /\ h.vals = Top.vals
  <2>1. l[1] = Size + 1
    BY <1>2, <1>4
  <2> QED
    BY <1>4, <1>7, <1>8, <2>1
<1>11. Top.own[1] # 0
  BY <1>2, <1>3
<1> QED
  BY <1>1, <1>2, <1>3, <1>9, <1>10, <1>11

LEMMA ForEndEffect ==
    ASSUME ShapeInv, ForEnd
    PROVE  /\ phase = "return" /\ stack # <<>> /\ Top.node = "for" /\ Top.step = "end"
           /\ stack' = Rest /\ cur' = Size + 1 /\ Branched(1) /\ named' = Restored(Top)
<1> DEFINE V == Top.vals \cup {val}
<1>1. /\ phase = "return" /\ stack # <<>> /\ Top.node = "for" /\ Top.step = "end"
      /\ stack' = Rest /\ cur' = NewBlock /\ named' = Restored(Top)
      /\ cfg' = WithBranch(WithBlocks(WithUses(cfg, cur, V), 1), cur, {Top.blocks[1], NewBlock})
  BY DEF ForEnd, Got, Leave, Latch
<1>2. /\ FrameOK(Top, allocas, Size) /\ ValueOK(val, Size) /\ Size \in Nat /\ NewBlock = Size + 1
  BY <1>1, GotFacts DEF NewBlock, Size
<1>3. {Top.blocks[1], NewBlock} \subseteq 1..Size + 1 /\ 1 \in Nat \ {0}
  <2>1. Top.blocks[1] \in 1..Size
    BY <1>1, <1>2 DEF FrameOK, Shape
  <2> QED
    BY <1>2, <2>1
<1>4. \A v \in V : ValueOK(v, Size)
  BY <1>2 DEF FrameOK
<1> HIDE DEF V
<1>5. Branched(1)
  BY <1>1, <1>3, <1>4, BranchedFacts
<1> QED
  BY <1>1, <1>2, <1>5

\* A visit that has nothing to do between two parts.
Started(f) == f.own # <<>> => f.step # "start"
Untouched == /\ Top.node # "if" /\ Started(Top)
             /\ \E f : GoesOn(f) /\ f.own = Top.own /\ f.old = Top.old /\ Started(f)
             /\ SameBlocks /\ named' = named
Moved(f, t, V) == f = [Top EXCEPT !.step = t, !.vals = V] /\ Continue(f)

LEMMA MovedEffect ==
    ASSUME ShapeInv, stack # <<>>, NEW t \in {"body", "step", "end"}, NEW V \in SUBSET Value,
           phase = "return" \/ phase = "bind", Top.node = "for" \/ Top.node = "var",
           Top.step # "start", NEW f, Moved(f, t, V), SameCode, SameBody
    PROVE  Untouched
<1>1. Top \in Frame /\ t \in Step
  BY NullSome DEF Step
<1>2. /\ f \in Frame /\ f.node = Top.node /\ f.names = Top.names /\ f.step = t
      /\ f.own = Top.own /\ f.old = Top.old
  BY <1>1 DEF Frame, Moved
<1>3. GoesOn(f) /\ SameBlocks /\ named' = named
  BY <1>2 DEF GoesOn, Continue, SameCode, SameBody, NoCode, SameBlocks, Moved
<1>4. Top.node # "if" /\ Started(Top) /\ Started(f)
  BY <1>2 DEF Started
<1> QED
  BY <1>2, <1>3, <1>4, Zenon DEF Untouched

LEMMA ContinueEffect ==
    ASSUME ShapeInv, NextOperand \/ ForBody \/ ForStep \/ VarBody
    PROVE  Untouched
<1>1. CASE NextOperand
  <2> DEFINE f == [Top EXCEPT !.want = @ - 1, !.vals = @ \cup {val}]
  <2>1. /\ phase = "return" /\ stack # <<>> /\ Top.node \in {"call", "binary"} /\ Top.want > 1
        /\ Continue(f) /\ SameCode /\ UNCHANGED <<args, result, doubled>>
    BY <1>1 DEF NextOperand, Got, SameBody
  <2>2. Top \in Frame /\ val \in Value
    BY <2>1, NullSome DEF ShapeInv
  <2>3. Top.want - 1 \in Nat
    BY <2>1, <2>2 DEF Frame
  <2>4. /\ f \in Frame /\ f.node = Top.node /\ f.names = Top.names
        /\ f.own = Top.own /\ f.old = Top.old
    BY <2>2, <2>3 DEF Frame
  <2> HIDE DEF f
  <2>5. GoesOn(f) /\ SameBlocks /\ named' = named
    BY <2>1, <2>4 DEF GoesOn, Continue, SameCode, NoCode, SameBlocks
  <2>6. Top.node # "if" /\ Started(Top) /\ Started(f)
    <3>1. Top.own = <<>>
      BY <2>1, TopFacts DEF FrameOK, Shape
    <3> QED
      BY <2>1, <2>4, <3>1 DEF Started
  <2> QED
    BY <2>4, <2>5, <2>6, Zenon DEF Untouched
<1>2. CASE ForBody
  <2>1. /\ phase = "return" /\ stack # <<>> /\ Top.node = "for" /\ Top.step = "body"
        /\ SameCode /\ SameBody /\ Top \in Frame
    BY <1>2, NullSome DEF ForBody, Got
  <2>2. Top.vals \in SUBSET Value /\ {Const} \in SUBSET Value
    BY <2>1 DEF Frame, Const, Value
  <2>3. [Top EXCEPT !.step = "step"] = [Top EXCEPT !.step = "step", !.vals = Top.vals]
    BY <2>1 DEF Frame
  <2>4. CASE Continue([Top EXCEPT !.step = "step"])
    <3>1. \E f : Moved(f, "step", Top.vals)
      BY <2>3, <2>4 DEF Moved
    <3> QED
      BY <2>1, <2>2, <3>1, MovedEffect
  <2>5. CASE Continue([Top EXCEPT !.step = "end", !.vals = {Const}])
    <3>1. \E f : Moved(f, "end", {Const})
      BY <2>5 DEF Moved
    <3> QED
      BY <2>1, <2>2, <3>1, MovedEffect
  <2> QED
    BY <1>2, <2>4, <2>5 DEF ForBody
<1>3. CASE ForStep
  <2>1. /\ phase = "return" /\ stack # <<>> /\ Top.node = "for" /\ Top.step = "step"
        /\ SameCode /\ SameBody /\ {val} \in SUBSET Value
        /\ \E f : Moved(f, "end", {val})
    BY <1>3 DEF ForStep, Got, ShapeInv, Moved
  <2> QED
    BY <2>1, MovedEffect
<1>4. CASE VarBody
  <2>1. /\ phase = "bind" /\ stack # <<>> /\ Top.node = "var" /\ Top.step = "init"
        /\ SameCode /\ SameBody /\ Top \in Frame /\ Continue([Top EXCEPT !.step = "body"])
    BY <1>4, NullSome DEF VarBody, ShapeInv
  <2>2. Top.vals \in SUBSET Value
    BY <2>1 DEF Frame
  <2>3. [Top EXCEPT !.step = "body"] = [Top EXCEPT !.step = "body", !.vals = Top.vals]
    BY <2>1 DEF Frame
  <2>4. \E f : Moved(f, "body", Top.vals)
    BY <2>1, <2>3 DEF Moved
  <2> QED
    BY <2>1, <2>2, <2>4, MovedEffect
<1> QED
  BY <1>1, <1>2, <1>3, <1>4

LEMMA BindEffect ==
    ASSUME ShapeInv, NEW x, NEW n, Bind(x, n), stack # <<>>, phase \in {"return", "bind"},
           Top.node = "var", Len(Top.own) < Len(Top.names), ValueOK(x, Size)
    PROVE  LET k == Len(Top.own) + 1
           IN  /\ k \in 1..Len(Top.names) /\ Top.names[k] \in Var /\ Len(Top.old) = k - 1
               /\ \E f : /\ GoesOn(f) /\ f.step = Top.step
                         /\ f.vals = Top.vals /\ f.blocks = Top.blocks
                         /\ f.own = Append(Top.own, allocas + 1)
                         /\ f.old = Append(Top.old, named[Top.names[k]])
               /\ SameBlocks /\ named' = [named EXCEPT ![Top.names[k]] = allocas + 1]
<1> DEFINE k == Len(Top.own) + 1
           a == allocas + 1
           f == [Top EXCEPT !.own = Append(@, a), !.old = Append(@, named[Top.names[k]])]
<1>1. /\ phase' = "bind" /\ stack' = Append(Rest, f)
      /\ UNCHANGED <<nulls, cur, args, result, doubled>>
      /\ cfg' = WithUses(cfg, cur, {x}) /\ named' = [named EXCEPT ![Top.names[k]] = a]
  BY DEF Bind, SameBody
<1>2. /\ FrameOK(Top, allocas, Size) /\ Top \in Frame /\ GraphOK(cfg) /\ cur \in 1..Size
      /\ named \in [Var -> 0..allocas] /\ allocas \in Nat
  BY TopFacts DEF FrameOK, ShapeInv
<1>3. /\ Top.names \in Seq(Var) /\ Len(Top.own) \in Nat /\ Len(Top.names) \in Nat
      /\ Len(Top.old) = Len(Top.own)
  BY <1>2, LenProperties DEF FrameOK, Shape, Frame
<1>4. k \in 1..Len(Top.names) /\ Len(Top.old) = k - 1
  BY <1>3
<1>5. Top.names[k] \in Var
  BY <1>3, <1>4, ElementOfSeq
<1>6. a \in Nat /\ named[Top.names[k]] \in Nat
  BY <1>2, <1>5
<1> HIDE DEF k, a
<1>7. PICK o, d : o = Append(Top.own, a) /\ d = Append(Top.old, named[Top.names[k]])
  OBVIOUS
<1>8. o \in Seq(Nat) /\ d \in Seq(Nat)
  BY <1>2, <1>6, <1>7 DEF Frame
<1>9. f = [Top EXCEPT !.own = o, !.old = d]
  BY <1>2, <1>7 DEF Frame
<1> HIDE DEF f
<1>10. /\ f \in Frame /\ f.node = Top.node /\ f.names = Top.names /\ f.step = Top.step
       /\ f.own = o /\ f.old = d /\ f.vals = Top.vals /\ f.blocks = Top.blocks
  BY <1>2, <1>8, <1>9 DEF Frame
<1>11. GoesOn(f)
  BY <1>1, <1>10 DEF GoesOn
<1>12. SameBlocks
  <2>1. WithUses(cfg, cur, {x}).terms = cfg.terms
    BY <1>2, WithUsesFacts DEF Size
  <2> QED
    BY <1>1, <2>1 DEF SameBlocks
<1>13. \E h : /\ GoesOn(h) /\ h.step = Top.step
              /\ h.vals = Top.vals /\ h.blocks = Top.blocks
              /\ h.own = Append(Top.own, a)
              /\ h.old = Append(Top.old, named[Top.names[k]])
  BY <1>7, <1>10, <1>11
<1> QED
  BY <1>1, <1>4, <1>5, <1>12, <1>13 DEF k, a

-----------------------------------------------------------------------------
\* Which blocks wait for their terminator.
LEMMA PendingPush ==
    ASSUME NEW s \in Seq(Frame), NEW f \in Frame
    PROVE  /\ PendingIn(Append(s, f)) = PendingIn(s) \cup Pending(f)
           /\ Apart(Append(s, f)) <=>
                Apart(s) /\ Distinct(f) /\ Pending(f) \cap PendingIn(s) = {}
<1>1. PICK t : t = Append(s, f)
  OBVIOUS
<1>2. PICK n \in Nat : n = Len(s)
  BY LenProperties
<1>3. /\ DOMAIN s = 1..n /\ DOMAIN t = 1..n + 1
      /\ t[n + 1] = f /\ \A i \in 1..n : t[i] = s[i]
  <2>1. t \in Seq(Frame) /\ Len(t) = n + 1
    BY <1>1, <1>2, PushFacts
  <2> QED
    BY <1>1, <1>2, <2>1, PushFacts, LenProperties
<1>4. n + 1 \in 1..n + 1 /\ \A i \in 1..n : i \in 1..n + 1 /\ i # n + 1
  OBVIOUS
<1>5. \A i \in 1..n + 1 : i = n + 1 \/ i \in 1..n
  OBVIOUS
<1>6. PendingIn(t) = PendingIn(s) \cup Pending(f)
  BY <1>3, <1>4, <1>5 DEF PendingIn
<1>7. ASSUME Apart(t) PROVE Apart(s) /\ Distinct(f) /\ Pending(f) \cap PendingIn(s) = {}
  <2>1. Apart(s)
    BY <1>3, <1>4, <1>7 DEF Apart
  <2>2. Distinct(f) /\ \A j \in 1..n : Pending(f) \cap Pending(s[j]) = {}
    BY <1>3, <1>4, <1>7 DEF Apart
  <2>3. Pending(f) \cap PendingIn(s) = {}
    BY <1>3, <2>2 DEF PendingIn
  <2> QED
    BY <2>1, <2>2, <2>3
<1>8. ASSUME Apart(s), Distinct(f), Pending(f) \cap PendingIn(s) = {} PROVE Apart(t)
  <2>1. \A j \in 1..n : Pending(f) \cap Pending(s[j]) = {} /\ Pending(s[j]) \cap Pending(f) = {}
    BY <1>3, <1>8 DEF PendingIn
  <2> SUFFICES ASSUME NEW i \in 1..n + 1
               PROVE  Distinct(t[i]) /\ \A j \in 1..n + 1 : i # j => Pending(t[i]) \cap Pending(t[j]) = {}
    BY <1>3 DEF Apart
  <2>2. Distinct(t[i])
    BY <1>3, <1>5, <1>8 DEF Apart
  <2>3. ASSUME NEW j \in 1..n + 1, i # j PROVE Pending(t[i]) \cap Pending(t[j]) = {}
    <3>1. CASE i \in 1..n /\ j \in 1..n
      BY <1>3, <1>8, <2>3, <3>1 DEF Apart
    <3>2. CASE i = n + 1 /\ j \in 1..n
      BY <1>3, <2>1, <3>2
    <3>3. CASE i \in 1..n /\ j = n + 1
      BY <1>3, <2>1, <3>3
    <3> QED
      BY <1>5, <2>3, <3>1, <3>2, <3>3
  <2> QED
    BY <2>2, <2>3
<1> QED
  BY <1>1, <1>6, <1>7, <1>8

LEMMA PendingRange ==
    ASSUME ShapeInv
    PROVE  PendingIn(stack) \subseteq 1..Size
<1>1. ASSUME NEW i \in DOMAIN stack PROVE Pending(stack[i]) \subseteq 1..Size
  <2>1. PICK f : f = stack[i]
    OBVIOUS
  <2>2. f.blocks \in Seq(1..Size) /\ Shape(f)
    <3>1. i \in 1..Len(stack) /\ \A j \in 1..Len(stack) : FrameOK(stack[j], allocas, Size)
      BY StackFacts
    <3> QED
      BY <2>1, <3>1 DEF FrameOK
  <2>3. CASE f.node = "if" /\ f.step \in {"then", "else"}
    <3>1. Len(f.blocks) = 3
      BY <2>2, <2>3 DEF Shape
    <3>2. 2 \in 1..Len(f.blocks) /\ 3 \in 1..Len(f.blocks)
      BY <3>1
    <3>3. f.blocks[2] \in 1..Size /\ f.blocks[3] \in 1..Size
      BY <2>2, <3>2, ElementOfSeq
    <3> QED
      BY <2>1, <2>3, <3>3 DEF Pending
  <2>4. CASE ~(f.node = "if" /\ f.step \in {"then", "else"})
    BY <2>1, <2>4 DEF Pending
  <2> QED
    BY <2>3, <2>4
<1> QED
  BY <1>1 DEF PendingIn

LEMMA NothingPending ==
    ASSUME NEW s \in Seq(Frame), NEW f \in Frame, Pending(f) = {}, Distinct(f)
    PROVE  PendingIn(Append(s, f)) = PendingIn(s) /\ (Apart(Append(s, f)) <=> Apart(s))
<1>1. /\ PendingIn(Append(s, f)) = PendingIn(s) \cup Pending(f)
      /\ Apart(Append(s, f)) <=>
           Apart(s) /\ Distinct(f) /\ Pending(f) \cap PendingIn(s) = {}
  BY PendingPush, Zenon
<1>2. \A S : S \cup {} = S /\ {} \cap S = {}
  OBVIOUS
<1>3. PendingIn(Append(s, f)) = PendingIn(s)
  BY <1>1, <1>2
<1> QED
  BY <1>1, <1>2, <1>3, Zenon

LEMMA TerminatedPush ==
    ASSUME NEW s \in Seq(Frame), NEW f \in Frame, Pending(f) = {}, Distinct(f), NEW g, NEW h,
           g.terms = h.terms, NEW c
    PROVE  Terminated(Append(s, f), g, c) <=> Terminated(s, h, c)
<1>1. PendingIn(Append(s, f)) = PendingIn(s) /\ (Apart(Append(s, f)) <=> Apart(s))
  BY NothingPending
<1> QED
  BY <1>1, Zenon DEF Terminated

\* A visit other than an `if` has no pending block.
LEMMA NoPending ==
    ASSUME NEW f, f.node # "if" \/ f.step = "cond"
    PROVE  Pending(f) = {} /\ Distinct(f)
BY DEF Pending, Distinct

\* What a step that makes blocks or terminates one has to show.
LEMMA BranchedTerminates ==
    ASSUME ShapeInv, Terminated(stack, cfg, cur), NEW n \in Nat, Branched(n),
           NEW s, NEW c, Apart(s), c \notin PendingIn(s),
           {c} \cup PendingIn(s) = PendingIn(stack) \cup (Size + 1..Size + n)
    PROVE  Terminated(s, cfg', c)
<1>1. PICK P, Q : P = PendingIn(stack) /\ Q = PendingIn(s)
  OBVIOUS
<1>2. PICK t, u : t = cfg.terms /\ u = cfg'.terms
  OBVIOUS
<1>3. PICK z : z = Size
  OBVIOUS
<1>4. z \in Nat /\ P \subseteq 1..z /\ cur \in 1..z /\ cur \notin P
  BY <1>1, <1>3, StackFacts, PendingRange DEF ShapeInv, Terminated
<1>5. \A b \in 1..z : t[b] = IF b = cur \/ b \in P THEN 0 ELSE 1
  BY <1>1, <1>2, <1>3 DEF Terminated, Size
<1>6. /\ Len(u) = z + n
      /\ \A b \in 1..z : u[b] = IF b = cur THEN t[b] + 1 ELSE t[b]
      /\ \A b \in z + 1..z + n : u[b] = 0
  BY <1>2, <1>3, Zenon DEF Branched
<1>7. \A b : b = c \/ b \in Q <=> b \in P \/ b \in z + 1..z + n
  BY <1>1, <1>3
<1>8. ASSUME NEW b \in 1..z + n PROVE u[b] = IF b = c \/ b \in Q THEN 0 ELSE 1
  <2>1. CASE b \in 1..z
    <3>1. b \notin z + 1..z + n
      BY <1>4, <2>1
    <3>2. t[b] = (IF b = cur \/ b \in P THEN 0 ELSE 1) /\ u[b] = IF b = cur THEN t[b] + 1 ELSE t[b]
      BY <1>5, <1>6, <2>1
    <3>3. CASE b = cur
      BY <1>4, <1>7, <3>1, <3>2, <3>3
    <3>4. CASE b # cur
      BY <1>7, <3>1, <3>2, <3>4
    <3> QED
      BY <3>3, <3>4
  <2>2. CASE b \in z + 1..z + n
    BY <1>6, <1>7, <2>2
  <2> QED
    BY <1>4, <2>1, <2>2
<1> QED
  BY <1>1, <1>2, <1>6, <1>8, Zenon DEF Terminated

LEMMA BlockKeeps ==
    ASSUME NullInv, phase # "idle", result' = result,
           ~nulls' => Terminated(stack', cfg', cur')
    PROVE  BlockInv'
<1>1. result' # "ok"
  BY DEF NullInv
<1>2. OneTerminatorEach'
  BY <1>1 DEF OneTerminatorEach
<1> QED
  BY <1>2 DEF BlockInv

LEMMA BlockNow ==
    ASSUME BlockInv, phase # "idle", ~nulls
    PROVE  Terminated(stack, cfg, cur)
BY DEF BlockInv

LEMMA BlockLeaves ==
    ASSUME ShapeInv, NullInv, BlockInv, phase = "return", stack # <<>>, stack' = Rest,
           NEW v, Return(v), result' = result, ~v.ok \/ Top.node # "if",
           cfg'.terms = cfg.terms, cur' = cur
    PROVE  BlockInv'
<1>1. nulls' = (nulls \/ ~v.ok)
  BY DEF Return
<1>2. ASSUME ~nulls' PROVE Terminated(stack', cfg', cur')
  <2>1. ~nulls /\ Top.node # "if"
    BY <1>1, <1>2
  <2>2. Terminated(Append(Rest, Top), cfg, cur)
    BY <2>1, SplitFacts, BlockNow
  <2>3. Pending(Top) = {} /\ Distinct(Top)
    BY <2>1, NoPending
  <2>4. PICK g : g = cfg'
    OBVIOUS
  <2>5. Terminated(Rest, g, cur)
    BY <2>2, <2>3, <2>4, SplitFacts, TerminatedPush
  <2> QED
    BY <2>4, <2>5
<1> QED
  BY <1>2, BlockKeeps

\* A visit replaced by another without pending blocks.
LEMMA BlockReplaces ==
    ASSUME ShapeInv, NullInv, BlockInv, NEW f, GoesOn(f), Top.node # "if", SameBlocks
    PROVE  BlockInv'
<1>1. /\ phase # "idle" /\ stack # <<>> /\ stack' = Append(Rest, f) /\ f \in Frame
      /\ f.node # "if" /\ nulls' = nulls /\ result' = result
  BY DEF GoesOn
<1>2. ASSUME ~nulls PROVE Terminated(stack', cfg', cur')
  <2>1. Terminated(Append(Rest, Top), cfg, cur)
    BY <1>1, <1>2, SplitFacts, BlockNow
  <2>2. Pending(Top) = {} /\ Distinct(Top) /\ Pending(f) = {} /\ Distinct(f)
    BY <1>1, NoPending
  <2>3. PICK g : g = cfg'
    OBVIOUS
  <2>4. cfg.terms = g.terms /\ g.terms = g.terms
    BY <2>3 DEF SameBlocks
  <2>5. Terminated(Rest, g, cur)
    BY <1>1, <2>1, <2>2, <2>4, SplitFacts, TerminatedPush
  <2>6. Terminated(Append(Rest, f), g, cur)
    BY <1>1, <2>2, <2>4, <2>5, SplitFacts, TerminatedPush
  <2> QED
    BY <1>1, <2>3, <2>6 DEF SameBlocks
<1> QED
  BY <1>1, <1>2, BlockKeeps

LEMMA BlockVisit == ASSUME ShapeInv, NullInv, BlockInv, Visit PROVE BlockInv'
<1>1. ASSUME NEW f, Begins(f) PROVE BlockInv'
  <2>1. /\ phase = "visit" /\ stack' = Append(stack, f) /\ nulls' = nulls /\ result' = result
        /\ cfg' = cfg /\ cur' = cur /\ f \in Frame
        /\ f.node # "if" \/ f.step = "cond"
    BY <1>1 DEF Begins, Enter, Fresh, NoCode
  <2>2. ASSUME ~nulls PROVE Terminated(stack', cfg', cur')
    <3>1. Terminated(stack, cfg, cur) /\ stack \in Seq(Frame)
      BY <2>1, <2>2, BlockNow, StackFacts
    <3>2. Pending(f) = {} /\ Distinct(f)
      BY <2>1, NoPending
    <3>3. cfg.terms = cfg.terms
      OBVIOUS
    <3>4. Terminated(Append(stack, f), cfg, cur)
      BY <2>1, <3>1, <3>2, <3>3, TerminatedPush
    <3> QED
      BY <2>1, <3>4
  <2> QED
    BY <2>1, <2>2, BlockKeeps
<1>2. ASSUME NEW n, NEW v, Ends(n, v) PROVE BlockInv'
  <2>1. /\ phase = "visit" /\ stack' = stack /\ result' = result
        /\ cfg' = cfg /\ cur' = cur /\ nulls' = (nulls \/ ~v.ok)
    BY <1>2 DEF Ends, Return, SameBody
  <2> QED
    BY <2>1, BlockKeeps, BlockNow
<1> QED
  BY <1>1, <1>2, VisitCases

LEMMA BlockIfCond == ASSUME ShapeInv, NullInv, BlockInv, IfCond PROVE BlockInv'
<1>1. PICK f : GoesOn(f) /\ f.step = "then" /\ f.blocks[2] = Size + 2 /\ f.blocks[3] = Size + 3
  BY IfCondEffect
<1>2. /\ Top.node = "if" /\ Top.step = "cond" /\ cur' = Size + 1 /\ Branched(3) /\ Size \in Nat
  BY IfCondEffect, StackFacts
<1>3. /\ phase # "idle" /\ stack # <<>> /\ stack' = Append(Rest, f) /\ f \in Frame
      /\ f.node = "if" /\ nulls' = nulls /\ result' = result
  BY <1>1, <1>2 DEF GoesOn
<1>4. ASSUME ~nulls PROVE Terminated(stack', cfg', cur')
  <2>1. /\ Terminated(stack, cfg, cur) /\ stack = Append(Rest, Top)
        /\ Rest \in Seq(Frame) /\ Top \in Frame
    BY <1>3, <1>4, SplitFacts, BlockNow
  <2>2. Pending(Top) = {} /\ Pending(f) = {Size + 2, Size + 3}
    BY <1>1, <1>2, <1>3 DEF Pending
  <2>3. Size + 2 # Size + 3
    BY <1>2
  <2>4. Distinct(f)
    BY <1>1, <2>3 DEF Distinct
  <2>5. PICK P : P = PendingIn(Rest)
    OBVIOUS
  <2>6. PendingIn(stack) = P /\ Apart(Rest) /\ P \subseteq 1..Size
    <3>1. Distinct(Top)
      BY <1>2, NoPending
    <3>2. PendingIn(stack) = PendingIn(Rest) /\ (Apart(stack) <=> Apart(Rest))
      BY <2>1, <2>2, <3>1, NothingPending, Zenon
    <3> QED
      BY <2>1, <2>5, <3>2, PendingRange DEF Terminated
  <2>7. \A b \in P : b \in Nat /\ b <= Size
    BY <1>2, <2>6
  <2>8. Pending(f) \cap P = {}
    BY <1>2, <2>2, <2>7
  <2>9. PendingIn(Append(Rest, f)) = P \cup {Size + 2, Size + 3} /\ Apart(Append(Rest, f))
    BY <1>3, <2>1, <2>2, <2>4, <2>5, <2>6, <2>8, PendingPush
  <2>10. Size + 1 \notin P \cup {Size + 2, Size + 3}
    BY <1>2, <2>7
  <2>11. {Size + 1} \cup (P \cup {Size + 2, Size + 3}) = P \cup (Size + 1..Size + 3)
    <3>1. \A b : b \in Size + 1..Size + 3 <=> b = Size + 1 \/ b = Size + 2 \/ b = Size + 3
      BY <1>2
    <3> QED
      BY <3>1, Zenon
  <2>12. Terminated(Append(Rest, f), cfg', Size + 1)
    BY <1>2, <2>1, <2>6, <2>9, <2>10, <2>11, BranchedTerminates
  <2> QED
    BY <1>2, <1>3, <2>12
<1> QED
  BY <1>3, <1>4, BlockKeeps

LEMMA BlockIfThen == ASSUME ShapeInv, NullInv, BlockInv, IfThen PROVE BlockInv'
<1>1. PICK f : GoesOn(f) /\ f.step = "else" /\ f.blocks[3] = Top.blocks[3]
  BY IfThenEffect
<1>2. /\ Top.node = "if" /\ Top.step = "then" /\ cur' = Top.blocks[2] /\ Branched(0) /\ Size \in Nat
  BY IfThenEffect, StackFacts
<1>3. /\ phase # "idle" /\ stack # <<>> /\ stack' = Append(Rest, f) /\ f \in Frame
      /\ f.node = "if" /\ nulls' = nulls /\ result' = result
  BY <1>1, <1>2 DEF GoesOn
<1>4. ASSUME ~nulls PROVE Terminated(stack', cfg', cur')
  <2>1. /\ Terminated(stack, cfg, cur) /\ stack = Append(Rest, Top)
        /\ Rest \in Seq(Frame) /\ Top \in Frame
    BY <1>3, <1>4, SplitFacts, BlockNow
  <2>2. PICK c, d : c = Top.blocks[2] /\ d = Top.blocks[3]
    OBVIOUS
  <2>3. Pending(Top) = {c, d} /\ Pending(f) = {d} /\ Distinct(f) /\ (Distinct(Top) => c # d)
    BY <1>1, <1>2, <1>3, <2>2 DEF Pending, Distinct
  <2>4. PICK P : P = PendingIn(Rest)
    OBVIOUS
  <2>5. /\ PendingIn(stack) = P \cup {c, d} /\ Apart(Rest) /\ c # d
        /\ {c, d} \cap P = {}
    BY <2>1, <2>3, <2>4, PendingPush DEF Terminated
  <2>6. PendingIn(Append(Rest, f)) = P \cup {d} /\ Apart(Append(Rest, f))
    BY <1>3, <2>1, <2>3, <2>4, <2>5, PendingPush
  <2>7. Size + 1..Size + 0 = {}
    BY <1>2
  <2>8. {c} \cup (P \cup {d}) = (P \cup {c, d}) \cup (Size + 1..Size + 0) /\ c \notin P \cup {d}
    BY <2>5, <2>7, Zenon
  <2>9. Terminated(Append(Rest, f), cfg', c)
    BY <1>2, <2>1, <2>5, <2>6, <2>8, BranchedTerminates
  <2> QED
    BY <1>2, <1>3, <2>2, <2>9
<1> QED
  BY <1>3, <1>4, BlockKeeps

LEMMA BlockIfElse == ASSUME ShapeInv, NullInv, BlockInv, IfElse PROVE BlockInv'
<1>1. /\ phase = "return" /\ stack # <<>> /\ Top.node = "if" /\ Top.step = "else"
      /\ stack' = Rest /\ cur' = Top.blocks[3] /\ Branched(0) /\ Size \in Nat
  BY IfElseEffect, StackFacts
<1>2. result' = result /\ (~nulls' => ~nulls)
  BY DEF IfElse, SameBody, Leave, Return
<1>3. ASSUME ~nulls PROVE Terminated(stack', cfg', cur')
  <2>1. /\ Terminated(stack, cfg, cur) /\ stack = Append(Rest, Top)
        /\ Rest \in Seq(Frame) /\ Top \in Frame
    BY <1>1, <1>3, SplitFacts, BlockNow
  <2>2. PICK d : d = Top.blocks[3]
    OBVIOUS
  <2>3. Pending(Top) = {d}
    BY <1>1, <2>2 DEF Pending
  <2>4. PICK P : P = PendingIn(Rest)
    OBVIOUS
  <2>5. PendingIn(stack) = P \cup {d} /\ Apart(Rest) /\ {d} \cap P = {}
    BY <2>1, <2>3, <2>4, PendingPush DEF Terminated
  <2>6. Size + 1..Size + 0 = {}
    BY <1>1
  <2>7. {d} \cup P = (P \cup {d}) \cup (Size + 1..Size + 0) /\ d \notin P
    BY <2>5, <2>6, Zenon
  <2>8. Terminated(Rest, cfg', d)
    BY <1>1, <2>1, <2>4, <2>5, <2>7, BranchedTerminates
  <2> QED
    BY <1>1, <2>2, <2>8
<1> QED
  BY <1>1, <1>2, <1>3, BlockKeeps

\* The block of a loop, and the one behind it.
LEMMA BlockLoop ==
    ASSUME ShapeInv, Terminated(stack, cfg, cur), stack # <<>>, Top.node # "if", Branched(1),
           NEW s, s = Rest \/ \E f \in Frame : f.node # "if" /\ s = Append(Rest, f)
    PROVE  Terminated(s, cfg', Size + 1)
<1>1. /\ stack = Append(Rest, Top) /\ Rest \in Seq(Frame) /\ Top \in Frame /\ Size \in Nat
  BY SplitFacts, StackFacts
<1>2. PICK P : P = PendingIn(Rest)
  OBVIOUS
<1>3. PendingIn(stack) = P /\ Apart(Rest) /\ P \subseteq 1..Size
  <2>1. Pending(Top) = {} /\ Distinct(Top)
    BY NoPending
  <2>2. PendingIn(stack) = PendingIn(Rest) /\ (Apart(stack) <=> Apart(Rest))
    BY <1>1, <2>1, NothingPending, Zenon
  <2> QED
    BY <1>2, <2>2, PendingRange DEF Terminated
<1>4. PendingIn(s) = P /\ Apart(s)
  <2>1. CASE s = Rest
    BY <1>2, <1>3, <2>1
  <2>2. ASSUME NEW f \in Frame, f.node # "if", s = Append(Rest, f) PROVE PendingIn(s) = P /\ Apart(s)
    <3>1. Pending(f) = {} /\ Distinct(f)
      BY <2>2, NoPending
    <3> QED
      BY <1>1, <1>2, <1>3, <2>2, <3>1, NothingPending
  <2> QED
    BY <2>1, <2>2
<1>5. Size + 1..Size + 1 = {Size + 1} /\ Size + 1 \notin P
  BY <1>1, <1>3
<1>6. {Size + 1} \cup P = P \cup (Size + 1..Size + 1)
  BY <1>5, Zenon
<1> QED
  BY <1>3, <1>4, <1>5, <1>6, BranchedTerminates

LEMMA BlockResume == ASSUME ShapeInv, NullInv, BlockInv, Resume PROVE BlockInv'
<1>1. ASSUME NEW v, Leave(v), phase = "return", stack # <<>>, result' = result,
             ~v.ok \/ Top.node # "if", cfg'.terms = cfg.terms, cur' = cur
      PROVE  BlockInv'
  BY <1>1, BlockLeaves DEF Leave
<1>2. ASSUME NEW V, \A w \in V : ValueOK(w, Size), cfg' = WithUses(cfg, cur, V)
      PROVE  cfg'.terms = cfg.terms
  <2>1. GraphOK(cfg) /\ cur \in 1..Size
    BY DEF ShapeInv
  <2> QED
    BY <1>2, <2>1, WithUsesFacts DEF Size
<1>3. phase = "return" => \A w \in {val} : ValueOK(w, Size)
  BY DEF ShapeInv
<1>4. CASE PartFails
  BY <1>1, <1>4 DEF PartFails, SameCode, NoCode, SameBody, Null
<1>5. CASE AssignDone
  <2>1. phase = "return" /\ stack # <<>> /\ Top.node = "assign" /\ result' = result
    BY <1>5 DEF AssignDone, Got, SameBody
  <2>2. cfg'.terms = cfg.terms /\ cur' = cur
    BY <1>2, <1>3, <1>5, <2>1 DEF AssignDone, NoCode
  <2> QED
    BY <1>1, <1>5, <2>1, <2>2 DEF AssignDone
<1>6. CASE UnaryDone
  <2>1. phase = "return" /\ stack # <<>> /\ Top.node = "unary" /\ result' = result
    BY <1>6 DEF UnaryDone, Got, SameBody
  <2>2. cfg'.terms = cfg.terms /\ cur' = cur
    BY <1>2, <1>3, <1>6, <2>1 DEF UnaryDone, NoCode
  <2>3. \E v : Return(v) /\ stack' = Rest
    BY <1>6 DEF UnaryDone, Leave
  <2> QED
    BY <2>1, <2>2, <2>3, BlockLeaves
<1>7. CASE LastOperand
  <2>1. phase = "return" /\ stack # <<>> /\ Top.node # "if" /\ result' = result
    BY <1>7 DEF LastOperand, Got, SameBody
  <2>2. \A w \in Top.vals \cup {val} : ValueOK(w, Size)
    BY <1>3, <2>1, GotFacts DEF FrameOK
  <2>3. cfg'.terms = cfg.terms /\ cur' = cur
    BY <1>2, <1>7, <2>2 DEF LastOperand, NoCode
  <2> QED
    BY <1>1, <1>7, <2>1, <2>3 DEF LastOperand
<1>8. CASE NextOperand \/ ForBody \/ ForStep \/ VarBody
  <2>1. Untouched
    BY <1>8, ContinueEffect
  <2> QED
    BY <2>1, BlockReplaces DEF Untouched
<1>9. CASE ForStart
  <2>1. PICK f : GoesOn(f)
    BY <1>9, ForStartEffect
  <2>2. /\ phase # "idle" /\ stack # <<>> /\ stack' = Append(Rest, f) /\ f \in Frame
        /\ f.node # "if" /\ nulls' = nulls /\ result' = result
        /\ Top.node # "if" /\ cur' = Size + 1 /\ Branched(1)
    BY <1>9, <2>1, ForStartEffect DEF GoesOn
  <2>3. ASSUME ~nulls PROVE Terminated(stack', cfg', cur')
    BY <2>2, <2>3, BlockNow, BlockLoop
  <2> QED
    BY <2>2, <2>3, BlockKeeps
<1>10. CASE ForEnd
  <2>1. /\ phase = "return" /\ stack # <<>> /\ Top.node = "for" /\ stack' = Rest
        /\ cur' = Size + 1 /\ Branched(1)
    BY <1>10, ForEndEffect
  <2>2. result' = result /\ (~nulls' => ~nulls)
    BY <1>10 DEF ForEnd, SameBody, Leave, Return
  <2>3. ASSUME ~nulls PROVE Terminated(stack', cfg', cur')
    BY <2>1, <2>3, BlockNow, BlockLoop
  <2> QED
    BY <2>1, <2>2, <2>3, BlockKeeps
<1>11. ASSUME NEW x, NEW n, Bind(x, n), stack # <<>>, phase \in {"return", "bind"},
              Top.node = "var", Len(Top.own) < Len(Top.names), ValueOK(x, Size)
       PROVE  BlockInv'
  <2>1. SameBlocks /\ \E f : GoesOn(f)
    BY <1>11, BindEffect
  <2> QED
    BY <1>11, <2>1, BlockReplaces
<1>12. CASE VarNext
  <2>1. phase = "bind" /\ stack # <<>> /\ Top.node = "var" /\ Len(Top.own) < Len(Top.names)
    BY <1>12 DEF VarNext, ShapeInv
  <2>2. CASE Bind(Const, "default")
    <3>1. ValueOK(Const, Size)
      BY StackFacts DEF ValueOK, Const, Value
    <3> QED
      BY <1>11, <2>1, <2>2, <3>1
  <2>3. CASE phase' = "visit" /\ UNCHANGED <<val, nulls, stack, loc>> /\ SameCode /\ SameBody
    BY <2>1, <2>3, BlockNow, BlockKeeps DEF SameCode, NoCode, SameBody
  <2> QED
    BY <1>12, <2>2, <2>3 DEF VarNext
<1>13. CASE VarInit
  <2>1. phase = "return" /\ stack # <<>> /\ Top.node = "var" /\ Top.step = "init"
    BY <1>13 DEF VarInit, Got
  <2>2. Len(Top.own) < Len(Top.names) /\ ValueOK(val, Size)
    BY <2>1, GotFacts DEF Waits
  <2> QED
    BY <1>11, <1>13, <2>1, <2>2 DEF VarInit
<1>14. CASE VarDone
  BY <1>1, <1>14 DEF VarDone, Got, NoCode
<1> QED
  BY <1>4, <1>5, <1>6, <1>7, <1>8, <1>9, <1>10, <1>12, <1>13, <1>14,
     BlockIfCond, BlockIfThen, BlockIfElse DEF Resume

LEMMA BlockBegin == ASSUME NEW ps \in ArgLists, ShapeInv, Begin(ps) PROVE BlockInv'
<1>1. stack' = <<>> /\ result' = "none" /\ cur' = 1 /\ cfg' = EntryOnly
  BY DEF Begin, ShapeInv
<1>2. PendingIn(<<>>) = {} /\ Apart(<<>>)
  BY DEF PendingIn, Apart
<1>3. Terminated(<<>>, EntryOnly, 1)
  <2>1. Len(EntryOnly.terms) = 1 /\ EntryOnly.terms[1] = 0 /\ \A b \in 1..1 : b = 1
    BY EntryFacts
  <2> QED
    BY <1>2, <2>1 DEF Terminated
<1> QED
  BY <1>1, <1>3 DEF BlockInv, OneTerminatorEach

LEMMA BlockFinish == ASSUME ShapeInv, NullInv, BlockInv, Finish PROVE BlockInv'
<1>1. phase = "return" /\ stack = <<>> /\ phase' = "idle"
  BY DEF Finish
<1>2. CASE val.ok
  <2>1. cfg' = WithBranch(WithUses(cfg, cur, {val}), cur, {})
    BY <1>2 DEF Finish
  <2>2. ~nulls
    <3>1. DOMAIN stack = {}
      BY <1>1
    <3> QED
      BY <1>1, <1>2, <3>1 DEF NullInv
  <2>3. Terminated(<<>>, cfg, cur) /\ PendingIn(<<>>) = {}
    BY <1>1, <2>2, BlockNow DEF PendingIn
  <2>4. GraphOK(cfg) /\ cur \in 1..Size /\ \A w \in {val} : ValueOK(w, Size)
    BY <1>1 DEF ShapeInv
  <2> DEFINE u == WithUses(cfg, cur, {val})
  <2>5. GraphOK(u) /\ u.terms = cfg.terms
    BY <2>4, WithUsesFacts DEF Size
  <2> HIDE DEF u
  <2>6. /\ Len(WithBranch(u, cur, {}).terms) = Size
        /\ \A b \in 1..Size : WithBranch(u, cur, {}).terms[b] =
             IF b = cur THEN cfg.terms[b] + 1 ELSE cfg.terms[b]
    BY <2>4, <2>5, WithBranchFacts DEF Size
  <2>7. \A b \in 1..Size : cfg.terms[b] = IF b = cur THEN 0 ELSE 1
    BY <2>3 DEF Terminated, Size
  <2>8. \A b \in 1..Size : WithBranch(u, cur, {}).terms[b] = 1
    BY <2>6, <2>7
  <2>9. cfg' = WithBranch(u, cur, {}) /\ WithBranch(u, cur, {}).terms \in Seq(Nat)
    BY <2>1, <2>4, <2>5, WithBranchFacts DEF u, GraphOK, Graph, Size
  <2>10. DOMAIN cfg'.terms = 1..Size
    BY <2>6, <2>9, LenProperties
  <2> QED
    BY <1>1, <2>8, <2>9, <2>10, Zenon DEF BlockInv, OneTerminatorEach, Blocks
<1>3. CASE ~val.ok
  BY <1>1, <1>3 DEF Finish, BlockInv, OneTerminatorEach
<1> QED
  BY <1>2, <1>3

LEMMA BlockStep == ShapeInv /\ NullInv /\ BlockInv /\ [Next]_vars => BlockInv'
<1> SUFFICES ASSUME ShapeInv, NullInv, BlockInv, [Next]_vars PROVE BlockInv'
  OBVIOUS
<1>1. CASE UNCHANGED vars
  BY <1>1 DEF vars, BlockInv, OneTerminatorEach, Blocks
<1> QED
  BY <1>1, BlockBegin, BlockVisit, BlockResume, BlockFinish DEF Next

LEMMA NullHolds == Spec => []NullInv
<1>1. Init => NullInv
  BY DEF Init, NullInv, FailureReachesTheTop
<1> QED
  BY <1>1, NullStep, ShapeHolds, PTL DEF Spec

\* A body that is generated is made of basic blocks: however its branches, loops and
\* scopes nest, each block gets exactly one terminator, and the blocks an `if` has made
\* ahead get theirs when generation comes to them.
THEOREM BlocksAreTerminated == Spec => []OneTerminatorEach
<1>1. Init => BlockInv
  BY DEF Init, BlockInv, OneTerminatorEach
<1>2. BlockInv => OneTerminatorEach
  BY DEF BlockInv
<1> QED
  BY <1>1, <1>2, BlockStep, ShapeHolds, NullHolds, PTL DEF Spec

-----------------------------------------------------------------------------
\* The last binding of a name by a visit.
LEMMA BoundFacts ==
    ASSUME NEW f \in Frame, NEW v
    PROVE  /\ (f.step = "start" \/ \A i \in DOMAIN f.own : f.names[i] # v) => Bound(f, v) = 0
           /\ \A k \in DOMAIN f.own :
                f.step # "start" /\ f.names[k] = v
                  /\ (\A j \in DOMAIN f.own : f.names[j] = v => j <= k) => Bound(f, v) = f.own[k]
<1>1. PICK B : B = {i \in DOMAIN f.own : f.names[i] = v /\ f.step # "start"}
  OBVIOUS
<1>2. Bound(f, v) = IF B = {} THEN 0 ELSE f.own[CHOOSE i \in B : \A j \in B : j <= i]
  BY <1>1 DEF Bound
<1>3. ASSUME f.step = "start" \/ \A i \in DOMAIN f.own : f.names[i] # v PROVE Bound(f, v) = 0
  BY <1>1, <1>2, <1>3
<1>4. ASSUME NEW k \in DOMAIN f.own, f.step # "start", f.names[k] = v,
             \A j \in DOMAIN f.own : f.names[j] = v => j <= k
      PROVE  Bound(f, v) = f.own[k]
  <2>1. DOMAIN f.own \subseteq Nat
    BY LenProperties DEF Frame
  <2>2. k \in B /\ (\A j \in B : j <= k) /\ B \subseteq Nat
    BY <1>1, <1>4, <2>1
  <2>3. PICK c : c = CHOOSE i \in B : \A j \in B : j <= i
    OBVIOUS
  <2>4. c \in B /\ \A j \in B : j <= c
    BY <2>2, <2>3
  <2>5. c = k
    <3>1. c \in Nat /\ k \in Nat /\ c <= k /\ k <= c
      BY <2>2, <2>4
    <3> QED
      BY <3>1
  <2> QED
    BY <1>2, <2>2, <2>3, <2>5
<1> QED
  BY <1>3, <1>4

\* Inside a visit a name stands for what the visit binds it to, or else for what it
\* stands for outside.
LEMMA SeesPush ==
    ASSUME NEW s \in Seq(Frame), NEW f \in Frame, NEW ps, NEW v
    PROVE  Sees(Append(s, f), ps, v) = IF Bound(f, v) # 0 THEN Bound(f, v) ELSE Sees(s, ps, v)
<1>1. PICK t : t = Append(s, f)
  OBVIOUS
<1>2. PICK n \in Nat : n = Len(s)
  BY LenProperties
<1>3. /\ DOMAIN s = 1..n /\ DOMAIN t = 1..n + 1
      /\ t[n + 1] = f /\ \A i \in 1..n : t[i] = s[i]
  <2>1. t \in Seq(Frame) /\ Len(t) = n + 1
    BY <1>1, <1>2, PushFacts
  <2> QED
    BY <1>1, <1>2, <2>1, PushFacts, LenProperties
<1>4. n + 1 \in 1..n + 1 /\ \A i \in 1..n + 1 : i <= n + 1 /\ (n + 1 <= i => i = n + 1)
  OBVIOUS
<1>5. \A i : i \in 1..n + 1 <=> i = n + 1 \/ i \in 1..n
  OBVIOUS
<1>6. \A i \in 1..n : i # n + 1
  OBVIOUS
<1>7. PICK A, C : /\ A = {i \in 1..n + 1 : Bound(t[i], v) # 0}
                  /\ C = {i \in 1..n : Bound(s[i], v) # 0}
  OBVIOUS
<1>8. Sees(t, ps, v) = IF A = {} THEN Position(ps, v)
                       ELSE Bound(t[CHOOSE i \in A : \A j \in A : j <= i], v)
  BY <1>3, <1>7 DEF Sees
<1>9. Sees(s, ps, v) = IF C = {} THEN Position(ps, v)
                       ELSE Bound(s[CHOOSE i \in C : \A j \in C : j <= i], v)
  BY <1>3, <1>7 DEF Sees
<1>10. CASE Bound(f, v) # 0
  <2>1. n + 1 \in A /\ \A j \in A : j <= n + 1
    BY <1>3, <1>4, <1>7, <1>10
  <2>2. PICK c : c = CHOOSE i \in A : \A j \in A : j <= i
    OBVIOUS
  <2>3. c \in A /\ \A j \in A : j <= c
    BY <2>1, <2>2
  <2>4. c = n + 1
    BY <1>4, <1>7, <2>1, <2>3
  <2> QED
    BY <1>1, <1>3, <1>8, <1>10, <2>1, <2>2, <2>4
<1>11. CASE Bound(f, v) = 0
  <2>1. A = C
    BY <1>3, <1>5, <1>7, <1>11, Zenon
  <2>2. CASE C = {}
    BY <1>1, <1>8, <1>9, <1>11, <2>1, <2>2
  <2>3. CASE C # {}
    <3>1. C \subseteq Nat /\ \A i \in C : i <= n
      BY <1>7
    <3>2. \E i \in C : \A j \in C : j <= i
      BY <2>3, <3>1, GreatestExists
    <3>3. PICK c : c = CHOOSE i \in C : \A j \in C : j <= i
      OBVIOUS
    <3>4. c \in C
      BY <3>2, <3>3
    <3>5. t[c] = s[c]
      BY <1>3, <1>7, <3>4
    <3>6. Sees(t, ps, v) = Bound(t[c], v) /\ Sees(s, ps, v) = Bound(s[c], v)
      BY <1>8, <1>9, <2>1, <2>3, <3>3, Zenon
    <3> QED
      BY <1>1, <1>11, <3>5, <3>6
  <2> QED
    BY <2>2, <2>3
<1> QED
  BY <1>10, <1>11

LEMMA KeepOldPush ==
    ASSUME NEW s \in Seq(Frame), NEW f \in Frame, NEW ps
    PROVE  AllKeepOld(Append(s, f), ps) <=> AllKeepOld(s, ps) /\ KeepsOld(f, s, ps)
<1>1. PICK t : t = Append(s, f)
  OBVIOUS
<1>2. PICK n \in Nat : n = Len(s)
  BY LenProperties
<1>3. /\ DOMAIN s = 1..n /\ DOMAIN t = 1..n + 1
      /\ t[n + 1] = f /\ \A i \in 1..n : t[i] = s[i]
  <2>1. t \in Seq(Frame) /\ Len(t) = n + 1
    BY <1>1, <1>2, PushFacts
  <2> QED
    BY <1>1, <1>2, <2>1, PushFacts, LenProperties
<1>4. \A i : i \in 1..n + 1 <=> i = n + 1 \/ i \in 1..n
  OBVIOUS
<1>5. \A i \in 1..n : SubSeq(t, 1, i - 1) = SubSeq(s, 1, i - 1)
  <2> SUFFICES ASSUME NEW i \in 1..n PROVE SubSeq(t, 1, i - 1) = SubSeq(s, 1, i - 1)
    OBVIOUS
  <2>1. \A j \in 1..i - 1 : j \in 1..n
    OBVIOUS
  <2>2. [j \in 1..i - 1 |-> t[j]] = [j \in 1..i - 1 |-> s[j]]
    BY <1>3, <2>1
  <2>3. SubSeq(t, 1, i - 1) = [j \in 1..i - 1 |-> t[j]]
    OBVIOUS
  <2>4. SubSeq(s, 1, i - 1) = [j \in 1..i - 1 |-> s[j]]
    OBVIOUS
  <2> QED
    BY <2>2, <2>3, <2>4
<1>6. SubSeq(t, 1, (n + 1) - 1) = s
  <2>1. AllButLast(t) = s /\ Len(t) = n + 1
    BY <1>1, <1>2, PushFacts
  <2> QED
    BY <2>1 DEF AllButLast
<1>7. AllKeepOld(t, ps) <=> \A i \in 1..n + 1 : KeepsOld(t[i], SubSeq(t, 1, i - 1), ps)
  BY <1>3, Zenon DEF AllKeepOld
<1>8. AllKeepOld(s, ps) <=> \A i \in 1..n : KeepsOld(s[i], SubSeq(s, 1, i - 1), ps)
  BY <1>3, Zenon DEF AllKeepOld
<1>9. \A i \in 1..n : KeepsOld(t[i], SubSeq(t, 1, i - 1), ps)
                        <=> KeepsOld(s[i], SubSeq(s, 1, i - 1), ps)
  BY <1>3, <1>5, Zenon
<1>10. KeepsOld(t[n + 1], SubSeq(t, 1, (n + 1) - 1), ps) <=> KeepsOld(f, s, ps)
  BY <1>3, <1>6, Zenon
<1> DEFINE Q(i) == KeepsOld(t[i], SubSeq(t, 1, i - 1), ps)
<1>11. (\A i \in 1..n + 1 : Q(i)) <=> (\A i \in 1..n : Q(i)) /\ Q(n + 1)
  <2> HIDE DEF Q
  <2> QED
    BY <1>4, Zenon
<1>12. (\A i \in 1..n : Q(i)) <=> AllKeepOld(s, ps)
  BY <1>8, <1>9, Zenon
<1> QED
  BY <1>1, <1>7, <1>10, <1>11, <1>12, Zenon

\* What a step has to show, in terms of what it leaves behind.
ScopedBy(s, m, ps) == AllKeepOld(s, ps) /\ \A v \in Var : m[v] = Sees(s, ps, v)

LEMMA ScopeKeeps ==
    ASSUME ~nulls' /\ ~doubled' => ScopedBy(stack', named', args')
    PROVE  ScopeInv'
BY Zenon DEF ScopeInv, ScopedBy

LEMMA ScopeNow ==
    ASSUME ScopeInv, phase # "idle", ~nulls, ~doubled
    PROVE  ScopedBy(stack, named, args)
BY DEF ScopeInv, ScopedBy

\* A visit that binds nothing.
LEMMA ScopePush ==
    ASSUME NEW s \in Seq(Frame), NEW f \in Frame, \A v \in Var : Bound(f, v) = 0,
           NEW m, NEW ps, ScopedBy(s, m, ps), KeepsOld(f, s, ps)
    PROVE  ScopedBy(Append(s, f), m, ps)
<1>1. \A v \in Var : Sees(Append(s, f), ps, v) = Sees(s, ps, v)
  BY SeesPush
<1>2. AllKeepOld(Append(s, f), ps)
  BY KeepOldPush DEF ScopedBy
<1> QED
  BY <1>1, <1>2 DEF ScopedBy

LEMMA ScopePop ==
    ASSUME NEW s \in Seq(Frame), NEW f \in Frame, NEW m, NEW ps, ScopedBy(Append(s, f), m, ps)
    PROVE  /\ AllKeepOld(s, ps) /\ KeepsOld(f, s, ps)
           /\ \A v \in Var : Bound(f, v) = 0 => m[v] = Sees(s, ps, v)
<1>1. AllKeepOld(s, ps) /\ KeepsOld(f, s, ps)
  BY KeepOldPush, Zenon DEF ScopedBy
<1>2. \A v \in Var : m[v] = Sees(Append(s, f), ps, v)
  BY DEF ScopedBy
<1>3. \A v \in Var : Bound(f, v) = 0 => Sees(Append(s, f), ps, v) = Sees(s, ps, v)
  BY SeesPush
<1> QED
  BY <1>1, <1>2, <1>3

\* A visit that binds what it bound.
LEMMA ScopeReplaces ==
    ASSUME ShapeInv, ScopeInv, NEW f, GoesOn(f), f.own = Top.own, f.old = Top.old,
           Started(f), Started(Top), named' = named
    PROVE  ScopeInv'
<1>1. /\ phase # "idle" /\ stack # <<>> /\ stack' = Append(Rest, f) /\ f \in Frame
      /\ f.names = Top.names
      /\ UNCHANGED <<nulls, args, doubled>>
  BY DEF GoesOn
<1>2. stack = Append(Rest, Top) /\ Rest \in Seq(Frame) /\ Top \in Frame
  BY <1>1, SplitFacts
<1>3. \A v : Bound(f, v) = Bound(Top, v)
  <2>1. CASE Top.own = <<>>
    <3>1. DOMAIN Top.own = {} /\ DOMAIN f.own = {}
      BY <2>1
    <3> QED
      BY <1>1, <1>2, <3>1, BoundFacts
  <2>2. CASE Top.step # "start" /\ f.step # "start"
    <3> TAKE v
    <3>5. PICK o : o = f.own /\ o = Top.own
      OBVIOUS
    <3>1. PICK B : B = {i \in DOMAIN f.own : f.names[i] = v /\ f.step # "start"}
      OBVIOUS
    <3>2. B = {i \in DOMAIN Top.own : Top.names[i] = v /\ Top.step # "start"}
      BY <1>1, <2>2, <3>1
    <3>7. PICK c : c = CHOOSE i \in B : \A j \in B : j <= i
      BY Zenon
    <3>6. PICK r : r = IF B = {} THEN 0 ELSE o[c]
      BY Zenon
    <3>3. Bound(f, v) = r
      BY <3>5, <3>1, <3>6, <3>7 DEF Bound
    <3>4. Bound(Top, v) = r
      BY <3>5, <3>2, <3>6, <3>7 DEF Bound
    <3> QED
      BY <3>3, <3>4
  <2> QED
    BY <2>1, <2>2 DEF Started
<1>4. ASSUME ~nulls, ~doubled PROVE ScopedBy(stack', named', args')
  <2>1. ScopedBy(Append(Rest, Top), named, args)
    BY <1>1, <1>2, <1>4, ScopeNow
  <2>2. AllKeepOld(Rest, args) /\ KeepsOld(Top, Rest, args)
    BY <1>2, <2>1, ScopePop
  <2>3. KeepsOld(f, Rest, args)
    BY <1>1, <2>2 DEF KeepsOld
  <2>4. AllKeepOld(Append(Rest, f), args)
    BY <1>1, <1>2, <2>2, <2>3, KeepOldPush
  <2>5. \A v : Sees(Append(Rest, f), args, v) = Sees(Append(Rest, Top), args, v)
    BY <1>1, <1>2, <1>3, SeesPush
  <2>6. ScopedBy(Append(Rest, f), named, args)
    BY <2>1, <2>4, <2>5 DEF ScopedBy
  <2> QED
    BY <1>1, <2>6
<1> QED
  BY <1>1, <1>4, ScopeKeeps

LEMMA ScopeLeaves ==
    ASSUME ShapeInv, ScopeInv, phase = "return", stack # <<>>, stack' = Rest, NEW v, Return(v),
           ~v.ok \/ (named' = named /\ (Top.own = <<>> \/ Top.step = "start")),
           UNCHANGED <<args, doubled>>
    PROVE  ScopeInv'
<1>1. nulls' = (nulls \/ ~v.ok)
  BY DEF Return
<1>2. ASSUME ~nulls', ~doubled' PROVE ScopedBy(stack', named', args')
  <2>1. stack = Append(Rest, Top) /\ Rest \in Seq(Frame) /\ Top \in Frame
    BY SplitFacts
  <2>2. ~nulls /\ ~doubled /\ named' = named /\ (Top.own = <<>> \/ Top.step = "start")
    BY <1>1, <1>2
  <2>3. ScopedBy(Append(Rest, Top), named, args)
    BY <2>1, <2>2, ScopeNow
  <2>4. \A x : Bound(Top, x) = 0
    <3>1. Top.own = <<>> => DOMAIN Top.own = {}
      OBVIOUS
    <3> QED
      BY <2>1, <2>2, <3>1, BoundFacts
  <2>5. AllKeepOld(Rest, args) /\ \A x \in Var : named[x] = Sees(Rest, args, x)
    BY <2>1, <2>3, <2>4, ScopePop
  <2> QED
    BY <2>2, <2>5 DEF ScopedBy
<1> QED
  BY <1>2, ScopeKeeps

\* A scope that ends.
LEMMA ScopeRestores ==
    ASSUME ShapeInv, ScopeInv, phase = "return", stack # <<>>, stack' = Rest, NEW v, Return(v),
           named' = Restored(Top), Len(Top.names) = Len(Top.old), Len(Top.own) = Len(Top.names),
           Top.old \in Seq(0..allocas), args' = args,
           ~doubled' => ~doubled /\ \A i, j \in DOMAIN Top.names : Top.names[i] = Top.names[j] => i = j
    PROVE  ScopeInv'
<1>1. nulls' = (nulls \/ ~v.ok)
  BY DEF Return
<1>2. ASSUME ~nulls', ~doubled' PROVE ScopedBy(stack', named', args')
  <2>1. stack = Append(Rest, Top) /\ Rest \in Seq(Frame) /\ Top \in Frame
    BY SplitFacts
  <2>2. /\ ~nulls /\ ~doubled
        /\ \A i, j \in DOMAIN Top.names : Top.names[i] = Top.names[j] => i = j
    BY <1>1, <1>2
  <2>3. ScopedBy(Append(Rest, Top), named, args)
    BY <2>1, <2>2, ScopeNow
  <2>4. /\ AllKeepOld(Rest, args) /\ KeepsOld(Top, Rest, args)
        /\ \A x \in Var : Bound(Top, x) = 0 => named[x] = Sees(Rest, args, x)
    BY <2>1, <2>3, ScopePop
  <2>5. PICK n \in Nat : /\ DOMAIN Top.names = 1..n /\ DOMAIN Top.old = 1..n
                         /\ DOMAIN Top.own = 1..n
    <3>1. PICK ns, o, d : ns = Top.names /\ o = Top.own /\ d = Top.old
      OBVIOUS
    <3>2. ns \in Seq(Var) /\ o \in Seq(Nat) /\ d \in Seq(Nat) /\ Len(o) = Len(ns) /\ Len(d) = Len(ns)
      BY <2>1, <3>1 DEF Frame
    <3> QED
      BY <3>1, <3>2, LenProperties
  <2>6. ASSUME NEW x \in Var PROVE Restored(Top)[x] = Sees(Rest, args, x)
    <3>1. CASE \A i \in DOMAIN Top.names : Top.names[i] # x
      <4>1. Bound(Top, x) = 0
        BY <2>1, <2>5, <3>1, BoundFacts
      <4>2. Restored(Top)[x] = named[x]
        BY <2>1, <3>1, RestoredFacts
      <4> QED
        BY <2>4, <4>1, <4>2
    <3>2. ASSUME NEW k \in DOMAIN Top.names, Top.names[k] = x
          PROVE  Restored(Top)[x] = Sees(Rest, args, x)
      <4>1. Restored(Top)[Top.names[k]] = Top.old[k]
        BY <2>1, <2>2, RestoredFacts
      <4>2. \A j \in 1..k - 1 : j \in 1..n /\ j # k
        BY <2>5
      <4>3. \A j \in 1..k - 1 : Top.names[j] # Top.names[k]
        BY <2>2, <2>5, <4>2
      <4>4. Top.old[k] = Sees(Rest, args, Top.names[k])
        BY <2>4, <2>5, <4>3 DEF KeepsOld
      <4> QED
        BY <3>2, <4>1, <4>4
    <3> QED
      BY <3>1, <3>2
  <2> QED
    BY <2>4, <2>6 DEF ScopedBy
<1> QED
  BY <1>2, ScopeKeeps

LEMMA ScopeVisit == ASSUME ShapeInv, ScopeInv, Visit PROVE ScopeInv'
<1>1. ASSUME NEW f, Begins(f) PROVE ScopeInv'
  <2>1. /\ phase = "visit" /\ stack' = Append(stack, f) /\ f \in Frame
        /\ UNCHANGED <<named, args, nulls, doubled>>
        /\ f.own = <<>> \/ f.step = "start"
        /\ f.old = <<>>
    BY <1>1 DEF Begins, Enter, Fresh
  <2>2. ASSUME ~nulls, ~doubled PROVE ScopedBy(stack', named', args')
    <3>1. ScopedBy(stack, named, args) /\ stack \in Seq(Frame)
      BY <2>1, <2>2, ScopeNow, StackFacts
    <3>2. \A v : Bound(f, v) = 0
      <4>1. f.own = <<>> => DOMAIN f.own = {}
        OBVIOUS
      <4> QED
        BY <2>1, <4>1, BoundFacts
    <3>3. KeepsOld(f, stack, args)
      <4>1. DOMAIN f.old = {}
        BY <2>1
      <4> QED
        BY <4>1 DEF KeepsOld
    <3>4. ScopedBy(Append(stack, f), named, args)
      BY <2>1, <3>1, <3>2, <3>3, ScopePush
    <3> QED
      BY <2>1, <3>4
  <2> QED
    BY <2>1, <2>2, ScopeKeeps
<1>2. ASSUME NEW n, NEW v, Ends(n, v) PROVE ScopeInv'
  <2>1. /\ phase = "visit" /\ UNCHANGED <<stack, named, args, doubled>>
        /\ nulls' = (nulls \/ ~v.ok)
    BY <1>2 DEF Ends, Return, SameBody
  <2>2. ASSUME ~nulls', ~doubled' PROVE ScopedBy(stack', named', args')
    BY <2>1, <2>2, ScopeNow
  <2> QED
    BY <2>2, ScopeKeeps
<1> QED
  BY <1>1, <1>2, VisitCases

LEMMA ScopeForStart == ASSUME ShapeInv, ScopeInv, ForStart PROVE ScopeInv'
<1> DEFINE x == Top.names[1]
           a == Top.own[1]
<1>1. PICK f : GoesOn(f) /\ f.step = "body" /\ f.own = Top.own /\ f.old = <<named[x]>>
  BY ForStartEffect
<1>2. /\ Top.node = "for" /\ Top.step = "start" /\ named' = [named EXCEPT ![x] = a]
      /\ x \in Var /\ Len(Top.names) = 1 /\ Len(Top.own) = 1 /\ a # 0
  BY ForStartEffect
<1>3. /\ phase # "idle" /\ stack # <<>> /\ stack' = Append(Rest, f) /\ f \in Frame
      /\ f.names = Top.names /\ UNCHANGED <<nulls, args, doubled>>
  BY <1>1 DEF GoesOn
<1>4. stack = Append(Rest, Top) /\ Rest \in Seq(Frame) /\ Top \in Frame
  BY <1>3, SplitFacts
<1>5. DOMAIN f.own = {1} /\ f.names[1] = x /\ f.own[1] = a
  <2>1. DOMAIN Top.own = 1..1 /\ 1..1 = {1}
    BY <1>2, <1>4, LenProperties DEF Frame
  <2> QED
    BY <1>1, <1>3, <2>1
<1>6. Bound(f, x) = a /\ (\A v \in Var : v # x => Bound(f, v) = 0) /\ (\A v : Bound(Top, v) = 0)
  <2>1. \A j \in DOMAIN f.own : j <= 1
    BY <1>5
  <2>2. f.step # "start"
    BY <1>1
  <2>3. Bound(f, x) = a
    BY <1>3, <1>5, <2>1, <2>2, BoundFacts
  <2>4. \A v \in Var : v # x => Bound(f, v) = 0
    BY <1>3, <1>5, BoundFacts
  <2>5. \A v : Bound(Top, v) = 0
    BY <1>2, <1>4, BoundFacts
  <2> QED
    BY <2>3, <2>4, <2>5
<1> HIDE DEF x, a
<1>7. ASSUME ~nulls, ~doubled PROVE ScopedBy(stack', named', args')
  <2>1. ScopedBy(Append(Rest, Top), named, args)
    BY <1>3, <1>4, <1>7, ScopeNow
  <2>2. AllKeepOld(Rest, args) /\ \A v \in Var : named[v] = Sees(Rest, args, v)
    BY <1>4, <1>6, <2>1, ScopePop
  <2>3. KeepsOld(f, Rest, args)
    <3>1. PICK y : y = named[x]
      OBVIOUS
    <3>2. DOMAIN f.old = {1} /\ f.old[1] = y
      BY <1>1, <3>1
    <3>3. f.names[1] = x /\ y = Sees(Rest, args, x)
      BY <1>2, <1>5, <2>2, <3>1
    <3> QED
      BY <3>2, <3>3 DEF KeepsOld
  <2>4. AllKeepOld(Append(Rest, f), args)
    BY <1>3, <1>4, <2>2, <2>3, KeepOldPush, Zenon
  <2>5. ASSUME NEW v \in Var PROVE named'[v] = Sees(Append(Rest, f), args, v)
    <3>1. named \in [Var -> 0..allocas]
      BY DEF ShapeInv
    <3>2. Sees(Append(Rest, f), args, v) = IF Bound(f, v) # 0 THEN Bound(f, v) ELSE Sees(Rest, args, v)
      BY <1>3, <1>4, SeesPush
    <3>3. CASE v = x
      BY <1>2, <1>6, <3>1, <3>2, <3>3
    <3>4. CASE v # x
      BY <1>2, <1>6, <2>2, <3>1, <3>2, <3>4
    <3> QED
      BY <3>3, <3>4
  <2> QED
    BY <1>3, <2>4, <2>5 DEF ScopedBy
<1> QED
  BY <1>3, <1>7, ScopeKeeps

LEMMA ScopeBind ==
    ASSUME ShapeInv, ScopeInv, NEW y, NEW n, Bind(y, n), stack # <<>>, phase \in {"return", "bind"},
           Top.node = "var", Top.step = "init", Len(Top.own) < Len(Top.names), ValueOK(y, Size)
    PROVE  ScopeInv'
<1>1. PICK k, a, x : k = Len(Top.own) + 1 /\ a = allocas + 1 /\ x = Top.names[k]
  OBVIOUS
<1>2. PICK f : /\ GoesOn(f) /\ f.step = Top.step /\ f.own = Append(Top.own, a)
               /\ f.old = Append(Top.old, named[x])
  BY <1>1, BindEffect
<1>3. /\ k \in 1..Len(Top.names) /\ x \in Var /\ Len(Top.old) = k - 1
      /\ named' = [named EXCEPT ![x] = a]
  BY <1>1, BindEffect
<1>4. /\ phase # "idle" /\ stack' = Append(Rest, f) /\ f \in Frame
      /\ f.names = Top.names /\ f.step # "start" /\ Top.step # "start"
      /\ UNCHANGED <<nulls, args, doubled>>
  BY <1>2 DEF GoesOn
<1>5. stack = Append(Rest, Top) /\ Rest \in Seq(Frame) /\ Top \in Frame
  BY SplitFacts
<1>6. PICK m \in Nat : m = Len(Top.own)
  BY <1>5, LenProperties DEF Frame
<1>7. a \in Nat /\ a # 0
  <2>1. allocas \in Nat
    BY StackFacts
  <2> QED
    BY <1>1, <2>1
<1>8. /\ DOMAIN Top.own = 1..m /\ DOMAIN f.own = 1..m + 1 /\ k = m + 1
      /\ f.own[m + 1] = a /\ \A i \in 1..m : f.own[i] = Top.own[i]
  <2>1. PICK o : o = Top.own
    OBVIOUS
  <2>2. o \in Seq(Nat) /\ Len(o) = m /\ f.own = Append(o, a)
    BY <1>2, <1>5, <1>6, <2>1 DEF Frame
  <2>3. DOMAIN o = 1..m
    BY <2>2, LenProperties
  <2>4. /\ Len(Append(o, a)) = m + 1 /\ Append(o, a)[m + 1] = a
        /\ \A i \in 1..m : Append(o, a)[i] = o[i]
        /\ Append(o, a) \in Seq(Nat)
    BY <1>7, <2>2, PushFacts
  <2>5. DOMAIN Append(o, a) = 1..m + 1
    BY <2>4, LenProperties
  <2> QED
    BY <1>1, <1>6, <2>1, <2>2, <2>3, <2>4, <2>5
<1>9. /\ DOMAIN Top.old = 1..m /\ DOMAIN f.old = 1..m + 1
      /\ f.old[m + 1] = named[x] /\ \A i \in 1..m : f.old[i] = Top.old[i]
  <2>1. PICK o, z : o = Top.old /\ z = named[x]
    OBVIOUS
  <2>2. o \in Seq(Nat) /\ Len(o) = m /\ f.old = Append(o, z)
    <3>1. o \in Seq(Nat) /\ f.old = Append(o, z)
      BY <1>2, <1>5, <2>1 DEF Frame
    <3>2. Len(o) = m
      BY <1>3, <1>8, <2>1
    <3> QED
      BY <3>1, <3>2
  <2>3. z \in Nat
    <3>1. named \in [Var -> 0..allocas]
      BY DEF ShapeInv
    <3> QED
      BY <1>3, <2>1, <3>1
  <2>4. DOMAIN o = 1..m
    BY <2>2, LenProperties
  <2>5. /\ Len(Append(o, z)) = m + 1 /\ Append(o, z)[m + 1] = z
        /\ \A i \in 1..m : Append(o, z)[i] = o[i]
        /\ Append(o, z) \in Seq(Nat)
    BY <2>2, <2>3, PushFacts
  <2>6. DOMAIN Append(o, z) = 1..m + 1
    BY <2>5, LenProperties
  <2> QED
    BY <2>1, <2>2, <2>4, <2>5, <2>6
<1>10. \A i : i \in 1..m + 1 <=> i = m + 1 \/ i \in 1..m
  OBVIOUS
<1>11. Bound(f, x) = a
  <2>1. \A j \in 1..m + 1 : j <= m + 1
    OBVIOUS
  <2>2. m + 1 \in DOMAIN f.own /\ f.names[m + 1] = x
    BY <1>1, <1>4, <1>8, <1>10
  <2> QED
    BY <1>4, <1>8, <2>1, <2>2, BoundFacts
<1>12. ASSUME NEW v \in Var, v # x PROVE Bound(f, v) = Bound(Top, v)
  <2>1. PICK B : B = {i \in DOMAIN f.own : f.names[i] = v /\ f.step # "start"}
    OBVIOUS
  <2>2. B = {i \in DOMAIN Top.own : Top.names[i] = v /\ Top.step # "start"}
    BY <1>1, <1>4, <1>8, <1>10, <1>12, <2>1
  <2>3. CASE B = {}
    BY <2>1, <2>2, <2>3 DEF Bound
  <2>4. CASE B # {}
    <3>1. B \subseteq Nat /\ \A i \in B : i <= m
      BY <1>8, <2>2
    <3>2. \E i \in B : \A j \in B : j <= i
      BY <2>4, <3>1, GreatestExists
    <3>3. PICK c : c = CHOOSE i \in B : \A j \in B : j <= i
      OBVIOUS
    <3>4. c \in B
      BY <3>2, <3>3
    <3>5. Bound(f, v) = f.own[c]
      BY <2>1, <2>4, <3>3 DEF Bound
    <3>6. Bound(Top, v) = Top.own[c]
      BY <2>2, <2>4, <3>3 DEF Bound
    <3>7. c \in 1..m
      BY <1>8, <2>2, <3>4
    <3> QED
      BY <1>8, <3>5, <3>6, <3>7
  <2> QED
    BY <2>3, <2>4
<1>13. ASSUME ~nulls, ~doubled PROVE ScopedBy(stack', named', args')
  <2>1. ScopedBy(Append(Rest, Top), named, args)
    BY <1>4, <1>5, <1>13, ScopeNow
  <2>2. /\ AllKeepOld(Rest, args) /\ KeepsOld(Top, Rest, args)
        /\ \A v \in Var : Bound(Top, v) = 0 => named[v] = Sees(Rest, args, v)
    BY <1>5, <2>1, ScopePop
  <2>3. ASSUME NEW i \in 1..m, \A j \in 1..i - 1 : f.names[j] # f.names[i]
        PROVE  f.old[i] = Sees(Rest, args, f.names[i])
    BY <1>4, <1>9, <2>2, <2>3 DEF KeepsOld
  <2>4. ASSUME \A j \in 1..m : f.names[j] # x PROVE named[x] = Sees(Rest, args, x)
    <3>1. Bound(Top, x) = 0
      BY <1>4, <1>5, <1>8, <2>4, BoundFacts
    <3> QED
      BY <1>3, <2>2, <3>1
  <2>5. KeepsOld(f, Rest, args)
    <3> SUFFICES ASSUME NEW i \in 1..m + 1, \A j \in 1..i - 1 : f.names[j] # f.names[i]
                 PROVE  f.old[i] = Sees(Rest, args, f.names[i])
      BY <1>9 DEF KeepsOld
    <3>1. CASE i \in 1..m
      BY <2>3, <3>1
    <3>2. CASE i = m + 1
      <4>1. 1..i - 1 = 1..m /\ f.names[i] = x
        BY <1>1, <1>4, <1>8, <3>2
      <4> QED
        BY <1>9, <2>4, <3>2, <4>1
    <3> QED
      BY <1>10, <3>1, <3>2
  <2>6. AllKeepOld(Append(Rest, f), args)
    BY <1>4, <1>5, <2>2, <2>5, KeepOldPush, Zenon
  <2>7. ASSUME NEW v \in Var PROVE named'[v] = Sees(Append(Rest, f), args, v)
    <3>1. named \in [Var -> 0..allocas]
      BY DEF ShapeInv
    <3>2. Sees(Append(Rest, f), args, v) = IF Bound(f, v) # 0 THEN Bound(f, v) ELSE Sees(Rest, args, v)
      BY <1>4, <1>5, SeesPush
    <3>3. CASE v = x
      BY <1>3, <1>7, <1>11, <3>1, <3>2, <3>3
    <3>4. CASE v # x
      <4>1. named'[v] = named[v]
        BY <1>3, <3>1, <3>4
      <4>2. named[v] = Sees(Append(Rest, Top), args, v)
        BY <2>1 DEF ScopedBy
      <4>3. Sees(Append(Rest, Top), args, v) =
              IF Bound(Top, v) # 0 THEN Bound(Top, v) ELSE Sees(Rest, args, v)
        BY <1>5, SeesPush
      <4> QED
        BY <1>12, <3>2, <3>4, <4>1, <4>2, <4>3
    <3> QED
      BY <3>3, <3>4
  <2> QED
    BY <1>4, <2>6, <2>7 DEF ScopedBy
<1> QED
  BY <1>4, <1>13, ScopeKeeps

LEMMA ScopeResume == ASSUME ShapeInv, ScopeInv, Resume PROVE ScopeInv'
<1>1. ASSUME NEW v, Return(v), stack' = Rest, phase = "return", stack # <<>>,
             UNCHANGED <<args, doubled>>, ~v.ok \/ named' = named,
             Top.node \in {"assign", "unary", "binary", "call", "if"} \/ ~v.ok
      PROVE  ScopeInv'
  <2>1. Top.own = <<>> \/ ~v.ok
    BY <1>1, TopFacts DEF FrameOK, Shape
  <2> QED
    BY <1>1, <2>1, ScopeLeaves
<1>2. CASE PartFails
  BY <1>1, <1>2 DEF PartFails, Leave, SameCode, SameBody, Null
<1>3. CASE AssignDone
  BY <1>1, <1>3 DEF AssignDone, Got, Leave, SameNames, SameBody
<1>4. CASE UnaryDone
  BY <1>1, <1>4 DEF UnaryDone, Got, Leave, SameNames, SameBody
<1>5. CASE LastOperand
  BY <1>1, <1>5 DEF LastOperand, Got, Leave, SameNames, SameBody
<1>6. CASE IfElse
  BY <1>1, <1>6 DEF IfElse, Got, Leave, SameNames, SameBody
<1>7. CASE NextOperand \/ ForBody \/ ForStep \/ VarBody
  <2>1. Untouched
    BY <1>7, ContinueEffect
  <2> QED
    BY <2>1, ScopeReplaces DEF Untouched
<1>8. CASE IfCond \/ IfThen
  <2>1. PICK f : GoesOn(f) /\ f.own = Top.own /\ f.old = Top.old
    BY <1>8, IfCondEffect, IfThenEffect
  <2>2. Top.node = "if" /\ named' = named
    BY <1>8, IfCondEffect, IfThenEffect
  <2>3. Top.own = <<>>
    BY <2>1, <2>2, TopFacts DEF GoesOn, FrameOK, Shape
  <2> QED
    BY <2>1, <2>2, <2>3, ScopeReplaces DEF Started
<1>9. CASE ForEnd
  <2>1. /\ phase = "return" /\ stack # <<>> /\ Top.node = "for" /\ Top.step = "end"
        /\ stack' = Rest /\ named' = Restored(Top)
    BY <1>9, ForEndEffect
  <2>2. Return(Const) /\ UNCHANGED <<args, doubled>>
    BY <1>9 DEF ForEnd, Leave, SameBody
  <2>3. /\ FrameOK(Top, allocas, Size) /\ Len(Top.names) = 1 /\ Len(Top.own) = 1
        /\ Len(Top.old) = 1 /\ Top.names \in Seq(Var) /\ Top.old \in Seq(0..allocas)
    BY <2>1, TopFacts DEF FrameOK, Shape, Frame
  <2>4. \A i, j \in DOMAIN Top.names : Top.names[i] = Top.names[j] => i = j
    <3>1. DOMAIN Top.names = 1..1
      BY <2>3, LenProperties
    <3> QED
      BY <3>1
  <2> QED
    BY <2>1, <2>2, <2>3, <2>4, ScopeRestores
<1>10. CASE VarDone
  <2>1. /\ phase = "return" /\ stack # <<>> /\ Top.node = "var" /\ Top.step = "body"
        /\ stack' = Rest /\ named' = Restored(Top) /\ Return(val) /\ args' = args
        /\ doubled' = (doubled \/ Repeats(Top.names))
    BY <1>10 DEF VarDone, Got, Leave
  <2>2. /\ Len(Top.old) = Len(Top.own) /\ Len(Top.own) = Len(Top.names)
        /\ Top.old \in Seq(0..allocas)
    BY <2>1, TopFacts DEF FrameOK, Shape
  <2>3. ~doubled' => ~doubled /\ \A i, j \in DOMAIN Top.names : Top.names[i] = Top.names[j] => i = j
    BY <2>1 DEF Repeats
  <2> QED
    BY <2>1, <2>2, <2>3, ScopeRestores
<1>11. CASE VarNext
  <2>1. phase = "bind" /\ stack # <<>> /\ Top.node = "var" /\ Top.step = "init"
        /\ Len(Top.own) < Len(Top.names)
    BY <1>11 DEF VarNext, ShapeInv
  <2>2. CASE Bind(Const, "default")
    <3>1. ValueOK(Const, Size)
      BY StackFacts DEF ValueOK, Const, Value
    <3> QED
      BY <2>1, <2>2, <3>1, ScopeBind
  <2>3. CASE phase' = "visit" /\ UNCHANGED <<val, nulls, stack, loc>> /\ SameCode /\ SameBody
    <3>1. UNCHANGED <<stack, named, args, nulls, doubled>>
      BY <2>3 DEF SameCode, SameBody
    <3> QED
      BY <2>1, <3>1, ScopeNow, ScopeKeeps
  <2> QED
    BY <1>11, <2>2, <2>3 DEF VarNext
<1>12. CASE VarInit
  <2>1. phase = "return" /\ stack # <<>> /\ Top.node = "var" /\ Top.step = "init"
    BY <1>12 DEF VarInit, Got
  <2>2. Len(Top.own) < Len(Top.names) /\ ValueOK(val, Size)
    BY <2>1, GotFacts DEF Waits
  <2> QED
    BY <1>12, <2>1, <2>2, ScopeBind DEF VarInit
<1> QED
  BY <1>2, <1>3, <1>4, <1>5, <1>6, <1>7, <1>8, <1>9, <1>10, <1>11, <1>12, ScopeForStart DEF Resume

LEMMA ScopeBegin == ASSUME NEW ps \in ArgLists, ShapeInv, Begin(ps) PROVE ScopeInv'
<1>1. stack' = <<>> /\ args' = ps /\ named' = Arguments(ps)
  BY DEF Begin, ShapeInv
<1>2. \A v : Sees(<<>>, ps, v) = Position(ps, v)
  BY DEF Sees
<1>3. \A v \in Var : Arguments(ps)[v] = Position(ps, v)
  BY DEF Arguments
<1>4. AllKeepOld(<<>>, ps)
  BY DEF AllKeepOld
<1>5. ScopedBy(<<>>, Arguments(ps), ps)
  BY <1>2, <1>3, <1>4 DEF ScopedBy
<1> QED
  BY <1>1, <1>5, ScopeKeeps

LEMMA ScopeStep == ShapeInv /\ ScopeInv /\ [Next]_vars => ScopeInv'
<1> SUFFICES ASSUME ShapeInv, ScopeInv, [Next]_vars PROVE ScopeInv'
  OBVIOUS
<1>1. CASE Finish
  BY <1>1 DEF Finish, ScopeInv
<1>2. CASE UNCHANGED vars
  BY <1>2 DEF vars, ScopeInv
<1> QED
  BY <1>1, <1>2, ScopeBegin, ScopeVisit, ScopeResume DEF Next

\* Wherever generation gets in a body, each name stands for the binding of the innermost
\* loop or `var` around it, or for the argument: a scope gives back at its end exactly
\* what its names stood for in front of it.
THEOREM ScopesAlwaysLexical == Spec => []ScopesAreLexical
<1>1. Init => ScopeInv
  BY DEF Init, ScopeInv
<1>2. ScopeInv => ScopesAreLexical
  <2>1. \A v : Lexical(v) = Sees(stack, args, v)
    BY Zenon DEF Lexical, Sees
  <2> QED
    BY <2>1 DEF ScopeInv, ScopesAreLexical
<1> QED
  BY <1>1, <1>2, ScopeStep, ShapeHolds, PTL DEF Spec

-----------------------------------------------------------------------------
\* Which values are ready where, and what the phi nodes gather.
\*
\* Every path from the entry to u passes d, with the branches E.
Dom(E, d, u) == d = 1 \/ \E S \in SUBSET Nat :
    1 \in S /\ d \notin S /\ u \notin S /\ \A a, b : <<a, b>> \in E /\ a \in S /\ b # d => b \in S

\* What has to hold of the branches E, the uses U and the phi nodes Q (the branches they
\* have a value for) while c is the current block, M are the blocks where open branches
\* will meet, H what the visits in progress will still use, L the blocks of the open
\* loops, S what has to be ready in another block, and J the branches that have got to
\* the blocks of M.
Flows(E, U, Q, c, M, H, L, S, J) ==
    /\ \A m \in M : m # 1 /\ \A a : <<m, a>> \notin E
    /\ \A d, u : <<d, u>> \in U \/ <<d, u>> \in S \/ (u = c /\ d \in H) => Dom(E, d, u) /\ u \notin M
    /\ \A m : (\A a : <<a, m>> \notin Q) \/ (\A a : <<a, m>> \in E <=> <<a, m>> \in Q)
    /\ \A m \in M : \A a : <<a, m>> \notin Q /\ (<<a, m>> \in E <=> <<a, m>> \in J)
    /\ \A h \in L : h \notin M /\ \A a : <<a, h>> \notin Q

LEMMA DomSelf == ASSUME NEW E \in SUBSET (Nat \X Nat), NEW d \in Nat PROVE Dom(E, d, d)
<1>1. CASE d = 1
  BY <1>1 DEF Dom
<1>2. CASE d # 1
  <2>1. Nat \ {d} \in SUBSET Nat /\ 1 \in Nat \ {d} /\ d \notin Nat \ {d}
    BY <1>2
  <2>2. \A a, b : <<a, b>> \in E /\ a \in Nat \ {d} /\ b # d => b \in Nat \ {d}
    OBVIOUS
  <2> QED
    BY <2>1, <2>2, Zenon DEF Dom
<1> QED
  BY <1>1, <1>2

\* Branches to blocks that have none themselves change nothing for the others.
LEMMA DomGrows ==
    ASSUME NEW E, NEW F, NEW T \in SUBSET Nat, NEW d, NEW u, Dom(E, d, u), u \notin T,
           \A a, b : <<a, b>> \in F => (<<a, b>> \in E \/ b \in T) /\ a \notin T
    PROVE  Dom(F, d, u)
<1>1. CASE d = 1
  BY <1>1 DEF Dom
<1>2. ASSUME d # 1, NEW S \in SUBSET Nat, 1 \in S, d \notin S, u \notin S,
             \A a, b : <<a, b>> \in E /\ a \in S /\ b # d => b \in S
      PROVE  Dom(F, d, u)
  <2>1. PICK R : R = (S \cup T) \ {d}
    OBVIOUS
  <2>2. R \in SUBSET Nat /\ 1 \in R /\ d \notin R /\ u \notin R
    BY <1>2, <2>1
  <2>3. \A a, b : <<a, b>> \in F /\ a \in R /\ b # d => b \in R
    BY <1>2, <2>1
  <2> QED
    BY <2>2, <2>3, Zenon DEF Dom
<1> QED
  BY <1>1, <1>2, Zenon DEF Dom

\* A branch back to a block on every path changes nothing.
LEMMA DomLoops ==
    ASSUME NEW E, NEW F, NEW c, NEW h, NEW d, NEW u, Dom(E, d, u), Dom(E, h, c),
           \A a, b : <<a, b>> \in F => <<a, b>> \in E \/ (a = c /\ b = h)
    PROVE  Dom(F, d, u)
<1>1. CASE d = 1
  BY <1>1 DEF Dom
<1>2. ASSUME NEW S \in SUBSET Nat, 1 \in S, d \notin S, u \notin S,
             \A a, b : <<a, b>> \in E /\ a \in S /\ b # d => b \in S
      PROVE  Dom(F, d, u)
  <2>1. CASE c \notin S \/ h \in S \/ h = d
    <3>1. \A a, b : <<a, b>> \in F /\ a \in S /\ b # d => b \in S
      BY <1>2, <2>1
    <3> QED
      BY <1>2, <3>1, Zenon DEF Dom
  <2>2. CASE h # 1 /\ h \notin S
    <3>1. PICK R \in SUBSET Nat : /\ 1 \in R /\ h \notin R /\ c \notin R
                                  /\ \A a, b : <<a, b>> \in E /\ a \in R /\ b # h => b \in R
      BY <2>2, Zenon DEF Dom
    <3>2. PICK Q : Q = S \cap R
      OBVIOUS
    <3>3. Q \in SUBSET Nat /\ 1 \in Q /\ d \notin Q /\ u \notin Q
      BY <1>2, <3>1, <3>2
    <3>4. \A a, b : <<a, b>> \in F /\ a \in Q /\ b # d => b \in Q
      BY <1>2, <2>2, <3>1, <3>2
    <3> QED
      BY <3>3, <3>4, Zenon DEF Dom
  <2> QED
    BY <1>2, <2>1, <2>2
<1> QED
  BY <1>1, <1>2, Zenon DEF Dom

\* What is on every path to the two blocks that branch to t is on every path to t.
LEMMA DomJoins ==
    ASSUME NEW E, NEW d, NEW b, NEW c, NEW t, t # 1, Dom(E, d, b), Dom(E, d, c),
           \A a : <<a, t>> \in E => a = b \/ a = c
    PROVE  Dom(E, d, t)
<1>1. CASE d = 1
  BY <1>1 DEF Dom
<1>2. CASE d # 1
  <2>1. PICK S \in SUBSET Nat : /\ 1 \in S /\ d \notin S /\ b \notin S
                                /\ \A a, x : <<a, x>> \in E /\ a \in S /\ x # d => x \in S
    BY <1>2, Zenon DEF Dom
  <2>2. PICK R \in SUBSET Nat : /\ 1 \in R /\ d \notin R /\ c \notin R
                                /\ \A a, x : <<a, x>> \in E /\ a \in R /\ x # d => x \in R
    BY <1>2, Zenon DEF Dom
  <2>3. PICK Q : Q = (S \cap R) \ {t}
    OBVIOUS
  <2>4. Q \in SUBSET Nat /\ 1 \in Q /\ d \notin Q /\ t \notin Q
    BY <2>1, <2>2, <2>3
  <2>5. \A a, x : <<a, x>> \in E /\ a \in Q /\ x # d => x \in Q
    BY <2>1, <2>2, <2>3
  <2> QED
    BY <2>4, <2>5, Zenon DEF Dom
<1> QED
  BY <1>1, <1>2

-----------------------------------------------------------------------------
\* What a step does to the flow.  A step that makes no branch uses what is ready, and
\* what it computes is ready in the current block.
LEMMA FlowsUse ==
    ASSUME NEW E \in SUBSET (Nat \X Nat), NEW U, NEW Q, NEW c \in Nat, NEW M, NEW H, NEW L, NEW S,
           NEW J, Flows(E, U, Q, c, M, H, L, S, J), c \notin M,
           NEW V, \A d, u : <<d, u>> \in V => <<d, u>> \in U \/ (u = c /\ d \in H),
           NEW K, \A d \in K : d \in H \/ d = c, NEW R, R \subseteq L
    PROVE  Flows(E, V, Q, c, M, K, R, S, J)
<1>1. Dom(E, c, c)
  BY DomSelf
<1>2. ASSUME NEW d, NEW u, <<d, u>> \in V \/ <<d, u>> \in S \/ (u = c /\ d \in K)
      PROVE  Dom(E, d, u) /\ u \notin M
  BY <1>1, <1>2 DEF Flows
<1>3. \A d, u : <<d, u>> \in V \/ <<d, u>> \in S \/ (u = c /\ d \in K) => Dom(E, d, u) /\ u \notin M
  BY <1>2
<1>4. \A h \in R : h \notin M /\ \A a : <<a, h>> \notin Q
  BY DEF Flows
<1> QED
  BY <1>3, <1>4, Zenon DEF Flows

\* A graph whose blocks are B; new blocks for it, of which those of T get a branch now;
\* the branches F with those from c to T.
Inside(B, E, U, Q, M, L, S, J) ==
    /\ B \in SUBSET Nat /\ 1 \in B /\ M \in SUBSET B /\ L \in SUBSET B
    /\ E \in SUBSET (B \X B) /\ U \in SUBSET (B \X B) /\ Q \in SUBSET (B \X B)
    /\ \A d, u : <<d, u>> \in S \/ <<d, u>> \in J => u \in B
NewBlocks(B, T, N) == /\ T \in SUBSET Nat /\ T \cap B = {}
                      /\ N \in SUBSET Nat /\ N \cap B = {} /\ N \cap T = {}
Extends(F, E, c, T) == /\ F \in SUBSET (Nat \X Nat)
                       /\ \A a, b : <<a, b>> \in F <=> <<a, b>> \in E \/ (a = c /\ b \in T)

\* A branch of the current block to new ones, of which c2 is the next.
LEMMA FlowsBranch ==
    ASSUME NEW B, NEW E, NEW U, NEW Q, NEW M, NEW H, NEW L, NEW S, NEW J,
           Inside(B, E, U, Q, M, L, S, J), NEW c \in B, c \notin M,
           Flows(E, U, Q, c, M, H, L, S, J), NEW T, NEW N, NewBlocks(B, T, N),
           NEW F, Extends(F, E, c, T), NEW c2 \in T, NEW K, \A d \in K : d \in H \/ d = c2,
           NEW R, \A h \in R : h \in L \/ h = c2,
           NEW V, \A d, u : <<d, u>> \in V => <<d, u>> \in S \/ (d \in H /\ u \in T)
    PROVE  Flows(F, U, Q, c2, M \cup N, K, R, V, J)
<1> USE DEF Inside, NewBlocks, Extends
<1>1. \A a, b : <<a, b>> \in E => a \in B /\ b \in B
  OBVIOUS
<1>2. \A a, b : <<a, b>> \in F => (<<a, b>> \in E \/ b \in T) /\ a \notin T
  BY <1>1
<1>3. ASSUME NEW d, NEW u \in B, Dom(E, d, u) PROVE Dom(F, d, u)
  <2>1. u \notin T
    OBVIOUS
  <2> QED
    BY <1>2, <1>3, <2>1, DomGrows
<1>4. ASSUME NEW d \in H, NEW t \in T PROVE Dom(F, d, t)
  <2>1. Dom(F, d, c)
    BY <1>3 DEF Flows
  <2>2. \A a : <<a, t>> \in F => a = c \/ a = c
    BY <1>1
  <2>3. t # 1
    OBVIOUS
  <2> QED
    BY <2>1, <2>2, <2>3, DomJoins
<1>5. Dom(F, c2, c2)
  BY DomSelf
<1>6. ASSUME NEW d, NEW u, <<d, u>> \in U \/ <<d, u>> \in V \/ (u = c2 /\ d \in K)
      PROVE  Dom(F, d, u) /\ u \notin M \cup N
  <2>1. CASE <<d, u>> \in U \/ <<d, u>> \in S
    <3>1. Dom(E, d, u) /\ u \notin M /\ u \in B
      BY <2>1 DEF Flows
    <3> QED
      BY <1>3, <3>1
  <2>2. CASE d \in H /\ u \in T
    BY <1>4, <2>2
  <2>3. CASE d = c2 /\ u = c2
    BY <1>5, <2>3
  <2> QED
    BY <1>6, <2>1, <2>2, <2>3
<1>7. \A m \in M \cup N : m # 1 /\ \A a : <<m, a>> \notin F
  BY <1>1 DEF Flows
<1>8. \A m : (\A a : <<a, m>> \notin Q) \/ (\A a : <<a, m>> \in F <=> <<a, m>> \in Q)
  <2> SUFFICES ASSUME NEW m, NEW x, <<x, m>> \in Q
               PROVE  \A a : <<a, m>> \in F <=> <<a, m>> \in Q
    OBVIOUS
  <2>1. \A a : <<a, m>> \in E <=> <<a, m>> \in Q
    BY DEF Flows
  <2>2. m \notin T
    OBVIOUS
  <2> QED
    BY <2>1, <2>2
<1>9. \A m \in M \cup N : \A a : <<a, m>> \notin Q /\ (<<a, m>> \in F <=> <<a, m>> \in J)
  <2>1. ASSUME NEW m \in M, NEW a PROVE <<a, m>> \notin Q /\ (<<a, m>> \in F <=> <<a, m>> \in J)
    BY DEF Flows
  <2>2. ASSUME NEW m \in N, NEW a PROVE <<a, m>> \notin Q /\ (<<a, m>> \in F <=> <<a, m>> \in J)
    BY <1>1
  <2> QED
    BY <2>1, <2>2, Zenon
<1>10. \A h \in R : h \notin M \cup N /\ \A a : <<a, h>> \notin Q
  <2>1. ASSUME NEW h \in L PROVE h \notin M \cup N /\ \A a : <<a, h>> \notin Q
    <3>1. h \notin M /\ \A a : <<a, h>> \notin Q
      BY Zenon DEF Flows
    <3>2. h \notin N
      OBVIOUS
    <3> QED
      BY <3>1, <3>2
  <2>2. c2 \notin M \cup N /\ \A a : <<a, c2>> \notin Q
    OBVIOUS
  <2> QED
    BY <2>1, <2>2
<1> QED
  BY <1>6, <1>7, <1>8, <1>9, <1>10, Zenon DEF Flows

\* The branch back to the block of a loop.
LEMMA FlowsBack ==
    ASSUME NEW E, NEW U, NEW Q, NEW c, NEW M, NEW H, NEW L, NEW S, NEW J,
           Flows(E, U, Q, c, M, H, L, S, J), c \notin M, NEW h \in L, h \in H,
           NEW F, \A a, b : <<a, b>> \in F <=> <<a, b>> \in E \/ (a = c /\ b = h)
    PROVE  Flows(F, U, Q, c, M, H, L, S, J)
<1>1. Dom(E, h, c)
  BY DEF Flows
<1>2. ASSUME NEW d, NEW u, Dom(E, d, u) PROVE Dom(F, d, u)
  BY <1>1, <1>2, DomLoops
<1>3. \A d, u : <<d, u>> \in U \/ <<d, u>> \in S \/ (u = c /\ d \in H) => Dom(F, d, u) /\ u \notin M
  BY <1>2 DEF Flows
<1>4. \A m \in M : m # 1 /\ \A a : <<m, a>> \notin F
  BY DEF Flows
<1>5. h \notin M /\ \A a : <<a, h>> \notin Q
  BY DEF Flows
<1>6. \A m : (\A a : <<a, m>> \notin Q) \/ (\A a : <<a, m>> \in F <=> <<a, m>> \in Q)
  BY <1>5 DEF Flows
<1>7. \A m \in M : \A a : <<a, m>> \notin Q /\ (<<a, m>> \in F <=> <<a, m>> \in J)
  BY <1>5 DEF Flows
<1>8. \A k \in L : k \notin M /\ \A a : <<a, k>> \notin Q
  BY DEF Flows
<1> QED
  BY <1>3, <1>4, <1>6, <1>7, <1>8, Zenon DEF Flows

\* A branch to a block where branches will meet.
Adds(F, E, c, m) == \A a, b : <<a, b>> \in F <=> <<a, b>> \in E \/ (a = c /\ b = m)

LEMMA FlowsMeet ==
    ASSUME NEW E, NEW U, NEW Q, NEW c, NEW M \in SUBSET Nat, NEW H, NEW L, NEW S, NEW J,
           Flows(E, U, Q, c, M, H, L, S, J), c \notin M, NEW m \in M,
           NEW F, Adds(F, E, c, m), NEW I, Adds(I, J, c, m)
    PROVE  Flows(F, U, Q, c, M, H, L, S, I)
<1> USE DEF Adds
<1>1. {m} \in SUBSET Nat /\ \A a, b : <<a, b>> \in F => (<<a, b>> \in E \/ b \in {m}) /\ a \notin {m}
  BY DEF Flows
<1>2. ASSUME NEW d, NEW u, Dom(E, d, u), u \notin M PROVE Dom(F, d, u)
  <2>1. u \notin {m}
    BY <1>2
  <2> QED
    BY <1>1, <1>2, <2>1, DomGrows
<1>3. \A d, u : <<d, u>> \in U \/ <<d, u>> \in S \/ (u = c /\ d \in H) => Dom(F, d, u) /\ u \notin M
  BY <1>2 DEF Flows
<1>4. \A k \in M : k # 1 /\ \A a : <<k, a>> \notin F
  BY DEF Flows
<1>5. \A a : <<a, m>> \notin Q
  BY DEF Flows
<1>6. \A k : (\A a : <<a, k>> \notin Q) \/ (\A a : <<a, k>> \in F <=> <<a, k>> \in Q)
  BY <1>5 DEF Flows
<1>7. \A k \in M : \A a : <<a, k>> \notin Q /\ (<<a, k>> \in F <=> <<a, k>> \in I)
  BY DEF Flows
<1>8. \A k \in L : k \notin M /\ \A a : <<a, k>> \notin Q
  BY DEF Flows
<1> QED
  BY <1>3, <1>4, <1>6, <1>7, <1>8, Zenon DEF Flows

\* Generation turns to another block, where all that is needed is ready.
LEMMA FlowsTurn ==
    ASSUME NEW E, NEW U, NEW Q, NEW c, NEW M, NEW H, NEW L, NEW S, NEW J,
           Flows(E, U, Q, c, M, H, L, S, J),
           NEW c2, NEW K, \A d \in K : <<d, c2>> \in S,
           NEW V, \A d, u : <<d, u>> \in V => <<d, u>> \in S \/ (d \in H /\ u = c)
    PROVE  Flows(E, U, Q, c2, M, K, L, V, J)
<1>1. \A d, u : <<d, u>> \in U \/ <<d, u>> \in V \/ (u = c2 /\ d \in K) => Dom(E, d, u) /\ u \notin M
  BY DEF Flows
<1> QED
  BY <1>1, Zenon DEF Flows

\* The branches from b and c meet in m, where the phi nodes P gather them; the uses V are
\* new, and K is what is needed now.
Joins(J, m, b, c)        == \A a : <<a, m>> \in J <=> a = b \/ a = c
Gathers(P, Q, m, b, c)   == \A a, k :
    <<a, k>> \in P <=> <<a, k>> \in Q \/ (k = m /\ (a = b \/ a = c))
UsedReady(V, U, S, c, H) == \A d, u :
    <<d, u>> \in V => <<d, u>> \in U \/ <<d, u>> \in S \/ (u = c /\ d \in H)
OnBoth(K, H, S, m, b)    == \A d \in K : d = m \/ (d \in H /\ <<d, b>> \in S)
AgreeOn(N, I, J)         == \A k \in N : \A a : <<a, k>> \in I <=> <<a, k>> \in J
Leaving(N, M, m)         == N \subseteq M /\ m \notin N

LEMMA FlowsJoin ==
    ASSUME NEW E \in SUBSET (Nat \X Nat), NEW U, NEW Q, NEW c, NEW M, NEW H, NEW L, NEW S, NEW J,
           Flows(E, U, Q, c, M, H, L, S, J), NEW m \in M, m \in Nat, NEW b, Joins(J, m, b, c),
           NEW V, UsedReady(V, U, S, c, H), NEW P, Gathers(P, Q, m, b, c),
           NEW N, Leaving(N, M, m), NEW K, OnBoth(K, H, S, m, b),
           NEW R, R \subseteq L, NEW W, W \subseteq S, NEW I, AgreeOn(N, I, J)
    PROVE  Flows(E, V, P, m, N, K, R, W, I)
<1> USE DEF Joins, Gathers, UsedReady, OnBoth, AgreeOn, Leaving
<1>1. /\ m # 1 /\ \A a : <<a, m>> \notin Q
      /\ \A a : <<a, m>> \in E <=> a = b \/ a = c
  BY DEF Flows
<1>2. ASSUME NEW d \in K PROVE Dom(E, d, m)
  <2>1. CASE d = m
    BY <2>1, DomSelf
  <2>2. CASE d \in H /\ <<d, b>> \in S
    <3>1. Dom(E, d, b) /\ Dom(E, d, c)
      BY <2>2 DEF Flows
    <3> QED
      BY <1>1, <3>1, DomJoins
  <2> QED
    BY <2>1, <2>2
<1>3. \A d, u : <<d, u>> \in V \/ <<d, u>> \in W \/ (u = m /\ d \in K) => Dom(E, d, u) /\ u \notin N
  <2>1. \A d, u : <<d, u>> \in U \/ <<d, u>> \in S \/ (u = c /\ d \in H) => Dom(E, d, u) /\ u \notin M
    BY Zenon DEF Flows
  <2>2. ASSUME NEW d, NEW u, <<d, u>> \in V \/ <<d, u>> \in W PROVE Dom(E, d, u) /\ u \notin N
    BY <2>1, <2>2
  <2> QED
    BY <1>2, <2>2
<1>4. \A k : (\A a : <<a, k>> \notin P) \/ (\A a : <<a, k>> \in E <=> <<a, k>> \in P)
  BY <1>1 DEF Flows
<1>5. \A k \in N : \A a : <<a, k>> \notin P /\ (<<a, k>> \in E <=> <<a, k>> \in I)
  BY DEF Flows
<1>6. \A h \in R : h \notin N /\ \A a : <<a, h>> \notin P
  <2> SUFFICES ASSUME NEW h \in R PROVE h \notin N /\ \A a : <<a, h>> \notin P
    OBVIOUS
  <2>1. h \notin M /\ \A a : <<a, h>> \notin Q
    BY Zenon DEF Flows
  <2> QED
    BY <2>1
<1>7. \A k \in N : k # 1 /\ \A a : <<k, a>> \notin E
  BY DEF Flows
<1> QED
  BY <1>3, <1>4, <1>5, <1>6, <1>7, Zenon DEF Flows

-----------------------------------------------------------------------------
\* What the visits of a stack ask of the flow.  What a visit will use: its operands and
\* the block of its loop.  Of an `if`: where its branches will meet, which of them have
\* got there, and what has to be ready on the side generation is not on.
Ats(V) == {v.at : v \in V} \ {0}
Branching(f) == f.node = "if" /\ f.step \in {"then", "else"}
MergeOf(f)  == IF Branching(f) THEN {f.blocks[3]} ELSE {}
HeaderOf(f) == IF f.node = "for" /\ f.step # "start" THEN {f.blocks[1]} ELSE {}
Held(f)     == IF f.node = "if" THEN {} ELSE Ats(f.vals) \cup HeaderOf(f)
SideOf(f, K) == IF ~Branching(f) THEN {}
                ELSE IF f.step = "then" THEN K \X {f.blocks[2]}
                ELSE (K \cup Ats(f.vals)) \X {f.blocks[1]}
JoinOf(f)   == IF f.node = "if" /\ f.step = "else" THEN {<<f.blocks[1], f.blocks[3]>>} ELSE {}

HeldIn(s, n) == UNION {Held(s[i]) : i \in 1..n}
HeldOf(s)    == HeldIn(s, Len(s))
MergesOf(s)  == UNION {MergeOf(s[i]) : i \in DOMAIN s}
HeadersOf(s) == UNION {HeaderOf(s[i]) : i \in DOMAIN s}
SidesOf(s)   == UNION {SideOf(s[i], HeldIn(s, i - 1)) : i \in DOMAIN s}
JoinsOf(s)   == UNION {JoinOf(s[i]) : i \in DOMAIN s}

\* What is ready in the current block, the phi nodes as branches, and the invariant.
Ready == HeldOf(stack) \cup (IF phase = "return" THEN Ats({val}) ELSE {})
Gathered(g) == {<<p.from, p.block>> : p \in g.phis}
Flowing(s, g, c, H) == Flows(g.edges, g.uses, Gathered(g), c, MergesOf(s), H, HeadersOf(s),
                             SidesOf(s), JoinsOf(s))
FlowInv == /\ phase # "idle" /\ ~nulls => Flowing(stack, cfg, cur, Ready)
           /\ PhisMatchBranches
           /\ ValuesDominateUses

LEMMA FlowPush ==
    ASSUME NEW s \in Seq(Frame), NEW f \in Frame
    PROVE  /\ HeldOf(Append(s, f)) = HeldOf(s) \cup Held(f)
           /\ MergesOf(Append(s, f)) = MergesOf(s) \cup MergeOf(f)
           /\ HeadersOf(Append(s, f)) = HeadersOf(s) \cup HeaderOf(f)
           /\ SidesOf(Append(s, f)) = SidesOf(s) \cup SideOf(f, HeldOf(s))
           /\ JoinsOf(Append(s, f)) = JoinsOf(s) \cup JoinOf(f)
<1>1. PICK t : t = Append(s, f)
  OBVIOUS
<1>2. PICK n \in Nat : n = Len(s)
  BY LenProperties
<1>3. /\ DOMAIN s = 1..n /\ DOMAIN t = 1..n + 1 /\ Len(t) = n + 1
      /\ t[n + 1] = f /\ \A i \in 1..n : t[i] = s[i]
  <2>1. t \in Seq(Frame) /\ Len(t) = n + 1
    BY <1>1, <1>2, PushFacts
  <2> QED
    BY <1>1, <1>2, <2>1, PushFacts, LenProperties
<1>4. n + 1 \in 1..n + 1 /\ \A i \in 1..n : i \in 1..n + 1
  OBVIOUS
<1>5. \A i \in 1..n + 1 : i = n + 1 \/ i \in 1..n
  OBVIOUS
<1>6. HeldOf(t) = HeldOf(s) \cup Held(f)
  BY <1>2, <1>3, <1>4, <1>5 DEF HeldOf, HeldIn
<1>7. MergesOf(t) = MergesOf(s) \cup MergeOf(f)
  BY <1>3, <1>4, <1>5 DEF MergesOf
<1>8. HeadersOf(t) = HeadersOf(s) \cup HeaderOf(f)
  BY <1>3, <1>4, <1>5 DEF HeadersOf
<1>9. JoinsOf(t) = JoinsOf(s) \cup JoinOf(f)
  BY <1>3, <1>4, <1>5 DEF JoinsOf
<1>10. \A i \in 1..n + 1 : HeldIn(t, i - 1) = HeldIn(s, i - 1)
  <2> SUFFICES ASSUME NEW i \in 1..n + 1 PROVE HeldIn(t, i - 1) = HeldIn(s, i - 1)
    OBVIOUS
  <2>1. \A j \in 1..i - 1 : t[j] = s[j]
    BY <1>3
  <2>2. {Held(t[j]) : j \in 1..i - 1} = {Held(s[j]) : j \in 1..i - 1}
    BY <2>1
  <2> QED
    BY <2>2, Zenon DEF HeldIn
<1>11. HeldIn(t, n + 1 - 1) = HeldOf(s)
  <2>1. n + 1 - 1 = n /\ n + 1 \in 1..n + 1
    OBVIOUS
  <2> QED
    BY <1>2, <1>10, <2>1 DEF HeldOf
<1>12. SidesOf(t) = SidesOf(s) \cup SideOf(f, HeldOf(s))
  <2>1. \A i \in 1..n : SideOf(t[i], HeldIn(t, i - 1)) = SideOf(s[i], HeldIn(s, i - 1))
    BY <1>3, <1>4, <1>10
  <2>2. SideOf(t[n + 1], HeldIn(t, n + 1 - 1)) = SideOf(f, HeldOf(s))
    BY <1>3, <1>11
  <2>3. \A x : x \in SidesOf(t) <=> \E i \in 1..n + 1 : x \in SideOf(t[i], HeldIn(t, i - 1))
    BY <1>3 DEF SidesOf
  <2>4. \A x : x \in SidesOf(s) <=> \E i \in 1..n : x \in SideOf(s[i], HeldIn(s, i - 1))
    BY <1>3 DEF SidesOf
  <2>5. \A x : x \in SidesOf(t) <=> x \in SidesOf(s) \/ x \in SideOf(f, HeldOf(s))
    <3>1. ASSUME NEW x, x \in SidesOf(t) PROVE x \in SidesOf(s) \/ x \in SideOf(f, HeldOf(s))
      <4>1. PICK i \in 1..n + 1 : x \in SideOf(t[i], HeldIn(t, i - 1))
        BY <2>3, <3>1
      <4>2. CASE i = n + 1
        BY <2>2, <4>1, <4>2
      <4>3. CASE i \in 1..n
        BY <2>1, <2>4, <4>1, <4>3
      <4> QED
        BY <1>5, <4>2, <4>3
    <3>2. ASSUME NEW x, x \in SidesOf(s) PROVE x \in SidesOf(t)
      BY <1>4, <2>1, <2>3, <2>4, <3>2
    <3>3. ASSUME NEW x, x \in SideOf(f, HeldOf(s)) PROVE x \in SidesOf(t)
      BY <1>4, <2>2, <2>3, <3>3
    <3> QED
      BY <3>1, <3>2, <3>3
  <2> QED
    BY <2>5
<1> QED
  BY <1>1, <1>6, <1>7, <1>8, <1>9, <1>12

\* A visit that is no `if` with branches asks nothing of other blocks.
LEMMA FlowPlain ==
    ASSUME NEW f, ~Branching(f)
    PROVE  MergeOf(f) = {} /\ JoinOf(f) = {} /\ \A K : SideOf(f, K) = {}
BY DEF Branching, MergeOf, JoinOf, SideOf

LEMMA FlowSplit ==
    ASSUME ShapeInv, stack # <<>>
    PROVE  /\ HeldOf(stack) = HeldOf(Rest) \cup Held(Top)
           /\ MergesOf(stack) = MergesOf(Rest) \cup MergeOf(Top)
           /\ HeadersOf(stack) = HeadersOf(Rest) \cup HeaderOf(Top)
           /\ SidesOf(stack) = SidesOf(Rest) \cup SideOf(Top, HeldOf(Rest))
           /\ JoinsOf(stack) = JoinsOf(Rest) \cup JoinOf(Top)
<1>1. PICK r, f, s : r = Rest /\ f = Top /\ s = Append(r, f)
  OBVIOUS
<1>2. r \in Seq(Frame) /\ f \in Frame /\ stack = s
  BY <1>1, SplitFacts
<1>3. /\ HeldOf(s) = HeldOf(r) \cup Held(f)
      /\ MergesOf(s) = MergesOf(r) \cup MergeOf(f)
      /\ HeadersOf(s) = HeadersOf(r) \cup HeaderOf(f)
      /\ SidesOf(s) = SidesOf(r) \cup SideOf(f, HeldOf(r))
      /\ JoinsOf(s) = JoinsOf(r) \cup JoinOf(f)
  BY <1>1, <1>2, FlowPush
<1> QED
  BY <1>1, <1>2, <1>3

\* All of it is within the graph.
LEMMA FlowRange ==
    ASSUME ShapeInv
    PROVE  /\ Size \in Nat /\ 1..Size \in SUBSET Nat /\ 1 \in 1..Size /\ cur \in 1..Size
           /\ cfg.edges \in SUBSET ((1..Size) \X (1..Size))
           /\ cfg.uses \in SUBSET ((1..Size) \X (1..Size))
           /\ Gathered(cfg) \in SUBSET ((1..Size) \X (1..Size))
           /\ MergesOf(stack) \in SUBSET (1..Size)
           /\ HeadersOf(stack) \in SUBSET (1..Size)
           /\ \A d, u : <<d, u>> \in SidesOf(stack) => u \in 1..Size
           /\ \A a, m : <<a, m>> \in JoinsOf(stack) => m \in 1..Size
<1>1. /\ Size \in Nat /\ cur \in 1..Size /\ GraphOK(cfg)
      /\ DOMAIN stack = 1..Len(stack)
      /\ \A i \in 1..Len(stack) : FrameOK(stack[i], allocas, Size)
  BY StackFacts DEF ShapeInv
<1>2. 1..Size \in SUBSET Nat /\ 1 \in 1..Size
  BY <1>1
<1>3. /\ cfg.edges \in SUBSET ((1..Size) \X (1..Size))
      /\ cfg.uses \in SUBSET ((1..Size) \X (1..Size))
  BY <1>1 DEF GraphOK, Size
<1>4. Gathered(cfg) \in SUBSET ((1..Size) \X (1..Size))
  <2>1. cfg.phis \subseteq [block : 1..Size, from : 1..Size]
    BY <1>1 DEF GraphOK, Size
  <2> QED
    BY <2>1 DEF Gathered
<1>5. ASSUME NEW f, FrameOK(f, allocas, Size), Branching(f)
      PROVE  f.blocks[1] \in 1..Size /\ f.blocks[2] \in 1..Size /\ f.blocks[3] \in 1..Size
  <2>1. f.blocks \in Seq(1..Size) /\ Len(f.blocks) = 3
    BY <1>5 DEF FrameOK, Shape, Branching
  <2>2. 1 \in 1..Len(f.blocks) /\ 2 \in 1..Len(f.blocks) /\ 3 \in 1..Len(f.blocks)
    BY <2>1
  <2> QED
    BY <2>1, <2>2, ElementOfSeq
<1>6. ASSUME NEW f, FrameOK(f, allocas, Size) PROVE HeaderOf(f) \subseteq 1..Size
  <2>1. CASE f.node = "for" /\ f.step # "start"
    <3>1. f.blocks \in Seq(1..Size) /\ Len(f.blocks) = 1
      BY <1>6, <2>1 DEF FrameOK, Shape
    <3>2. 1 \in 1..Len(f.blocks)
      BY <3>1
    <3>3. f.blocks[1] \in 1..Size
      BY <3>1, <3>2, ElementOfSeq
    <3> QED
      BY <2>1, <3>3 DEF HeaderOf
  <2>2. CASE ~(f.node = "for" /\ f.step # "start")
    BY <2>2 DEF HeaderOf
  <2> QED
    BY <2>1, <2>2
<1>7. ASSUME NEW f, FrameOK(f, allocas, Size)
      PROVE  /\ MergeOf(f) \subseteq 1..Size
             /\ \A K : \A d, u : <<d, u>> \in SideOf(f, K) => u \in 1..Size
             /\ \A a, m : <<a, m>> \in JoinOf(f) => m \in 1..Size
  <2>1. CASE Branching(f)
    BY <1>5, <1>7, <2>1 DEF MergeOf, SideOf, JoinOf
  <2>2. CASE ~Branching(f)
    BY <2>2, FlowPlain
  <2> QED
    BY <2>1, <2>2
<1>8. MergesOf(stack) \in SUBSET (1..Size) /\ HeadersOf(stack) \in SUBSET (1..Size)
  BY <1>1, <1>6, <1>7 DEF MergesOf, HeadersOf
<1>9. ASSUME NEW d, NEW u, <<d, u>> \in SidesOf(stack) PROVE u \in 1..Size
  <2>1. PICK i \in 1..Len(stack) : <<d, u>> \in SideOf(stack[i], HeldIn(stack, i - 1))
    BY <1>1, <1>9 DEF SidesOf
  <2> QED
    BY <1>1, <1>7, <2>1
<1>10. \A a, m : <<a, m>> \in JoinsOf(stack) => m \in 1..Size
  BY <1>1, <1>7 DEF JoinsOf
<1> QED
  BY <1>1, <1>2, <1>3, <1>4, <1>8, <1>9, <1>10

\* Where branches will meet, nothing has been put yet.
LEMMA MergesWait == ASSUME NEW s PROVE MergesOf(s) \subseteq PendingIn(s)
<1>1. \A f : MergeOf(f) \subseteq Pending(f)
  BY DEF MergeOf, Pending, Branching
<1> QED
  BY <1>1 DEF MergesOf, PendingIn

LEMMA FlowNow ==
    ASSUME ShapeInv, BlockInv, FlowInv, phase # "idle", ~nulls
    PROVE  Flowing(stack, cfg, cur, Ready) /\ cur \notin MergesOf(stack) /\ Apart(stack)
<1>1. Terminated(stack, cfg, cur)
  BY BlockNow
<1> QED
  BY <1>1, MergesWait DEF FlowInv, Terminated

LEMMA FlowKeeps ==
    ASSUME NullInv, phase # "idle", result' = result,
           ~nulls' => Flowing(stack', cfg', cur', Ready')
    PROVE  FlowInv'
<1>1. result' # "ok"
  BY DEF NullInv
<1>2. PhisMatchBranches' /\ ValuesDominateUses'
  BY <1>1 DEF PhisMatchBranches, ValuesDominateUses
<1> QED
  BY <1>2 DEF FlowInv

\* Steps that make no branch and no block.
SameFlow == /\ cfg'.edges = cfg.edges /\ cfg'.phis = cfg.phis /\ cur' = cur
            /\ \A d, u : <<d, u>> \in cfg'.uses => <<d, u>> \in cfg.uses \/ (u = cur /\ d \in Ready)

LEMMA FlowSame ==
    ASSUME ShapeInv, NullInv, BlockInv, FlowInv, phase # "idle", result' = result, SameFlow,
           ~nulls' => /\ ~nulls /\ MergesOf(stack') = MergesOf(stack)
                      /\ HeadersOf(stack') \subseteq HeadersOf(stack)
                      /\ SidesOf(stack') = SidesOf(stack) /\ JoinsOf(stack') = JoinsOf(stack)
                      /\ \A d \in Ready' : d \in Ready \/ d = cur
    PROVE  FlowInv'
<1>1. ASSUME ~nulls' PROVE Flowing(stack', cfg', cur', Ready')
  <2>1. Flowing(stack, cfg, cur, Ready) /\ cur \notin MergesOf(stack)
    BY <1>1, FlowNow
  <2>2. PICK E, U, V, Q, c, M, H, K, L, R, S, J :
            /\ E = cfg.edges /\ U = cfg.uses /\ V = cfg'.uses /\ Q = Gathered(cfg) /\ c = cur
            /\ M = MergesOf(stack) /\ H = Ready /\ K = Ready' /\ L = HeadersOf(stack)
            /\ R = HeadersOf(stack') /\ S = SidesOf(stack) /\ J = JoinsOf(stack)
    OBVIOUS
  <2>3. E \in SUBSET (Nat \X Nat) /\ c \in Nat
    BY <2>2, FlowRange
  <2>4. Flows(E, U, Q, c, M, H, L, S, J) /\ c \notin M
    BY <2>1, <2>2, Zenon DEF Flowing
  <2>5. \A d, u : <<d, u>> \in V => <<d, u>> \in U \/ (u = c /\ d \in H)
    BY <2>2 DEF SameFlow
  <2>6. (\A d \in K : d \in H \/ d = c) /\ R \subseteq L
    BY <1>1, <2>2, Zenon
  <2>7. Flows(E, V, Q, c, M, K, R, S, J)
    BY <2>3, <2>4, <2>5, <2>6, FlowsUse
  <2>8. Gathered(cfg') = Q
    BY <2>2 DEF SameFlow, Gathered
  <2>9. Flows(cfg'.edges, cfg'.uses, Gathered(cfg'), cur', MergesOf(stack'), Ready',
              HeadersOf(stack'), SidesOf(stack'), JoinsOf(stack'))
    BY <1>1, <2>2, <2>7, <2>8, Zenon DEF SameFlow
  <2>10. PICK x, g, y, z : x = stack' /\ g = cfg' /\ y = cur' /\ z = Ready'
    OBVIOUS
  <2>11. Flowing(x, g, y, z)
    BY <2>9, <2>10 DEF Flowing
  <2> QED
    BY <2>10, <2>11
<1> QED
  BY <1>1, FlowKeeps

\* A visit leaves, and another one gets its turn.
LEMMA FlowLeaves ==
    ASSUME ShapeInv, NullInv, BlockInv, FlowInv, phase = "return", stack # <<>>, stack' = Rest,
           NEW v, Return(v), result' = result, SameFlow, ~v.ok \/ ~Branching(Top),
           \A d \in Ats({v}) : d \in Ready \/ d = cur
    PROVE  FlowInv'
<1>1. phase' = "return" /\ val' = v /\ (~nulls' => ~nulls /\ v.ok)
  BY DEF Return
<1>2. /\ HeldOf(stack) = HeldOf(Rest) \cup Held(Top)
      /\ MergesOf(stack) = MergesOf(Rest) \cup MergeOf(Top)
      /\ HeadersOf(stack) = HeadersOf(Rest) \cup HeaderOf(Top)
      /\ SidesOf(stack) = SidesOf(Rest) \cup SideOf(Top, HeldOf(Rest))
      /\ JoinsOf(stack) = JoinsOf(Rest) \cup JoinOf(Top)
  BY FlowSplit, Zenon
<1>3. Ready' = HeldOf(Rest) \cup Ats({v})
  BY <1>1 DEF Ready
<1>4. \A d \in Ready' : d \in Ready \/ d = cur
  BY <1>2, <1>3 DEF Ready
<1>5. ASSUME ~Branching(Top)
      PROVE  /\ MergesOf(Rest) = MergesOf(stack) /\ HeadersOf(Rest) \subseteq HeadersOf(stack)
             /\ SidesOf(Rest) = SidesOf(stack) /\ JoinsOf(Rest) = JoinsOf(stack)
  BY <1>2, <1>5, FlowPlain
<1> QED
  BY <1>1, <1>4, <1>5, FlowSame

LEMMA FlowReplaces ==
    ASSUME ShapeInv, NullInv, BlockInv, FlowInv, NEW f, GoesOn(f), SameFlow, ~Branching(Top),
           ~Branching(f), Held(f) \subseteq Ready, HeaderOf(f) \subseteq HeaderOf(Top)
    PROVE  FlowInv'
<1>1. /\ phase # "idle" /\ phase' # "return" /\ stack # <<>> /\ stack' = Append(Rest, f)
      /\ f \in Frame /\ nulls' = nulls /\ result' = result
  BY DEF GoesOn
<1>2. /\ HeldOf(stack) = HeldOf(Rest) \cup Held(Top)
      /\ MergesOf(stack) = MergesOf(Rest) \cup MergeOf(Top)
      /\ HeadersOf(stack) = HeadersOf(Rest) \cup HeaderOf(Top)
      /\ SidesOf(stack) = SidesOf(Rest) \cup SideOf(Top, HeldOf(Rest))
      /\ JoinsOf(stack) = JoinsOf(Rest) \cup JoinOf(Top)
  BY <1>1, FlowSplit, Zenon
<1>3. Rest \in Seq(Frame)
  BY <1>1, SplitFacts
<1>4. /\ HeldOf(stack') = HeldOf(Rest) \cup Held(f)
      /\ MergesOf(stack') = MergesOf(Rest) \cup MergeOf(f)
      /\ HeadersOf(stack') = HeadersOf(Rest) \cup HeaderOf(f)
      /\ SidesOf(stack') = SidesOf(Rest) \cup SideOf(f, HeldOf(Rest))
      /\ JoinsOf(stack') = JoinsOf(Rest) \cup JoinOf(f)
  BY <1>1, <1>3, FlowPush, Zenon
<1>5. Ready' = HeldOf(stack')
  BY <1>1 DEF Ready
<1>6. \A d \in Ready' : d \in Ready
  BY <1>2, <1>4, <1>5 DEF Ready
<1>7. /\ MergesOf(stack') = MergesOf(stack) /\ HeadersOf(stack') \subseteq HeadersOf(stack)
      /\ SidesOf(stack') = SidesOf(stack) /\ JoinsOf(stack') = JoinsOf(stack)
  <2>1. /\ MergeOf(f) = {} /\ JoinOf(f) = {} /\ \A K : SideOf(f, K) = {}
        /\ MergeOf(Top) = {} /\ JoinOf(Top) = {} /\ \A K : SideOf(Top, K) = {}
    BY FlowPlain
  <2> QED
    BY <1>2, <1>4, <2>1
<1> QED
  BY <1>1, <1>6, <1>7, FlowSame

\* A visit goes on, or none ends, and nothing was generated.
LEMMA FlowVisit == ASSUME ShapeInv, NullInv, BlockInv, FlowInv, Visit PROVE FlowInv'
<1>1. ASSUME NEW f, Begins(f) PROVE FlowInv'
  <2>1. /\ phase = "visit" /\ phase' # "return" /\ stack' = Append(stack, f) /\ f \in Frame
        /\ nulls' = nulls /\ result' = result /\ cfg' = cfg /\ cur' = cur
    BY <1>1 DEF Begins, Enter, Fresh, NoCode
  <2>2. ~Branching(f) /\ Held(f) = {} /\ HeaderOf(f) = {}
    BY <1>1 DEF Begins, Fresh, Branching, Held, HeaderOf, Ats
  <2>3. /\ HeldOf(stack') = HeldOf(stack) \cup Held(f)
        /\ MergesOf(stack') = MergesOf(stack) \cup MergeOf(f)
        /\ HeadersOf(stack') = HeadersOf(stack) \cup HeaderOf(f)
        /\ SidesOf(stack') = SidesOf(stack) \cup SideOf(f, HeldOf(stack))
        /\ JoinsOf(stack') = JoinsOf(stack) \cup JoinOf(f)
    BY <2>1, StackFacts, FlowPush, Zenon
  <2>4. MergeOf(f) = {} /\ JoinOf(f) = {} /\ SideOf(f, HeldOf(stack)) = {}
    BY <2>2, FlowPlain
  <2>5. \A d \in Ready' : d \in Ready
    BY <2>1, <2>2, <2>3 DEF Ready
  <2>6. SameFlow
    BY <2>1 DEF SameFlow
  <2>7. /\ MergesOf(stack') = MergesOf(stack) /\ HeadersOf(stack') \subseteq HeadersOf(stack)
        /\ SidesOf(stack') = SidesOf(stack) /\ JoinsOf(stack') = JoinsOf(stack)
    BY <2>2, <2>3, <2>4
  <2> QED
    BY <2>1, <2>5, <2>6, <2>7, FlowSame
<1>2. ASSUME NEW n, NEW v, Ends(n, v) PROVE FlowInv'
  <2>1. /\ phase = "visit" /\ phase' = "return" /\ val' = v /\ v \in {Null, Const, In(cur)}
        /\ stack' = stack /\ result' = result /\ cfg' = cfg /\ cur' = cur
        /\ nulls' = (nulls \/ ~v.ok)
    BY <1>2 DEF Ends, Return, SameBody
  <2>2. \A d \in Ats({v}) : d = cur
    BY <2>1 DEF Ats, Null, Const, In
  <2>3. \A d \in Ready' : d \in Ready \/ d = cur
    BY <2>1, <2>2 DEF Ready
  <2>4. SameFlow
    BY <2>1 DEF SameFlow
  <2> QED
    BY <2>1, <2>3, <2>4, FlowSame
<1> QED
  BY <1>1, <1>2, VisitCases

\* What is used where it is ready.
LEMMA FlowUses ==
    ASSUME ShapeInv, NEW V, \A w \in V : ValueOK(w, Size), Ats(V) \subseteq Ready,
           cfg' = WithUses(cfg, cur, V), cur' = cur
    PROVE  SameFlow
<1>1. GraphOK(cfg) /\ cur \in 1..Size
  BY DEF ShapeInv
<1>2. /\ cfg'.edges = cfg.edges /\ cfg'.phis = cfg.phis
      /\ cfg'.uses = cfg.uses \cup Ats(V) \X {cur}
  BY <1>1, WithUsesFacts DEF Size, Ats
<1> QED
  BY <1>2 DEF SameFlow

LEMMA ReadyFacts ==
    ASSUME ShapeInv, stack # <<>>
    PROVE  /\ HeldOf(Rest) \subseteq Ready /\ Held(Top) \subseteq Ready
           /\ Top.node # "if" => Ats(Top.vals) \subseteq Ready /\ HeaderOf(Top) \subseteq Ready
           /\ phase = "return" => Ats({val}) \subseteq Ready /\ ValueOK(val, Size)
           /\ \A w \in Top.vals : ValueOK(w, Size)
           /\ Ats({Const}) = {} /\ Ats({Null}) = {} /\ \A d \in Ats({In(cur)}) : d = cur
           /\ \A V, W : Ats(V \cup W) = Ats(V) \cup Ats(W)
<1>1. HeldOf(stack) = HeldOf(Rest) \cup Held(Top)
  BY FlowSplit, Zenon
<1>2. Top.node # "if" => Held(Top) = Ats(Top.vals) \cup HeaderOf(Top)
  BY DEF Held
<1>3. \A w \in Top.vals : ValueOK(w, Size)
  BY TopFacts DEF FrameOK
<1>4. Ats({Const}) = {} /\ Ats({Null}) = {} /\ \A d \in Ats({In(cur)}) : d = cur
  BY DEF Ats, Const, Null, In
<1>5. \A V, W : Ats(V \cup W) = Ats(V) \cup Ats(W)
  BY DEF Ats
<1>6. phase = "return" => ValueOK(val, Size)
  BY DEF ShapeInv
<1> QED
  BY <1>1, <1>2, <1>3, <1>4, <1>5, <1>6 DEF Ready

LEMMA FlowMoves ==
    ASSUME ShapeInv, NullInv, BlockInv, FlowInv, stack # <<>>, phase \in {"return", "bind"},
           Top.node = "for" \/ Top.node = "var", Top.step # "start",
           NEW t \in {"body", "step", "end"}, NEW V \in SUBSET Value, Ats(V) \subseteq Ready,
           NEW f, Moved(f, t, V), SameCode, SameBody
    PROVE  FlowInv'
<1>1. Top \in Frame /\ t \in Step
  BY NullSome DEF Step
<1>2. /\ f \in Frame /\ f.node = Top.node /\ f.names = Top.names /\ f.step = t
      /\ f.vals = V /\ f.blocks = Top.blocks
  BY <1>1 DEF Frame, Moved
<1>3. GoesOn(f) /\ cfg' = cfg /\ cur' = cur
  BY <1>2 DEF GoesOn, Continue, SameCode, SameBody, NoCode, Moved
<1>4. ~Branching(Top) /\ ~Branching(f) /\ HeaderOf(f) = HeaderOf(Top)
  BY <1>2 DEF Branching, HeaderOf
<1>5. Held(f) \subseteq Ready
  BY <1>2, <1>4, ReadyFacts DEF Held
<1>6. SameFlow
  BY <1>3 DEF SameFlow
<1> QED
  BY <1>3, <1>4, <1>5, <1>6, FlowReplaces

LEMMA FlowContinues ==
    ASSUME ShapeInv, NullInv, BlockInv, FlowInv, NextOperand \/ ForBody \/ ForStep \/ VarBody
    PROVE  FlowInv'
<1>1. CASE NextOperand
  <2> DEFINE f == [Top EXCEPT !.want = @ - 1, !.vals = @ \cup {val}]
  <2>1. /\ phase = "return" /\ stack # <<>> /\ Top.node \in {"call", "binary"} /\ Top.want > 1
        /\ Continue(f) /\ cfg' = cfg /\ cur' = cur /\ UNCHANGED <<args, result, doubled>>
    BY <1>1 DEF NextOperand, Got, SameBody, SameCode, NoCode
  <2>2. Top \in Frame /\ val \in Value
    BY <2>1, NullSome DEF ShapeInv
  <2>3. Top.want - 1 \in Nat
    BY <2>1, <2>2 DEF Frame
  <2>4. /\ f \in Frame /\ f.node = Top.node /\ f.names = Top.names
        /\ f.vals = Top.vals \cup {val} /\ f.step = Top.step
    BY <2>2, <2>3 DEF Frame
  <2> HIDE DEF f
  <2>5. GoesOn(f)
    BY <2>1, <2>4 DEF GoesOn, Continue
  <2>6. ~Branching(Top) /\ ~Branching(f) /\ HeaderOf(f) = {}
    BY <2>1, <2>4 DEF Branching, HeaderOf
  <2>7. Held(f) \subseteq Ready
    <3>1. Held(f) = Ats(Top.vals) \cup Ats({val})
      BY <2>1, <2>4, <2>6, ReadyFacts DEF Held
    <3> QED
      BY <2>1, <3>1, ReadyFacts
  <2>8. SameFlow
    BY <2>1 DEF SameFlow
  <2> QED
    BY <2>5, <2>6, <2>7, <2>8, FlowReplaces
<1>2. CASE ForBody
  <2>1. /\ phase = "return" /\ stack # <<>> /\ Top.node = "for" /\ Top.step = "body"
        /\ SameCode /\ SameBody /\ Top \in Frame
    BY <1>2, NullSome DEF ForBody, Got
  <2>2. Top.vals \in SUBSET Value /\ {Const} \in SUBSET Value
    BY <2>1 DEF Frame, Const, Value
  <2>3. Ats(Top.vals) \subseteq Ready /\ Ats({Const}) \subseteq Ready
    BY <2>1, ReadyFacts
  <2>4. CASE Continue([Top EXCEPT !.step = "step"])
    <3>1. [Top EXCEPT !.step = "step"] = [Top EXCEPT !.step = "step", !.vals = Top.vals]
      BY <2>1 DEF Frame
    <3>2. \E f : Moved(f, "step", Top.vals)
      BY <2>4, <3>1 DEF Moved
    <3> QED
      BY <2>1, <2>2, <2>3, <3>2, FlowMoves
  <2>5. CASE Continue([Top EXCEPT !.step = "end", !.vals = {Const}])
    <3>1. \E f : Moved(f, "end", {Const})
      BY <2>5 DEF Moved
    <3> QED
      BY <2>1, <2>2, <2>3, <3>1, FlowMoves
  <2> QED
    BY <1>2, <2>4, <2>5 DEF ForBody
<1>3. CASE ForStep
  <2>1. /\ phase = "return" /\ stack # <<>> /\ Top.node = "for" /\ Top.step = "step"
        /\ SameCode /\ SameBody /\ {val} \in SUBSET Value
        /\ \E f : Moved(f, "end", {val})
    BY <1>3 DEF ForStep, Got, ShapeInv, Moved
  <2>2. Ats({val}) \subseteq Ready
    BY <2>1, ReadyFacts
  <2> QED
    BY <2>1, <2>2, FlowMoves
<1>4. CASE VarBody
  <2>1. /\ phase = "bind" /\ stack # <<>> /\ Top.node = "var" /\ Top.step = "init"
        /\ SameCode /\ SameBody /\ Top \in Frame /\ Continue([Top EXCEPT !.step = "body"])
    BY <1>4, NullSome DEF VarBody, ShapeInv
  <2>2. Top.vals \in SUBSET Value /\ Ats(Top.vals) \subseteq Ready
    BY <2>1, ReadyFacts DEF Frame
  <2>3. [Top EXCEPT !.step = "body"] = [Top EXCEPT !.step = "body", !.vals = Top.vals]
    BY <2>1 DEF Frame
  <2>4. \E f : Moved(f, "body", Top.vals)
    BY <2>1, <2>3 DEF Moved
  <2> QED
    BY <2>1, <2>2, <2>4, FlowMoves
<1> QED
  BY <1>1, <1>2, <1>3, <1>4

LEMMA FlowBind ==
    ASSUME ShapeInv, NullInv, BlockInv, FlowInv, NEW x, NEW n, Bind(x, n), stack # <<>>,
           phase \in {"return", "bind"}, Top.node = "var", Len(Top.own) < Len(Top.names),
           ValueOK(x, Size), Ats({x}) \subseteq Ready
    PROVE  FlowInv'
<1>1. PICK f : GoesOn(f) /\ f.vals = Top.vals /\ f.blocks = Top.blocks
  BY BindEffect
<1>2. cfg' = WithUses(cfg, cur, {x}) /\ cur' = cur
  BY DEF Bind
<1>3. SameFlow
  BY <1>2, FlowUses
<1>4. f.node = "var"
  BY <1>1 DEF GoesOn
<1>5. ~Branching(Top) /\ ~Branching(f) /\ HeaderOf(f) = {}
  BY <1>4 DEF Branching, HeaderOf
<1>6. Held(f) \subseteq Ready
  BY <1>1, <1>4, <1>5, ReadyFacts DEF Held
<1> QED
  BY <1>1, <1>3, <1>5, <1>6, FlowReplaces

-----------------------------------------------------------------------------
\* The steps that make branches.
LEMMA BranchedFlow ==
    ASSUME ShapeInv, NEW V, \A v \in V : ValueOK(v, Size), NEW n \in Nat,
           NEW T, T \subseteq 1..Size + n,
           cfg' = WithBranch(WithBlocks(WithUses(cfg, cur, V), n), cur, T)
    PROVE  /\ Extends(cfg'.edges, cfg.edges, cur, T)
           /\ cfg'.uses = cfg.uses \cup Ats(V) \X {cur}
           /\ cfg'.phis = cfg.phis
<1> DEFINE u == WithUses(cfg, cur, V)
           w == WithBlocks(u, n)
           g == WithBranch(w, cur, T)
<1>1. GraphOK(cfg) /\ cur \in 1..Size /\ Size \in Nat
  BY StackFacts DEF ShapeInv
<1>2. /\ GraphOK(u) /\ u.terms = cfg.terms /\ u.edges = cfg.edges /\ u.phis = cfg.phis
      /\ u.uses = cfg.uses \cup Ats(V) \X {cur}
  BY <1>1, WithUsesFacts DEF Size, Ats
<1> HIDE DEF u
<1>3. /\ GraphOK(w) /\ Len(w.terms) = Size + n
      /\ w.edges = u.edges /\ w.phis = u.phis /\ w.uses = u.uses
  <2>1. Len(u.terms) = Size
    BY <1>2 DEF Size
  <2> QED
    BY <1>2, <2>1, WithBlocksFacts
<1> HIDE DEF w
<1>4. cur \in 1..Size + n
  BY <1>1
<1>5. /\ GraphOK(g) /\ g.edges = w.edges \cup {<<cur, t>> : t \in T}
      /\ g.phis = w.phis /\ g.uses = w.uses
  BY <1>3, <1>4, WithBranchFacts
<1>6. cfg' = g
  BY DEF g, w, u
<1> HIDE DEF g
<1>7. g.edges \in SUBSET (Nat \X Nat)
  BY <1>5 DEF GraphOK, Graph
<1>8. \A a, b : <<a, b>> \in g.edges <=> <<a, b>> \in cfg.edges \/ (a = cur /\ b \in T)
  BY <1>2, <1>3, <1>5
<1> QED
  BY <1>2, <1>3, <1>5, <1>6, <1>7, <1>8 DEF Extends

\* New blocks: those in T get a branch from the current one, after another one back to an
\* open loop if there is one, and those in N wait.
LEMMA FlowBranches ==
    ASSUME ShapeInv, BlockInv, FlowInv, phase = "return", ~nulls,
           NEW V, \A v \in V : ValueOK(v, Size), Ats(V) \subseteq Ready,
           NEW D, D = cfg.edges \/ \E h \in Ready \cap HeadersOf(stack) :
                     \A a, b : <<a, b>> \in D <=> <<a, b>> \in cfg.edges \/ (a = cur /\ b = h),
           D \in SUBSET ((1..Size) \X (1..Size)),
           NEW T, NEW N, NewBlocks(1..Size, T, N), Extends(cfg'.edges, D, cur, T),
           cfg'.uses = cfg.uses \cup Ats(V) \X {cur}, cfg'.phis = cfg.phis, cur' \in T,
           \A d \in Ready' : d \in Ready \/ d = cur',
           \A h \in HeadersOf(stack') : h \in HeadersOf(stack) \/ h = cur',
           MergesOf(stack') = MergesOf(stack) \cup N, JoinsOf(stack') = JoinsOf(stack),
           \A d, u : <<d, u>> \in SidesOf(stack') =>
                        <<d, u>> \in SidesOf(stack) \/ (d \in Ready /\ u \in T)
    PROVE  Flowing(stack', cfg', cur', Ready')
<1>1. Flowing(stack, cfg, cur, Ready) /\ cur \notin MergesOf(stack)
  BY FlowNow
<1>2. PICK B, E, O, Q, b, M, H, L, W, J :
          /\ B = 1..Size /\ E = cfg.edges /\ O = cfg.uses /\ Q = Gathered(cfg) /\ b = cur
          /\ M = MergesOf(stack) /\ H = Ready /\ L = HeadersOf(stack)
          /\ W = SidesOf(stack) /\ J = JoinsOf(stack)
  OBVIOUS
<1>3. PICK U, F, c, K, R, S : /\ U = cfg'.uses /\ F = cfg'.edges /\ c = cur' /\ K = Ready'
                              /\ R = HeadersOf(stack') /\ S = SidesOf(stack')
  OBVIOUS
<1>4. /\ B \in SUBSET Nat /\ 1 \in B /\ b \in B /\ E \in SUBSET (B \X B) /\ O \in SUBSET (B \X B)
      /\ Q \in SUBSET (B \X B) /\ M \in SUBSET B /\ L \in SUBSET B
      /\ \A d, u : <<d, u>> \in W => u \in B
      /\ \A a, m : <<a, m>> \in J => m \in B
  BY <1>2, FlowRange, Zenon
<1>5. Flows(E, O, Q, b, M, H, L, W, J) /\ b \notin M
  BY <1>1, <1>2, Zenon DEF Flowing
<1>6. Flows(E, U, Q, b, M, H, L, W, J)
  <2>1. \A d, u : <<d, u>> \in U => <<d, u>> \in O \/ (u = b /\ d \in H)
    BY <1>2, <1>3
  <2>2. E \in SUBSET (Nat \X Nat) /\ b \in Nat
    BY <1>4
  <2>3. (\A d \in H : d \in H \/ d = b) /\ L \subseteq L
    OBVIOUS
  <2> QED
    BY <1>5, <2>1, <2>2, <2>3, FlowsUse
<1>7. Flows(D, U, Q, b, M, H, L, W, J)
  <2>1. CASE D = cfg.edges
    BY <1>2, <1>6, <2>1
  <2>2. ASSUME NEW h \in Ready \cap HeadersOf(stack),
               \A a, x : <<a, x>> \in D <=> <<a, x>> \in cfg.edges \/ (a = cur /\ x = h)
        PROVE  Flows(D, U, Q, b, M, H, L, W, J)
    <3>1. h \in L /\ h \in H /\ \A a, x : <<a, x>> \in D <=> <<a, x>> \in E \/ (a = b /\ x = h)
      BY <1>2, <2>2
    <3> QED
      BY <1>5, <1>6, <3>1, FlowsBack
  <2> QED
    BY <2>1, <2>2
<1>8. U \in SUBSET (B \X B)
  <2>1. Ats(V) \subseteq B
    BY <1>2, FlowRange DEF Ats, ValueOK
  <2> QED
    BY <1>2, <1>3, <1>4, <2>1
<1>9. Inside(B, D, U, Q, M, L, W, J)
  BY <1>2, <1>4, <1>8, Zenon DEF Inside
<1>10. /\ NewBlocks(B, T, N) /\ Extends(F, D, b, T) /\ c \in T
       /\ \A d \in K : d \in H \/ d = c
       /\ \A h \in R : h \in L \/ h = c
       /\ \A d, u : <<d, u>> \in S => <<d, u>> \in W \/ (d \in H /\ u \in T)
  BY <1>2, <1>3
<1>11. Flows(F, U, Q, c, M \cup N, K, R, S, J)
  BY <1>4, <1>5, <1>7, <1>9, <1>10, FlowsBranch
<1>12. Gathered(cfg') = Q
  BY <1>2 DEF Gathered
<1>13. Flows(cfg'.edges, cfg'.uses, Gathered(cfg'), cur', MergesOf(stack'), Ready',
             HeadersOf(stack'), SidesOf(stack'), JoinsOf(stack'))
  BY <1>2, <1>3, <1>11, <1>12, Zenon
<1>14. PICK x, g, y, z : x = stack' /\ g = cfg' /\ y = cur' /\ z = Ready'
  OBVIOUS
<1>15. Flowing(x, g, y, z)
  BY <1>13, <1>14 DEF Flowing
<1> QED
  BY <1>14, <1>15

LEMMA FlowIfCond == ASSUME ShapeInv, NullInv, BlockInv, FlowInv, IfCond PROVE FlowInv'
<1>1. PICK f : GoesOn(f) /\ f.step = "then" /\ f.blocks[2] = Size + 2 /\ f.blocks[3] = Size + 3
  BY IfCondEffect
<1>2. /\ phase = "return" /\ stack # <<>> /\ Top.node = "if" /\ Top.step = "cond"
      /\ cur' = Size + 1 /\ Size \in Nat /\ Rest \in Seq(Frame) /\ NewBlock = Size + 1
      /\ cfg' = WithBranch(WithBlocks(WithUses(cfg, cur, {val}), 3), cur, {NewBlock, NewBlock + 1})
  BY IfCondEffect, StackFacts, SplitFacts DEF IfCond, Got, NewBlock, Size
<1>3. /\ phase # "idle" /\ phase' # "return" /\ stack' = Append(Rest, f) /\ f \in Frame
      /\ f.node = "if" /\ nulls' = nulls /\ result' = result
  BY <1>1, <1>2 DEF GoesOn
<1>4. PICK T, N, V : T = {Size + 1, Size + 2} /\ N = {Size + 3} /\ V = {val}
  OBVIOUS
<1>5. /\ NewBlocks(1..Size, T, N) /\ Size + 1 \in T /\ Size + 2 \in T /\ T \subseteq 1..Size + 3
      /\ {NewBlock, NewBlock + 1} = T
  BY <1>2, <1>4 DEF NewBlocks
<1>6. Ats(V) \subseteq Ready /\ \A v \in V : ValueOK(v, Size)
  BY <1>2, <1>4, ReadyFacts
<1>7. /\ Extends(cfg'.edges, cfg.edges, cur, T)
      /\ cfg'.uses = cfg.uses \cup Ats(V) \X {cur} /\ cfg'.phis = cfg.phis
  <2>1. PICK n \in Nat : n = 3
    OBVIOUS
  <2>2. cfg' = WithBranch(WithBlocks(WithUses(cfg, cur, V), n), cur, T) /\ T \subseteq 1..Size + n
    BY <1>2, <1>4, <1>5, <2>1, Zenon
  <2> QED
    BY <1>6, <2>2, BranchedFlow, Zenon
<1>8. /\ ~Branching(Top) /\ Held(Top) = {} /\ HeaderOf(Top) = {} /\ Held(f) = {} /\ HeaderOf(f) = {}
      /\ MergeOf(f) = N /\ JoinOf(f) = {} /\ \A K : SideOf(f, K) = K \X {Size + 2}
  BY <1>1, <1>2, <1>3, <1>4 DEF Branching, Held, HeaderOf, MergeOf, JoinOf, SideOf
<1>9. /\ HeldOf(stack') = HeldOf(stack)
      /\ MergesOf(stack') = MergesOf(stack) \cup N
      /\ HeadersOf(stack') = HeadersOf(stack)
      /\ SidesOf(stack') = SidesOf(stack) \cup HeldOf(stack) \X {Size + 2}
      /\ JoinsOf(stack') = JoinsOf(stack)
  <2>1. /\ HeldOf(stack) = HeldOf(Rest) \cup Held(Top)
        /\ MergesOf(stack) = MergesOf(Rest) \cup MergeOf(Top)
        /\ HeadersOf(stack) = HeadersOf(Rest) \cup HeaderOf(Top)
        /\ SidesOf(stack) = SidesOf(Rest) \cup SideOf(Top, HeldOf(Rest))
        /\ JoinsOf(stack) = JoinsOf(Rest) \cup JoinOf(Top)
    BY <1>2, FlowSplit, Zenon
  <2>2. /\ HeldOf(stack') = HeldOf(Rest) \cup Held(f)
        /\ MergesOf(stack') = MergesOf(Rest) \cup MergeOf(f)
        /\ HeadersOf(stack') = HeadersOf(Rest) \cup HeaderOf(f)
        /\ SidesOf(stack') = SidesOf(Rest) \cup SideOf(f, HeldOf(Rest))
        /\ JoinsOf(stack') = JoinsOf(Rest) \cup JoinOf(f)
    BY <1>2, <1>3, FlowPush, Zenon
  <2>3. MergeOf(Top) = {} /\ JoinOf(Top) = {} /\ SideOf(Top, HeldOf(Rest)) = {}
    BY <1>8, FlowPlain
  <2> QED
    BY <1>8, <2>1, <2>2, <2>3
<1>10. Ready' = HeldOf(stack) /\ HeldOf(stack) \subseteq Ready
  BY <1>3, <1>9 DEF Ready
<1>11. ASSUME ~nulls PROVE Flowing(stack', cfg', cur', Ready')
  <2>1. \A d, u : <<d, u>> \in SidesOf(stack') =>
            <<d, u>> \in SidesOf(stack) \/ (d \in Ready /\ u \in T)
    BY <1>5, <1>9, <1>10
  <2>2. PICK D : D = cfg.edges
    OBVIOUS
  <2>3. D \in SUBSET ((1..Size) \X (1..Size)) /\ Extends(cfg'.edges, D, cur, T)
    BY <1>7, <2>2, FlowRange
  <2>4. /\ cur' \in T /\ \A d \in Ready' : d \in Ready \/ d = cur'
        /\ \A h \in HeadersOf(stack') : h \in HeadersOf(stack) \/ h = cur'
    BY <1>2, <1>5, <1>9, <1>10
  <2> QED
    BY <1>2, <1>5, <1>6, <1>7, <1>9, <1>11, <2>1, <2>2, <2>3, <2>4, FlowBranches
<1> QED
  BY <1>3, <1>11, FlowKeeps

LEMMA FlowForStart == ASSUME ShapeInv, NullInv, BlockInv, FlowInv, ForStart PROVE FlowInv'
<1>1. PICK f : GoesOn(f) /\ f.step = "body" /\ f.blocks[1] = Size + 1 /\ f.vals = Top.vals
  BY ForStartEffect
<1>2. /\ phase = "return" /\ stack # <<>> /\ Top.node = "for" /\ Top.step = "start"
      /\ cur' = Size + 1 /\ Size \in Nat /\ Rest \in Seq(Frame) /\ NewBlock = Size + 1
      /\ cfg' = WithBranch(WithBlocks(WithUses(cfg, cur, {val}), 1), cur, {NewBlock})
  BY ForStartEffect, StackFacts, SplitFacts DEF ForStart, Got, NewBlock, Size
<1>3. /\ phase # "idle" /\ phase' # "return" /\ stack' = Append(Rest, f) /\ f \in Frame
      /\ f.node = "for" /\ nulls' = nulls /\ result' = result
  BY <1>1, <1>2 DEF GoesOn
<1>4. PICK T, N, V : T = {Size + 1} /\ N = {} /\ V = {val}
  OBVIOUS
<1>5. /\ NewBlocks(1..Size, T, N) /\ Size + 1 \in T /\ T \subseteq 1..Size + 1 /\ {NewBlock} = T
  BY <1>2, <1>4 DEF NewBlocks
<1>6. Ats(V) \subseteq Ready /\ \A v \in V : ValueOK(v, Size)
  BY <1>2, <1>4, ReadyFacts
<1>7. /\ Extends(cfg'.edges, cfg.edges, cur, T)
      /\ cfg'.uses = cfg.uses \cup Ats(V) \X {cur} /\ cfg'.phis = cfg.phis
  <2>1. PICK n \in Nat : n = 1
    OBVIOUS
  <2>2. cfg' = WithBranch(WithBlocks(WithUses(cfg, cur, V), n), cur, T) /\ T \subseteq 1..Size + n
    BY <1>2, <1>4, <1>5, <2>1, Zenon
  <2> QED
    BY <1>6, <2>2, BranchedFlow, Zenon
<1>8. /\ ~Branching(Top) /\ ~Branching(f) /\ HeaderOf(Top) = {} /\ HeaderOf(f) = {Size + 1}
      /\ Held(Top) = Ats(Top.vals) /\ Held(f) = Ats(Top.vals) \cup {Size + 1}
  <2>1. ~Branching(Top) /\ ~Branching(f) /\ HeaderOf(Top) = {} /\ HeaderOf(f) = {Size + 1}
    BY <1>1, <1>2, <1>3 DEF Branching, HeaderOf
  <2> QED
    BY <1>1, <1>2, <1>3, <2>1 DEF Held
<1>9. /\ HeldOf(stack') = HeldOf(stack) \cup {Size + 1}
      /\ MergesOf(stack') = MergesOf(stack) \cup N
      /\ HeadersOf(stack') = HeadersOf(stack) \cup {Size + 1}
      /\ SidesOf(stack') = SidesOf(stack)
      /\ JoinsOf(stack') = JoinsOf(stack)
  <2>1. /\ HeldOf(stack) = HeldOf(Rest) \cup Held(Top)
        /\ MergesOf(stack) = MergesOf(Rest) \cup MergeOf(Top)
        /\ HeadersOf(stack) = HeadersOf(Rest) \cup HeaderOf(Top)
        /\ SidesOf(stack) = SidesOf(Rest) \cup SideOf(Top, HeldOf(Rest))
        /\ JoinsOf(stack) = JoinsOf(Rest) \cup JoinOf(Top)
    BY <1>2, FlowSplit, Zenon
  <2>2. /\ HeldOf(stack') = HeldOf(Rest) \cup Held(f)
        /\ MergesOf(stack') = MergesOf(Rest) \cup MergeOf(f)
        /\ HeadersOf(stack') = HeadersOf(Rest) \cup HeaderOf(f)
        /\ SidesOf(stack') = SidesOf(Rest) \cup SideOf(f, HeldOf(Rest))
        /\ JoinsOf(stack') = JoinsOf(Rest) \cup JoinOf(f)
    BY <1>2, <1>3, FlowPush, Zenon
  <2>3. /\ MergeOf(Top) = {} /\ JoinOf(Top) = {} /\ SideOf(Top, HeldOf(Rest)) = {}
        /\ MergeOf(f) = {} /\ JoinOf(f) = {} /\ SideOf(f, HeldOf(Rest)) = {}
    BY <1>8, FlowPlain
  <2> QED
    BY <1>4, <1>8, <2>1, <2>2, <2>3
<1>10. \A d \in Ready' : d \in Ready \/ d = Size + 1
  BY <1>3, <1>9 DEF Ready
<1>11. ASSUME ~nulls PROVE Flowing(stack', cfg', cur', Ready')
  <2>1. \A d, u : <<d, u>> \in SidesOf(stack') =>
            <<d, u>> \in SidesOf(stack) \/ (d \in Ready /\ u \in T)
    BY <1>9
  <2>2. PICK D : D = cfg.edges
    OBVIOUS
  <2>3. D \in SUBSET ((1..Size) \X (1..Size)) /\ Extends(cfg'.edges, D, cur, T)
    BY <1>7, <2>2, FlowRange
  <2>4. /\ cur' \in T /\ \A d \in Ready' : d \in Ready \/ d = cur'
        /\ \A h \in HeadersOf(stack') : h \in HeadersOf(stack) \/ h = cur'
    BY <1>2, <1>5, <1>9, <1>10
  <2> QED
    BY <1>2, <1>5, <1>6, <1>7, <1>9, <1>11, <2>1, <2>2, <2>3, <2>4, FlowBranches
<1> QED
  BY <1>3, <1>11, FlowKeeps

LEMMA FlowForEnd == ASSUME ShapeInv, NullInv, BlockInv, FlowInv, ForEnd PROVE FlowInv'
<1>1. /\ phase = "return" /\ stack # <<>> /\ Top.node = "for" /\ Top.step = "end"
      /\ stack' = Rest /\ cur' = Size + 1 /\ Size \in Nat /\ NewBlock = Size + 1
      /\ cfg' = WithBranch(WithBlocks(WithUses(cfg, cur, Top.vals \cup {val}), 1), cur,
                           {Top.blocks[1], NewBlock})
  BY ForEndEffect, StackFacts DEF ForEnd, Latch, NewBlock, Size
<1>2. /\ phase' = "return" /\ val' = Const /\ result' = result /\ (~nulls' => ~nulls)
  BY DEF ForEnd, SameBody, Leave, Return
<1>3. PICK h, T, N, V : /\ h = Top.blocks[1] /\ T = {Size + 1} /\ N = {} /\ V = Top.vals \cup {val}
  OBVIOUS
<1>4. /\ NewBlocks(1..Size, T, N) /\ Size + 1 \in T
  BY <1>1, <1>3 DEF NewBlocks
<1>5. HeaderOf(Top) = {h} /\ ~Branching(Top)
  BY <1>1, <1>3 DEF HeaderOf, Branching
<1>6. /\ HeldOf(stack) = HeldOf(Rest) \cup Held(Top)
      /\ MergesOf(stack) = MergesOf(Rest) \cup MergeOf(Top)
      /\ HeadersOf(stack) = HeadersOf(Rest) \cup HeaderOf(Top)
      /\ SidesOf(stack) = SidesOf(Rest) \cup SideOf(Top, HeldOf(Rest))
      /\ JoinsOf(stack) = JoinsOf(Rest) \cup JoinOf(Top)
  BY <1>1, FlowSplit, Zenon
<1>7. /\ MergesOf(stack') = MergesOf(stack) \cup N
      /\ SidesOf(stack') = SidesOf(stack) /\ JoinsOf(stack') = JoinsOf(stack)
      /\ HeadersOf(stack') \subseteq HeadersOf(stack)
  <2>1. MergeOf(Top) = {} /\ JoinOf(Top) = {} /\ SideOf(Top, HeldOf(Rest)) = {}
    BY <1>5, FlowPlain
  <2> QED
    BY <1>1, <1>3, <1>6, <2>1
<1>8. h \in Ready \cap HeadersOf(stack) /\ h \in 1..Size
  BY <1>1, <1>5, <1>6, ReadyFacts, FlowRange
<1>9. Ats(V) \subseteq Ready /\ \A v \in V : ValueOK(v, Size)
  BY <1>1, <1>3, ReadyFacts
<1>10. PICK W : W = T \cup {h}
  OBVIOUS
<1>11. /\ Extends(cfg'.edges, cfg.edges, cur, W)
       /\ cfg'.uses = cfg.uses \cup Ats(V) \X {cur} /\ cfg'.phis = cfg.phis
  <2>1. PICK n \in Nat : n = 1
    OBVIOUS
  <2>2. W = {Top.blocks[1], NewBlock} /\ W \subseteq 1..Size + 1
    BY <1>1, <1>3, <1>8, <1>10
  <2>3. cfg' = WithBranch(WithBlocks(WithUses(cfg, cur, V), n), cur, W) /\ W \subseteq 1..Size + n
    BY <1>1, <1>3, <2>1, <2>2, Zenon
  <2> QED
    BY <1>9, <2>3, BranchedFlow, Zenon
<1>12. PICK D : D = cfg.edges \cup {<<cur, h>>}
  OBVIOUS
<1>13. /\ D \in SUBSET ((1..Size) \X (1..Size)) /\ Extends(cfg'.edges, D, cur, T)
       /\ \A a, b : <<a, b>> \in D <=> <<a, b>> \in cfg.edges \/ (a = cur /\ b = h)
  <2>1. D \in SUBSET ((1..Size) \X (1..Size))
    BY <1>8, <1>12, FlowRange
  <2>2. \A a, b : <<a, b>> \in D <=> <<a, b>> \in cfg.edges \/ (a = cur /\ b = h)
    BY <1>12
  <2> QED
    BY <1>10, <1>11, <2>1, <2>2 DEF Extends
<1>14. Ready' = HeldOf(Rest)
  <2>1. Ready' = HeldOf(Rest) \cup Ats({Const})
    BY <1>1, <1>2 DEF Ready
  <2> QED
    BY <1>1, <2>1, ReadyFacts
<1>15. ASSUME ~nulls PROVE Flowing(stack', cfg', cur', Ready')
  <2>1. \A d, u : <<d, u>> \in SidesOf(stack') =>
            <<d, u>> \in SidesOf(stack) \/ (d \in Ready /\ u \in T)
    BY <1>7
  <2>2. /\ cur' \in T /\ \A d \in Ready' : d \in Ready \/ d = cur'
        /\ \A k \in HeadersOf(stack') : k \in HeadersOf(stack) \/ k = cur'
    BY <1>1, <1>4, <1>7, <1>14, ReadyFacts
  <2>3. D = cfg.edges \/ \E k \in Ready \cap HeadersOf(stack) :
            \A a, b : <<a, b>> \in D <=> <<a, b>> \in cfg.edges \/ (a = cur /\ b = k)
    BY <1>8, <1>13, Zenon
  <2> QED
    BY <1>1, <1>4, <1>7, <1>9, <1>11, <1>13, <1>15, <2>1, <2>2, <2>3, FlowBranches
<1> QED
  BY <1>1, <1>2, <1>15, FlowKeeps

LEMMA FlowIfThen == ASSUME ShapeInv, NullInv, BlockInv, FlowInv, IfThen PROVE FlowInv'
<1>1. PICK f : /\ GoesOn(f) /\ f.step = "else" /\ f.blocks[1] = cur
               /\ f.blocks[3] = Top.blocks[3] /\ f.vals = {val}
  BY IfThenEffect
<1>2. /\ phase = "return" /\ stack # <<>> /\ Top.node = "if" /\ Top.step = "then"
      /\ cur' = Top.blocks[2] /\ Top.blocks[3] \in 1..Size /\ Rest \in Seq(Frame)
      /\ cfg' = WithBranch(cfg, cur, {Top.blocks[3]})
  BY IfThenEffect, SplitFacts DEF IfThen, Got
<1>3. /\ phase # "idle" /\ phase' # "return" /\ stack' = Append(Rest, f) /\ f \in Frame
      /\ f.node = "if" /\ nulls' = nulls /\ result' = result
  BY <1>1, <1>2 DEF GoesOn
<1>4. PICK m, e : m = Top.blocks[3] /\ e = Top.blocks[2]
  OBVIOUS
<1>5. /\ MergeOf(Top) = {m} /\ MergeOf(f) = {m} /\ HeaderOf(Top) = {} /\ HeaderOf(f) = {}
      /\ Held(Top) = {} /\ Held(f) = {} /\ JoinOf(Top) = {} /\ JoinOf(f) = {<<cur, m>>}
      /\ \A K : SideOf(Top, K) = K \X {e} /\ SideOf(f, K) = (K \cup Ats({val})) \X {cur}
  BY <1>1, <1>2, <1>3, <1>4 DEF Branching, Held, HeaderOf, MergeOf, JoinOf, SideOf
<1>6. /\ HeldOf(stack) = HeldOf(Rest)
      /\ MergesOf(stack) = MergesOf(Rest) \cup {m}
      /\ HeadersOf(stack) = HeadersOf(Rest)
      /\ SidesOf(stack) = SidesOf(Rest) \cup HeldOf(Rest) \X {e}
      /\ JoinsOf(stack) = JoinsOf(Rest)
  <2>1. /\ HeldOf(stack) = HeldOf(Rest) \cup Held(Top)
        /\ MergesOf(stack) = MergesOf(Rest) \cup MergeOf(Top)
        /\ HeadersOf(stack) = HeadersOf(Rest) \cup HeaderOf(Top)
        /\ SidesOf(stack) = SidesOf(Rest) \cup SideOf(Top, HeldOf(Rest))
        /\ JoinsOf(stack) = JoinsOf(Rest) \cup JoinOf(Top)
    BY <1>2, FlowSplit, Zenon
  <2> QED
    BY <1>5, <2>1
<1>7. /\ HeldOf(stack') = HeldOf(Rest)
      /\ MergesOf(stack') = MergesOf(Rest) \cup {m}
      /\ HeadersOf(stack') = HeadersOf(Rest)
      /\ SidesOf(stack') = SidesOf(Rest) \cup (HeldOf(Rest) \cup Ats({val})) \X {cur}
      /\ JoinsOf(stack') = JoinsOf(Rest) \cup {<<cur, m>>}
  <2>1. /\ HeldOf(stack') = HeldOf(Rest) \cup Held(f)
        /\ MergesOf(stack') = MergesOf(Rest) \cup MergeOf(f)
        /\ HeadersOf(stack') = HeadersOf(Rest) \cup HeaderOf(f)
        /\ SidesOf(stack') = SidesOf(Rest) \cup SideOf(f, HeldOf(Rest))
        /\ JoinsOf(stack') = JoinsOf(Rest) \cup JoinOf(f)
    BY <1>2, <1>3, FlowPush, Zenon
  <2> QED
    BY <1>5, <2>1
<1>8. Ready' = HeldOf(Rest) /\ Ready = HeldOf(Rest) \cup Ats({val})
  BY <1>2, <1>3, <1>6, <1>7 DEF Ready
<1>9. cfg'.edges = cfg.edges \cup {<<cur, m>>} /\ cfg'.uses = cfg.uses /\ cfg'.phis = cfg.phis
  <2>1. PICK g, c : g = cfg /\ c = cur
    OBVIOUS
  <2>2. GraphOK(g) /\ c \in 1..Len(g.terms)
    BY <2>1 DEF ShapeInv, Size
  <2>3. PICK T : T = {m}
    OBVIOUS
  <2>4. T \in SUBSET (1..Len(g.terms))
    BY <1>2, <1>4, <2>1, <2>3 DEF Size
  <2>5. /\ WithBranch(g, c, T).edges = g.edges \cup {<<c, t>> : t \in T}
        /\ WithBranch(g, c, T).uses = g.uses /\ WithBranch(g, c, T).phis = g.phis
    BY <2>2, <2>4, WithBranchFacts
  <2>6. cfg' = WithBranch(g, c, T)
    BY <1>2, <1>4, <2>1, <2>3, Zenon
  <2> QED
    BY <2>1, <2>3, <2>5, <2>6
<1>10. ASSUME ~nulls PROVE Flowing(stack', cfg', cur', Ready')
  <2>1. Flowing(stack, cfg, cur, Ready) /\ cur \notin MergesOf(stack)
    BY <1>2, <1>10, FlowNow
  <2>2. PICK E, F, U, Q, c, M, H, K, L, S, V, J, I :
            /\ E = cfg.edges /\ F = cfg'.edges /\ U = cfg.uses /\ Q = Gathered(cfg) /\ c = cur
            /\ M = MergesOf(stack) /\ H = Ready /\ K = Ready' /\ L = HeadersOf(stack)
            /\ S = SidesOf(stack) /\ V = SidesOf(stack')
            /\ J = JoinsOf(stack) /\ I = JoinsOf(stack')
    OBVIOUS
  <2>3. Flows(E, U, Q, c, M, H, L, S, J) /\ c \notin M
    BY <2>1, <2>2, Zenon DEF Flowing
  <2>4. M \in SUBSET Nat /\ m \in M
    BY <1>6, <2>2, FlowRange
  <2>5. Adds(F, E, c, m) /\ Adds(I, J, c, m)
    BY <1>6, <1>7, <1>9, <2>2 DEF Adds
  <2>6. Flows(F, U, Q, c, M, H, L, S, I)
    BY <2>3, <2>4, <2>5, FlowsMeet
  <2>7. /\ \A d \in K : <<d, e>> \in S
        /\ \A d, u : <<d, u>> \in V => <<d, u>> \in S \/ (d \in H /\ u = c)
    BY <1>6, <1>7, <1>8, <2>2
  <2>8. Flows(F, U, Q, e, M, K, L, V, I)
    BY <2>6, <2>7, FlowsTurn
  <2>9. /\ Gathered(cfg') = Q /\ M = MergesOf(stack') /\ L = HeadersOf(stack') /\ U = cfg'.uses
        /\ e = cur'
    BY <1>2, <1>4, <1>6, <1>7, <1>9, <2>2 DEF Gathered
  <2>10. Flows(cfg'.edges, cfg'.uses, Gathered(cfg'), cur', MergesOf(stack'), Ready',
               HeadersOf(stack'), SidesOf(stack'), JoinsOf(stack'))
    BY <2>2, <2>8, <2>9, Zenon
  <2>11. PICK x, g, y, z : x = stack' /\ g = cfg' /\ y = cur' /\ z = Ready'
    OBVIOUS
  <2>12. Flowing(x, g, y, z)
    BY <2>10, <2>11 DEF Flowing
  <2> QED
    BY <2>11, <2>12
<1> QED
  BY <1>3, <1>10, FlowKeeps

\* The branches that meet in a block are of the `if` that waits for them.
LEMMA JoinsMeet == ASSUME NEW s, NEW a, NEW m, <<a, m>> \in JoinsOf(s) PROVE m \in MergesOf(s)
<1>1. \A f : <<a, m>> \in JoinOf(f) => m \in MergeOf(f)
  BY DEF JoinOf, MergeOf, Branching
<1> QED
  BY <1>1 DEF JoinsOf, MergesOf

\* What the end of an `if` does to the graph: values of O are used in b, those of A in c.
UsesAtEnds(V, U, O, b, A, c) ==
    \A d, u : <<d, u>> \in V => <<d, u>> \in U \/ (d \in O /\ u = b) \/ (d \in A /\ u = c)

LEMMA IfElseFlow ==
    ASSUME ShapeInv, IfElse, NEW b, b = Top.blocks[1], NEW m, m = Top.blocks[3], NEW c, c = cur
    PROVE  /\ cfg'.edges = cfg.edges \cup {<<c, m>>}
           /\ Gathers(Gathered(cfg'), Gathered(cfg), m, b, c)
           /\ UsesAtEnds(cfg'.uses, cfg.uses, Ats(Top.vals), b, Ats({val}), c)
<1>1. phase = "return" /\ stack # <<>> /\ Top.node = "if" /\ Top.step = "else"
  BY DEF IfElse, Got
<1>3. PICK v \in Top.vals : cfg' = WithPhi(WithBranch(cfg, c, {m}), m, {<<b, v>>, <<c, val>>})
  BY DEF IfElse, Incoming, WhereItEnds
<1>4. /\ GraphOK(cfg) /\ c \in 1..Size /\ b \in 1..Size /\ m \in 1..Size
      /\ ValueOK(v, Size) /\ ValueOK(val, Size)
  <2>1. FrameOK(Top, allocas, Size) /\ GraphOK(cfg) /\ cur \in 1..Size /\ ValueOK(val, Size)
    BY <1>1, GotFacts
  <2>2. Top.blocks \in Seq(1..Size) /\ Len(Top.blocks) = 3 /\ ValueOK(v, Size)
    BY <1>1, <2>1 DEF FrameOK, Shape
  <2>3. 1 \in 1..Len(Top.blocks) /\ 3 \in 1..Len(Top.blocks)
    BY <2>2
  <2> QED
    BY <2>1, <2>2, <2>3, ElementOfSeq
<1>5. PICK T, I : T = {m} /\ I = {<<b, v>>, <<c, val>>}
  OBVIOUS
<1>6. PICK w : w = WithBranch(cfg, c, T)
  OBVIOUS
<1>7. /\ GraphOK(w) /\ Len(w.terms) = Size /\ w.phis = cfg.phis /\ w.uses = cfg.uses
      /\ w.edges = cfg.edges \cup {<<c, t>> : t \in T}
  <2>1. T \in SUBSET (1..Size)
    BY <1>4, <1>5
  <2> QED
    BY <1>4, <1>6, <2>1, WithBranchFacts DEF Size
<1>8. \A p \in I : p = <<p[1], p[2]>> /\ p[1] \in 1..Len(w.terms) /\ ValueOK(p[2], Len(w.terms))
  BY <1>4, <1>5, <1>7
<1>9. cfg' = WithPhi(w, m, I)
  BY <1>3, <1>5, <1>6
<1>10. /\ cfg'.edges = w.edges
       /\ cfg'.phis = w.phis \cup {[block |-> m, from |-> p[1]] : p \in I}
       /\ cfg'.uses = w.uses \cup {<<p[2].at, p[1]>> : p \in {q \in I : q[2].at # 0}}
  <2>1. m \in 1..Len(w.terms)
    BY <1>4, <1>7
  <2> QED
    BY <1>7, <1>8, <1>9, <2>1, WithPhiFacts
<1>11. cfg'.edges = cfg.edges \cup {<<c, m>>}
  BY <1>5, <1>7, <1>10
<1>12. cfg'.phis = cfg.phis \cup {[block |-> m, from |-> b], [block |-> m, from |-> c]}
  BY <1>5, <1>7, <1>10
<1>13. ASSUME NEW a, NEW k
       PROVE  <<a, k>> \in Gathered(cfg') <=>
                 <<a, k>> \in Gathered(cfg) \/ (k = m /\ (a = b \/ a = c))
  <2>1. PICK p, q : p = [block |-> m, from |-> b] /\ q = [block |-> m, from |-> c]
    OBVIOUS
  <2>2. p.block = m /\ p.from = b /\ q.block = m /\ q.from = c
    BY <2>1
  <2>3. \A x : x \in cfg'.phis <=> x \in cfg.phis \/ x = p \/ x = q
    BY <1>12, <2>1
  <2>4. /\ <<a, k>> \in Gathered(cfg') <=> \E x \in cfg'.phis : <<a, k>> = <<x.from, x.block>>
        /\ <<a, k>> \in Gathered(cfg) <=> \E x \in cfg.phis : <<a, k>> = <<x.from, x.block>>
    BY Zenon DEF Gathered
  <2>5. \A x : <<a, k>> = <<x.from, x.block>> <=> a = x.from /\ k = x.block
    OBVIOUS
  <2> QED
    BY <2>2, <2>3, <2>4, <2>5
<1>14. ASSUME NEW d, NEW u, <<d, u>> \in cfg'.uses
       PROVE  <<d, u>> \in cfg.uses \/ (d \in Ats(Top.vals) /\ u = b) \/ (d \in Ats({val}) /\ u = c)
  <2>1. CASE <<d, u>> \in w.uses
    BY <1>7, <2>1
  <2>2. CASE <<d, u>> \notin w.uses
    <3>1. PICK p \in I : p[2].at # 0 /\ d = p[2].at /\ u = p[1]
      BY <1>10, <1>14, <2>2
    <3>2. CASE p = <<b, v>>
      <4>1. d = v.at /\ u = b /\ d # 0
        BY <3>1, <3>2
      <4> QED
        BY <4>1 DEF Ats
    <3>3. CASE p = <<c, val>>
      <4>1. d = val.at /\ u = c /\ d # 0
        BY <3>1, <3>3
      <4> QED
        BY <4>1 DEF Ats
    <3> QED
      BY <1>5, <3>1, <3>2, <3>3
  <2> QED
    BY <2>1, <2>2
<1>15. Gathers(Gathered(cfg'), Gathered(cfg), m, b, c)
  BY <1>13, Zenon DEF Gathers
<1>16. UsesAtEnds(cfg'.uses, cfg.uses, Ats(Top.vals), b, Ats({val}), c)
  BY <1>14, Zenon DEF UsesAtEnds
<1> QED
  BY <1>11, <1>15, <1>16, Zenon

LEMMA FlowIfElse == ASSUME ShapeInv, NullInv, BlockInv, FlowInv, IfElse PROVE FlowInv'
<1>1. PICK b, m : b = Top.blocks[1] /\ m = Top.blocks[3]
  OBVIOUS
<1>2. /\ phase = "return" /\ stack # <<>> /\ Top.node = "if" /\ Top.step = "else"
      /\ stack' = Rest /\ cur' = m /\ m \in 1..Size /\ Rest \in Seq(Frame) /\ Top \in Frame
      /\ stack = Append(Rest, Top)
  BY <1>1, IfElseEffect, SplitFacts
<1>3. /\ phase' = "return" /\ val' = In(m) /\ result' = result /\ (~nulls' => ~nulls)
  BY <1>1 DEF IfElse, SameBody, Leave, Return
<1>4. PICK c : c = cur
  OBVIOUS
<1>5. /\ HeldOf(stack) = HeldOf(Rest)
      /\ MergesOf(stack) = MergesOf(Rest) \cup {m}
      /\ HeadersOf(stack) = HeadersOf(Rest)
      /\ SidesOf(stack) = SidesOf(Rest) \cup (HeldOf(Rest) \cup Ats(Top.vals)) \X {b}
      /\ JoinsOf(stack) = JoinsOf(Rest) \cup {<<b, m>>}
  <2>1. /\ HeldOf(stack) = HeldOf(Rest) \cup Held(Top)
        /\ MergesOf(stack) = MergesOf(Rest) \cup MergeOf(Top)
        /\ HeadersOf(stack) = HeadersOf(Rest) \cup HeaderOf(Top)
        /\ SidesOf(stack) = SidesOf(Rest) \cup SideOf(Top, HeldOf(Rest))
        /\ JoinsOf(stack) = JoinsOf(Rest) \cup JoinOf(Top)
    BY <1>2, FlowSplit, Zenon
  <2>2. /\ MergeOf(Top) = {m} /\ HeaderOf(Top) = {} /\ Held(Top) = {} /\ JoinOf(Top) = {<<b, m>>}
        /\ SideOf(Top, HeldOf(Rest)) = (HeldOf(Rest) \cup Ats(Top.vals)) \X {b}
    BY <1>1, <1>2 DEF Branching, Held, HeaderOf, MergeOf, JoinOf, SideOf
  <2> QED
    BY <2>1, <2>2
<1>6. Ready' = HeldOf(Rest) \cup Ats({In(m)}) /\ Ready = HeldOf(Rest) \cup Ats({val})
  BY <1>2, <1>3, <1>5 DEF Ready
<1>7. ASSUME ~nulls PROVE Flowing(stack', cfg', cur', Ready')
  <2>1. Flowing(stack, cfg, cur, Ready) /\ cur \notin MergesOf(stack) /\ Apart(stack)
    BY <1>2, <1>7, FlowNow
  <2>2. m \notin MergesOf(Rest)
    <3>1. Pending(Top) = {m}
      BY <1>1, <1>2 DEF Pending
    <3>2. Pending(Top) \cap PendingIn(Rest) = {}
      BY <1>2, <2>1, PendingPush
    <3> QED
      BY <3>1, <3>2, MergesWait
  <2>3. PICK E, F, U, V, Q, P, M, N, H, K, L, S, W, J, I, O, A :
            /\ E = cfg.edges /\ F = cfg'.edges /\ U = cfg.uses /\ V = cfg'.uses
            /\ Q = Gathered(cfg) /\ P = Gathered(cfg')
            /\ M = MergesOf(stack) /\ N = MergesOf(Rest) /\ H = Ready /\ K = Ready'
            /\ L = HeadersOf(stack) /\ S = SidesOf(stack) /\ W = SidesOf(Rest)
            /\ J = JoinsOf(stack) /\ I = JoinsOf(Rest) /\ O = Ats(Top.vals) /\ A = Ats({val})
    OBVIOUS
  <2>4. Flows(E, U, Q, c, M, H, L, S, J) /\ c \notin M
    BY <1>4, <2>1, <2>3, Zenon DEF Flowing
  <2>5. M \in SUBSET Nat /\ m \in M /\ m \in Nat
    BY <1>5, <2>3, FlowRange
  <2>6. Leaving(N, M, m)
    BY <1>5, <2>2, <2>3 DEF Leaving
  <2>7. PICK D : D = J \cup {<<c, m>>}
    OBVIOUS
  <2>8. Adds(D, J, c, m)
    BY <2>7 DEF Adds
  <2>9. F = E \cup {<<c, m>>}
    BY <1>1, <1>4, <2>3, IfElseFlow, Zenon
  <2>10. Adds(F, E, c, m)
    BY <2>9 DEF Adds
  <2>11. Flows(F, U, Q, c, M, H, L, S, D)
    BY <2>4, <2>5, <2>8, <2>10, FlowsMeet
  <2>12. Joins(D, m, b, c)
    <3>1. \A a : <<a, m>> \notin I
      BY <2>2, <2>3, JoinsMeet
    <3>2. J = I \cup {<<b, m>>}
      BY <1>5, <2>3, Zenon
    <3> QED
      BY <2>7, <3>1, <3>2 DEF Joins
  <2>13. AgreeOn(N, I, D)
    <3>1. J = I \cup {<<b, m>>}
      BY <1>5, <2>3, Zenon
    <3> QED
      BY <2>6, <2>7, <3>1 DEF AgreeOn, Leaving
  <2>14. UsedReady(V, U, S, c, H)
    <3>1. UsesAtEnds(cfg'.uses, cfg.uses, Ats(Top.vals), b, Ats({val}), c)
      BY <1>1, <1>4, IfElseFlow
    <3>2. UsesAtEnds(V, U, O, b, A, c)
      BY <2>3, <3>1
    <3>3. \A d \in O : <<d, b>> \in S
      BY <1>5, <2>3
    <3>4. \A d \in A : d \in H
      BY <1>6, <2>3
    <3> QED
      BY <3>2, <3>3, <3>4 DEF UsedReady, UsesAtEnds
  <2>15. Gathers(P, Q, m, b, c)
    <3>1. Gathers(Gathered(cfg'), Gathered(cfg), m, b, c)
      BY <1>1, <1>4, IfElseFlow
    <3> QED
      BY <2>3, <3>1
  <2>16. OnBoth(K, H, S, m, b)
    <3>1. \A d \in Ats({In(m)}) : d = m
      BY DEF Ats, In
    <3> QED
      BY <1>5, <1>6, <2>3, <3>1 DEF OnBoth
  <2>17. F \in SUBSET (Nat \X Nat)
    <3>1. E \in SUBSET (Nat \X Nat) /\ c \in Nat
      BY <1>4, <2>3, FlowRange
    <3> QED
      BY <2>5, <2>9, <3>1
  <2>18. L \subseteq L /\ W \subseteq S
    BY <1>5, <2>3
  <2>19. Flows(F, V, P, m, N, K, L, W, I)
    BY <2>5, <2>6, <2>11, <2>12, <2>13, <2>14, <2>15, <2>16, <2>17, <2>18, FlowsJoin
  <2>20. Flows(cfg'.edges, cfg'.uses, Gathered(cfg'), cur', MergesOf(stack'), Ready',
               HeadersOf(stack'), SidesOf(stack'), JoinsOf(stack'))
    BY <1>2, <1>5, <2>3, <2>19, Zenon
  <2>21. PICK x, g, y, z : x = stack' /\ g = cfg' /\ y = cur' /\ z = Ready'
    OBVIOUS
  <2>22. Flowing(x, g, y, z)
    BY <2>20, <2>21 DEF Flowing
  <2> QED
    BY <2>21, <2>22
<1> QED
  BY <1>2, <1>3, <1>7, FlowKeeps

LEMMA FlowResume == ASSUME ShapeInv, NullInv, BlockInv, FlowInv, Resume PROVE FlowInv'
<1>1. ASSUME NEW v, Leave(v), phase = "return", stack # <<>>, result' = result, SameFlow,
             ~v.ok \/ Top.node # "if", \A d \in Ats({v}) : d \in Ready \/ d = cur
      PROVE  FlowInv'
  <2>1. stack' = Rest /\ Return(v) /\ (~v.ok \/ ~Branching(Top))
    BY <1>1 DEF Leave, Branching
  <2> QED
    BY <1>1, <2>1, FlowLeaves
<1>2. NoCode => SameFlow
  BY DEF NoCode, SameFlow
<1>3. phase = "return" /\ stack # <<>> =>
         /\ ValueOK(val, Size) /\ \A d \in Ats({val}) : d \in Ready \/ d = cur
         /\ \A d \in Ats({In(cur)}) : d \in Ready \/ d = cur
         /\ \A d \in Ats({Const}) : d \in Ready \/ d = cur
         /\ \A d \in Ats({Null}) : d \in Ready \/ d = cur
  BY ReadyFacts
<1>4. ASSUME phase = "return", stack # <<>>, cfg' = WithUses(cfg, cur, {val}), cur' = cur
      PROVE  SameFlow
  <2>1. PICK V : V = {val}
    OBVIOUS
  <2>2. Ats(V) \subseteq Ready /\ \A w \in V : ValueOK(w, Size)
    BY <1>4, <2>1, ReadyFacts
  <2>3. cfg' = WithUses(cfg, cur, V)
    BY <1>4, <2>1
  <2> QED
    BY <1>4, <2>2, <2>3, FlowUses
<1>5. CASE PartFails
  <2>1. /\ Leave(Null) /\ phase = "return" /\ stack # <<>> /\ result' = result /\ NoCode
        /\ ~Null.ok
    BY <1>5 DEF PartFails, SameCode, SameBody, Null
  <2> QED
    BY <1>1, <1>2, <1>3, <2>1
<1>6. CASE AssignDone
  <2>1. phase = "return" /\ stack # <<>> /\ Top.node = "assign" /\ result' = result
    BY <1>6 DEF AssignDone, Got, SameBody
  <2>2. CASE Leave(Null) /\ NoCode
    BY <1>1, <1>2, <1>3, <2>1, <2>2
  <2>3. CASE Leave(val) /\ cfg' = WithUses(cfg, cur, {val}) /\ UNCHANGED cur
    BY <1>1, <1>3, <1>4, <2>1, <2>3
  <2> QED
    BY <1>6, <2>2, <2>3 DEF AssignDone
<1>7. CASE UnaryDone
  <2>1. phase = "return" /\ stack # <<>> /\ Top.node = "unary" /\ result' = result
    BY <1>7 DEF UnaryDone, Got, SameBody
  <2>2. CASE Leave(Null) /\ NoCode
    BY <1>1, <1>2, <1>3, <2>1, <2>2
  <2>3. CASE stack' = Rest /\ Return(In(cur)) /\ cfg' = WithUses(cfg, cur, {val}) /\ UNCHANGED cur
    <3>1. ~Branching(Top)
      BY <2>1 DEF Branching
    <3>2. SameFlow
      BY <1>4, <2>1, <2>3
    <3> QED
      BY <1>3, <2>1, <2>3, <3>1, <3>2, FlowLeaves
  <2> QED
    BY <1>7, <2>2, <2>3 DEF UnaryDone
<1>8. CASE LastOperand
  <2>1. /\ phase = "return" /\ stack # <<>> /\ Top.node \in {"call", "binary"} /\ Top.node # "if"
        /\ result' = result
    BY <1>8 DEF LastOperand, Got, SameBody
  <2>2. CASE Leave(Null) /\ NoCode
    BY <1>1, <1>2, <1>3, <2>1, <2>2
  <2>3. CASE Leave(In(cur)) /\ cfg' = WithUses(cfg, cur, Top.vals \cup {val}) /\ UNCHANGED cur
    <3>1. PICK V : V = Top.vals \cup {val}
      OBVIOUS
    <3>2. \A w \in V : ValueOK(w, Size)
      BY <2>1, <3>1, ReadyFacts
    <3>3. Ats(V) \subseteq Ready
      <4>1. Ats(V) = Ats(Top.vals) \cup Ats({val})
        BY <2>1, <3>1, ReadyFacts
      <4> QED
        BY <2>1, <4>1, ReadyFacts
    <3>4. SameFlow
      BY <2>3, <3>1, <3>2, <3>3, FlowUses
    <3> QED
      BY <1>1, <1>3, <2>1, <2>3, <3>4
  <2> QED
    BY <1>8, <2>2, <2>3 DEF LastOperand
<1>9. CASE VarNext
  <2>1. phase = "bind" /\ stack # <<>> /\ Top.node = "var" /\ Len(Top.own) < Len(Top.names)
    BY <1>9 DEF VarNext, ShapeInv
  <2>2. CASE Bind(Const, "default")
    <3>1. ValueOK(Const, Size)
      BY StackFacts DEF ValueOK, Const, Value
    <3>2. Ats({Const}) \subseteq Ready
      BY <2>1, ReadyFacts
    <3> QED
      BY <2>1, <2>2, <3>1, <3>2, FlowBind
  <2>3. CASE phase' = "visit" /\ UNCHANGED <<val, nulls, stack, loc>> /\ SameCode /\ SameBody
    <3>1. /\ stack' = stack /\ nulls' = nulls /\ result' = result /\ NoCode
          /\ phase' # "return" /\ phase # "return"
      BY <2>1, <2>3 DEF SameCode, SameBody
    <3>2. Ready' = Ready
      BY <3>1 DEF Ready
    <3> QED
      BY <1>2, <2>1, <3>1, <3>2, FlowSame
  <2> QED
    BY <1>9, <2>2, <2>3 DEF VarNext
<1>10. CASE VarInit
  <2>1. /\ phase = "return" /\ stack # <<>> /\ Top.node = "var" /\ Top.step = "init"
        /\ Bind(val, "var")
    BY <1>10 DEF VarInit, Got
  <2>2. Len(Top.own) < Len(Top.names) /\ ValueOK(val, Size)
    BY <2>1, GotFacts DEF Waits
  <2>3. Ats({val}) \subseteq Ready
    BY <2>1, ReadyFacts
  <2> QED
    BY <2>1, <2>2, <2>3, FlowBind
<1>11. CASE VarDone
  <2>1. /\ phase = "return" /\ stack # <<>> /\ Top.node = "var" /\ Leave(val) /\ NoCode
        /\ result' = result
    BY <1>11 DEF VarDone, Got
  <2> QED
    BY <1>1, <1>2, <1>3, <2>1
<1> QED
  BY <1>5, <1>6, <1>7, <1>8, <1>9, <1>10, <1>11, FlowContinues, FlowIfCond, FlowIfThen,
     FlowIfElse, FlowForStart, FlowForEnd, Zenon DEF Resume

LEMMA FlowBegin == ASSUME NEW ps \in ArgLists, ShapeInv, Begin(ps) PROVE FlowInv'
<1>1. /\ stack' = <<>> /\ result' = "none" /\ cur' = 1 /\ cfg' = EntryOnly /\ phase' = "visit"
  BY DEF Begin, ShapeInv
<1>2. EntryOnly.edges = {} /\ EntryOnly.uses = {} /\ Gathered(EntryOnly) = {}
  BY DEF EntryOnly, Gathered
<1>3. /\ MergesOf(<<>>) = {} /\ HeadersOf(<<>>) = {} /\ SidesOf(<<>>) = {} /\ JoinsOf(<<>>) = {}
      /\ HeldOf(<<>>) = {}
  BY DEF MergesOf, HeadersOf, SidesOf, JoinsOf, HeldOf, HeldIn
<1>4. Flows({}, {}, {}, 1, {}, {}, {}, {}, {})
  BY DEF Flows
<1>5. Ready' = {}
  BY <1>1, <1>3 DEF Ready
<1>6. Flowing(<<>>, EntryOnly, 1, {})
  BY <1>2, <1>3, <1>4, Zenon DEF Flowing
<1>7. Flowing(stack', cfg', cur', Ready')
  BY <1>1, <1>5, <1>6
<1> QED
  BY <1>1, <1>7 DEF FlowInv, PhisMatchBranches, ValuesDominateUses

\* What a graph with the flow is: the phi nodes of a block have a value for each branch to
\* it, and what is used somewhere is on every path there.
PhisFit(g) == \A m \in DOMAIN g.terms :
    LET from == {p.from : p \in {q \in g.phis : q.block = m}}
    IN  from # {} => from = {b \in DOMAIN g.terms : <<b, m>> \in g.edges}
UsesFit(g) == \A e \in g.uses : e[1] = 1 \/ \E S \in SUBSET (DOMAIN g.terms \ {e[1]}) :
    1 \in S /\ e[2] \notin S /\ \A x \in g.edges : x[1] \in S /\ x[2] # e[1] => x[2] \in S

LEMMA FlowEnds ==
    ASSUME NEW g, GraphOK(g), NEW c, NEW M, NEW H, NEW L, NEW S, NEW J,
           Flows(g.edges, g.uses, Gathered(g), c, M, H, L, S, J)
    PROVE  PhisFit(g) /\ UsesFit(g)
<1>1. PICK D, n : n = Len(g.terms) /\ D = 1..n
  OBVIOUS
<1>2. /\ n \in Nat /\ DOMAIN g.terms = D
      /\ g.edges \subseteq D \X D /\ g.uses \subseteq D \X D /\ g.phis \subseteq [block : D, from : D]
  BY <1>1, LenProperties DEF GraphOK, Graph
<1>3. ASSUME NEW m, NEW A, A = {p.from : p \in {q \in g.phis : q.block = m}}, A # {}
      PROVE  A = {b \in D : <<b, m>> \in g.edges}
  <2>1. \A a : a \in A <=> <<a, m>> \in Gathered(g)
    <3>1. ASSUME NEW a, a \in A PROVE <<a, m>> \in Gathered(g)
      BY <1>3, <3>1 DEF Gathered
    <3>2. ASSUME NEW a, <<a, m>> \in Gathered(g) PROVE a \in A
      BY <1>3, <3>2 DEF Gathered
    <3> QED
      BY <3>1, <3>2
  <2>2. \A a : <<a, m>> \in g.edges <=> <<a, m>> \in Gathered(g)
    BY <1>3, <2>1 DEF Flows
  <2> QED
    BY <1>2, <2>1, <2>2
<1>4. PhisFit(g)
  <2>1. ASSUME NEW m PROVE LET A == {p.from : p \in {q \in g.phis : q.block = m}}
                           IN  A # {} => A = {b \in D : <<b, m>> \in g.edges}
    <3> DEFINE A == {p.from : p \in {q \in g.phis : q.block = m}}
    <3>1. PICK Z : Z = A
      OBVIOUS
    <3>2. Z # {} => Z = {b \in D : <<b, m>> \in g.edges}
      BY <1>3, <3>1
    <3> QED
      BY <3>1, <3>2, Zenon
  <2> QED
    BY <1>2, <2>1, Zenon DEF PhisFit
<1>5. ASSUME NEW e \in g.uses, e[1] # 1
      PROVE  \E R \in SUBSET (D \ {e[1]}) :
                1 \in R /\ e[2] \notin R /\ \A x \in g.edges : x[1] \in R /\ x[2] # e[1] => x[2] \in R
  <2>1. PICK d \in D, u \in D : e = <<d, u>> /\ e[1] = d /\ e[2] = u /\ d # 1
    BY <1>2, <1>5
  <2>2. Dom(g.edges, d, u)
    BY <2>1 DEF Flows
  <2>3. PICK P \in SUBSET Nat : /\ 1 \in P /\ d \notin P /\ u \notin P
                                /\ \A a, b : <<a, b>> \in g.edges /\ a \in P /\ b # d => b \in P
    BY <2>1, <2>2, Zenon DEF Dom
  <2>4. PICK R : R = P \cap D
    OBVIOUS
  <2>5. 1 \in D
    BY <1>1, <1>2, <2>1
  <2>6. R \in SUBSET (D \ {d}) /\ 1 \in R /\ u \notin R
    BY <2>3, <2>4, <2>5
  <2>7. ASSUME NEW x \in g.edges, x[1] \in R, x[2] # d PROVE x[2] \in R
    <3>1. x = <<x[1], x[2]>> /\ x[2] \in D
      BY <1>2
    <3> QED
      BY <2>3, <2>4, <2>7, <3>1
  <2> QED
    BY <2>1, <2>6, <2>7
<1>6. UsesFit(g)
  BY <1>2, <1>5, Zenon DEF UsesFit
<1> QED
  BY <1>4, <1>6

LEMMA FlowFinish == ASSUME ShapeInv, NullInv, BlockInv, FlowInv, Finish PROVE FlowInv'
<1>1. phase = "return" /\ stack = <<>> /\ phase' = "idle" /\ cur' = cur
  BY DEF Finish
<1>2. CASE val.ok
  <2>1. cfg' = WithBranch(WithUses(cfg, cur, {val}), cur, {})
    BY <1>2 DEF Finish
  <2>2. ~nulls
    <3>1. DOMAIN stack = {}
      BY <1>1
    <3> QED
      BY <1>1, <1>2, <3>1 DEF NullInv
  <2>3. Flowing(stack, cfg, cur, Ready) /\ cur \notin MergesOf(stack)
    BY <1>1, <2>2, FlowNow
  <2>4. PICK g, c, V : g = cfg /\ c = cur /\ V = {val}
    OBVIOUS
  <2>5. /\ GraphOK(g) /\ c \in 1..Len(g.terms) /\ \A w \in V : ValueOK(w, Len(g.terms))
        /\ Ats(V) \subseteq Ready
    BY <1>1, <2>4 DEF ShapeInv, Size, Ready
  <2>6. PICK u : u = WithUses(g, c, V)
    OBVIOUS
  <2>7. /\ GraphOK(u) /\ u.terms = g.terms /\ u.edges = g.edges /\ u.phis = g.phis
        /\ u.uses = g.uses \cup Ats(V) \X {c}
    BY <2>5, <2>6, WithUsesFacts DEF Ats
  <2>8. PICK h, T : h = WithBranch(u, c, T) /\ T = {}
    OBVIOUS
  <2>9. /\ GraphOK(h) /\ h.edges = u.edges \cup {<<c, t>> : t \in T}
        /\ h.phis = u.phis /\ h.uses = u.uses
    <3>1. c \in 1..Len(u.terms) /\ T \in SUBSET (1..Len(u.terms))
      BY <2>5, <2>7, <2>8
    <3> QED
      BY <2>7, <2>8, <3>1, WithBranchFacts
  <2>10. h.edges = g.edges /\ h.phis = g.phis /\ h.uses = g.uses \cup Ats(V) \X {c}
    BY <2>7, <2>8, <2>9
  <2>11. PICK E, U, W, Q, M, H, L, S, J :
            /\ E = g.edges /\ U = g.uses /\ W = h.uses /\ Q = Gathered(g)
            /\ M = MergesOf(stack) /\ H = Ready /\ L = HeadersOf(stack)
            /\ S = SidesOf(stack) /\ J = JoinsOf(stack)
    OBVIOUS
  <2>12. E \in SUBSET (Nat \X Nat) /\ c \in Nat
    BY <2>4, <2>11, FlowRange
  <2>13. Flows(E, U, Q, c, M, H, L, S, J) /\ c \notin M
    BY <2>3, <2>4, <2>11, Zenon DEF Flowing
  <2>14. \A d, x : <<d, x>> \in W => <<d, x>> \in U \/ (x = c /\ d \in H)
    BY <2>5, <2>10, <2>11
  <2>15. (\A d \in H : d \in H \/ d = c) /\ L \subseteq L
    OBVIOUS
  <2>16. Flows(E, W, Q, c, M, H, L, S, J)
    BY <2>12, <2>13, <2>14, <2>15, FlowsUse
  <2>17. Flows(h.edges, h.uses, Gathered(h), c, M, H, L, S, J)
    <3>1. Gathered(h) = Q
      BY <2>10, <2>11 DEF Gathered
    <3> QED
      BY <2>10, <2>11, <2>16, <3>1, Zenon
  <2>18. PhisFit(h) /\ UsesFit(h)
    BY <2>9, <2>17, FlowEnds
  <2>19. cfg' = h
    BY <2>1, <2>4, <2>6, <2>8, Zenon
  <2>20. PhisMatchBranches'
    BY <2>18, <2>19, Zenon DEF PhisMatchBranches, PhisFit, Blocks
  <2>21. ValuesDominateUses'
    <3>1. ASSUME NEW e \in cfg'.uses PROVE Dominates(e[1], e[2])'
      BY <2>18, <2>19, Zenon DEF Dominates, UsesFit, Blocks
    <3> QED
      BY <3>1, Zenon DEF ValuesDominateUses
  <2> QED
    BY <1>1, <2>20, <2>21 DEF FlowInv
<1>3. CASE ~val.ok
  BY <1>1, <1>3 DEF Finish, FlowInv, PhisMatchBranches, ValuesDominateUses
<1> QED
  BY <1>2, <1>3

LEMMA FlowStep == ShapeInv /\ NullInv /\ BlockInv /\ FlowInv /\ [Next]_vars => FlowInv'
<1> SUFFICES ASSUME ShapeInv, NullInv, BlockInv, FlowInv, [Next]_vars PROVE FlowInv'
  OBVIOUS
<1>1. CASE UNCHANGED vars
  <2>1. /\ phase' = phase /\ nulls' = nulls /\ stack' = stack /\ cfg' = cfg /\ cur' = cur
        /\ val' = val /\ result' = result
    BY <1>1 DEF vars
  <2>2. Ready' = Ready
    BY <2>1 DEF Ready
  <2>3. PhisMatchBranches' /\ ValuesDominateUses'
    BY <2>1 DEF FlowInv, PhisMatchBranches, ValuesDominateUses, Dominates, Blocks
  <2> QED
    BY <2>1, <2>2, <2>3 DEF FlowInv
<1> QED
  BY <1>1, FlowBegin, FlowVisit, FlowResume, FlowFinish DEF Next

LEMMA FlowHolds == Spec => []FlowInv
<1>1. Init => FlowInv
  BY DEF Init, FlowInv, PhisMatchBranches, ValuesDominateUses
<1>2. Init => BlockInv
  BY DEF Init, BlockInv, OneTerminatorEach
<1> QED
  BY <1>1, <1>2, BlockStep, FlowStep, ShapeHolds, NullHolds, PTL DEF Spec

\* However the parts of an `if` split into blocks of their own, its phi node has a value
\* for exactly the blocks that branch to it: those its parts end in, not those they began
\* in.
THEOREM PhisAlwaysMatch == Spec => []PhisMatchBranches
<1>1. FlowInv => PhisMatchBranches
  BY DEF FlowInv
<1> QED
  BY <1>1, FlowHolds, PTL

\* Whatever loops and branches there are between, a value is used only where every path
\* from the entry has passed the block that computes it.
THEOREM ValuesAlwaysDominate == Spec => []ValuesDominateUses
<1>1. FlowInv => ValuesDominateUses
  BY DEF FlowInv
<1> QED
  BY <1>1, FlowHolds, PTL
=============================================================================
