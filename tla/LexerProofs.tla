------------------------------ MODULE LexerProofs ------------------------------
(***************************************************************************)
(* The safety of the lexer, for texts of any length over any alphabet.     *)
(*                                                                         *)
(* The invariant says what the one character of lookahead, its location    *)
(* and the run that is being read have to do with the text.                *)
(***************************************************************************)
EXTENDS Lexer, FiniteSetTheorems, SequenceTheorems, WellFoundedInduction, TLAPS

\* A set of natural numbers that is not empty has a least element.
LEMMA LeastExists ==
    ASSUME NEW S, S \subseteq Nat, S # {}
    PROVE  \E n \in S : \A m \in S : n <= m
<1> DEFINE Less == OpToRel(<, Nat)
<1>1. IsWellFoundedOn(Less, Nat)
  BY NatLessThanWellFounded
<1> HIDE DEF Less
<1>2. PICK n \in S : \A m \in S : <<m, n>> \notin Less
  BY <1>1, WFMin
<1>3. \A m \in S : ~ (m < n)
  BY <1>2 DEF Less, OpToRel
<1> QED
  BY <1>3

\* One that is bounded has a greatest.
LEMMA GreatestExists ==
    ASSUME NEW S, S \subseteq Nat, S # {}, NEW b \in Nat, \A n \in S : n <= b
    PROVE  \E n \in S : \A m \in S : m <= n
<1> DEFINE D == {d \in Nat : \E n \in S : d = b - n}
<1>1. \A n \in S : b - n \in D
  <2> SUFFICES ASSUME NEW n \in S PROVE b - n \in D
    OBVIOUS
  <2>1. n \in Nat /\ n <= b
    OBVIOUS
  <2>2. b - n \in Nat
    BY <2>1
  <2> QED
    BY <2>2
<1>2. D \subseteq Nat /\ D # {}
  BY <1>1
<1> HIDE DEF D
<1>3. PICK d \in D : \A e \in D : d <= e
  BY <1>2, LeastExists
<1>4. PICK n \in S : d = b - n
  BY DEF D
<1>5. ASSUME NEW m \in S PROVE m <= n
  <2>1. b - n <= b - m
    BY <1>1, <1>3, <1>4
  <2>2. m \in Nat /\ n \in Nat
    OBVIOUS
  <2> QED
    BY <2>1, <2>2
<1> QED
  BY <1>5

-----------------------------------------------------------------------------

\* What the lookahead is before the first read.
Blank == " "

\* The position of the lookahead; 0 before the first read.
Here == IF last = Eof THEN Len(text) + 1 ELSE next - 1

\* The first position that no token and no step has settled yet.
Open  == where \in {"identifier", "number"}
Front == IF Open THEN at ELSE Here

\* The location of a position: how many lines begin before it or at it.
LinesUpTo(p)  == {i \in DOMAIN text : i <= p /\ text[i] \in NewLine}
LineStart(p)  == CHOOSE i \in LinesUpTo(p) \cup {0} : \A j \in LinesUpTo(p) : j <= i
LocationOf(p) == Location(Cardinality(LinesUpTo(p)) + 1, p - LineStart(p))

Lookahead ==
    /\ last = Eof => next = Len(text) + 1
    /\ last # Eof /\ next = 1 => last = Blank
    /\ last # Eof /\ next # 1 => last = text[next - 1]

Located == lexLoc = LocationOf(Here)

\* The run that is being read.
RunMatches == Open =>
    /\ run # <<>>
    /\ at + Len(run) = Here
    /\ curLoc = LocationOf(at)
    /\ \A i \in DOMAIN run :
        /\ run[i] = text[at + i - 1]
        /\ run[i] \in (IF where = "identifier" THEN Alnum ELSE Decimal)
        /\ ~InComment(at + i - 1)

\* A comment is left at the line end behind it, which is still the lookahead.
CommentsSeen ==
    /\ where = "comment" => InComment(Here - 1)
    /\ where \in {"idle", "start"} => last \in CommentEnd \/ ~InComment(Here - 1)

Owners(i) == {n \in DOMAIN tokens : i \in Positions(tokens[n])}
Settled ==
    /\ \A n \in DOMAIN tokens : tokens[n].at + Len(tokens[n].chars) <= Front
    /\ \A i \in 1..Front - 1 :
        IF text[i] \in Space \/ InComment(i) THEN Owners(i) = {}
        ELSE \E n \in Owners(i) : Owners(i) = {n}

\* A token has the characters of its positions.
CharsMatch == \A n \in DOMAIN tokens : \A i \in Positions(tokens[n]) :
    /\ i \in DOMAIN text
    /\ text[i] = tokens[n].chars[i - tokens[n].at + 1]

\* A token that is not the end begins with a character of its own, on its line.
TokensLocated == \A n \in DOMAIN tokens : tokens[n].kind # "eof" =>
    /\ tokens[n].at \in DOMAIN text
    /\ text[tokens[n].at] \notin NewLine
    /\ tokens[n].loc = LocationOf(tokens[n].at)

\* What is true of the tokens returned so far.
Past == Settled /\ CharsMatch /\ TokensLocated /\ TokensAreMaximal /\ HadErrorExact

LexInv ==
    /\ LexTypeOK
    /\ Lookahead
    /\ Located
    /\ RunMatches
    /\ CommentsSeen
    /\ Past

-----------------------------------------------------------------------------
LEMMA TextFacts ==
    ASSUME text \in Text
    PROVE  /\ text \in Seq(Char)
           /\ Len(text) \in 0..MaxLength
           /\ DOMAIN text = 1..Len(text)
<1>1. PICK n \in 0..MaxLength : text \in [1..n -> Char]
  BY DEF Text
<1>2. text \in Seq(Char) /\ Len(text) = n
  BY <1>1, LexerAssumption
<1> QED
  BY <1>1, <1>2

\* A line begins at the last line end before it, or in front of the text.
LEMMA LineStartFacts ==
    ASSUME text \in Text, NEW p \in Int
    PROVE  /\ LinesUpTo(p) \subseteq 1..Len(text)
           /\ LineStart(p) \in LinesUpTo(p) \cup {0}
           /\ \A j \in LinesUpTo(p) : j <= LineStart(p)
<1>1. LinesUpTo(p) \subseteq 1..Len(text) /\ Len(text) \in Nat
  BY TextFacts DEF LinesUpTo
<1> DEFINE S == LinesUpTo(p) \cup {0}
<1>2. S \subseteq Nat /\ 0 \in S /\ \A i \in S : i <= Len(text)
  BY <1>1
<1> HIDE DEF S
<1>3. \E i \in S : \A j \in S : j <= i
  BY <1>1, <1>2, GreatestExists
<1>4. \E i \in LinesUpTo(p) \cup {0} : \A j \in LinesUpTo(p) : j <= i
  BY <1>3 DEF S
<1> QED
  BY <1>1, <1>4 DEF LineStart

LEMMA LineStartUnique ==
    ASSUME text \in Text, NEW p \in Int, NEW x \in LinesUpTo(p) \cup {0},
           \A j \in LinesUpTo(p) : j <= x
    PROVE  LineStart(p) = x
<1>1. /\ LinesUpTo(p) \subseteq Nat
      /\ LineStart(p) \in LinesUpTo(p) \cup {0}
      /\ \A j \in LinesUpTo(p) : j <= LineStart(p)
  BY LineStartFacts, TextFacts
<1>2. LineStart(p) \in Nat /\ x \in Nat
  BY <1>1
<1>3. LineStart(p) <= x
  BY <1>1, <1>2
<1>4. x <= LineStart(p)
  BY <1>1, <1>2
<1> QED
  BY <1>2, <1>3, <1>4

LEMMA LocationType ==
    ASSUME text \in Text, NEW p \in 0..Len(text) + 1
    PROVE  /\ LocationOf(p) \in Loc
           /\ IsFiniteSet(LinesUpTo(p))
<1>1. Len(text) \in Nat /\ Len(text) <= MaxLength
  BY TextFacts, LexerAssumption
<1>2. IsFiniteSet(1..Len(text)) /\ Cardinality(1..Len(text)) = Len(text)
  <2>1. 1 \in Int /\ Len(text) \in Int
    BY <1>1
  <2>2. /\ IsFiniteSet(1..Len(text))
        /\ Cardinality(1..Len(text)) = IF 1 > Len(text) THEN 0 ELSE Len(text) - 1 + 1
    BY <2>1, FS_Interval, Zenon
  <2> QED
    BY <1>1, <2>2
<1>3. /\ LinesUpTo(p) \subseteq 1..Len(text)
      /\ LineStart(p) \in LinesUpTo(p) \cup {0}
  BY <1>1, LineStartFacts
<1>4. /\ IsFiniteSet(LinesUpTo(p))
      /\ Cardinality(LinesUpTo(p)) \in Nat
      /\ Cardinality(LinesUpTo(p)) <= Len(text)
  BY <1>2, <1>3, FS_Subset, FS_CardinalityType
<1>5. LineStart(p) \in 0..p
  BY <1>1, <1>3 DEF LinesUpTo
<1>6. p - LineStart(p) \in 0..MaxLength + 1
  BY <1>1, <1>5, LexerAssumption
<1>7. Cardinality(LinesUpTo(p)) + 1 \in 1..MaxLength + 1
  BY <1>1, <1>4, LexerAssumption
<1> QED
  BY <1>4, <1>6, <1>7 DEF LocationOf, Location, Loc

\* One character further: a line end begins a line, any other is the next on its line.
LEMMA NextLocation ==
    ASSUME text \in Text, NEW p \in 0..Len(text)
    PROVE  LocationOf(p + 1) =
             IF p + 1 <= Len(text) /\ text[p + 1] \in NewLine
             THEN Location(LocationOf(p).line + 1, 0)
             ELSE Location(LocationOf(p).line, LocationOf(p).col + 1)
<1>1. Len(text) \in Nat /\ DOMAIN text = 1..Len(text)
  BY TextFacts
<1>2. p \in Int /\ p + 1 \in Int /\ p \in 0..Len(text) + 1
  BY <1>1
<1>3. /\ LinesUpTo(p) \subseteq 1..Len(text)
      /\ LineStart(p) \in LinesUpTo(p) \cup {0}
      /\ \A j \in LinesUpTo(p) : j <= LineStart(p)
  BY <1>2, LineStartFacts
<1>4. IsFiniteSet(LinesUpTo(p)) /\ Cardinality(LinesUpTo(p)) \in Nat
  BY <1>2, LocationType, FS_CardinalityType
<1>5. CASE p + 1 <= Len(text) /\ text[p + 1] \in NewLine
  <2>1. LinesUpTo(p + 1) = LinesUpTo(p) \cup {p + 1} /\ p + 1 \notin LinesUpTo(p)
    BY <1>1, <1>5 DEF LinesUpTo
  <2>2. Cardinality(LinesUpTo(p + 1)) = Cardinality(LinesUpTo(p)) + 1
    BY <1>4, <2>1, FS_AddElement
  <2>3. \A j \in LinesUpTo(p + 1) : j <= p + 1
    BY <1>2 DEF LinesUpTo
  <2>4. LineStart(p + 1) = p + 1
    BY <1>2, <2>1, <2>3, LineStartUnique
  <2> QED
    BY <1>2, <1>5, <2>2, <2>4 DEF LocationOf, Location
<1>6. CASE ~ (p + 1 <= Len(text) /\ text[p + 1] \in NewLine)
  <2>1. LinesUpTo(p + 1) = LinesUpTo(p)
    BY <1>1, <1>6 DEF LinesUpTo
  <2>2. LineStart(p + 1) = LineStart(p)
    BY <1>2, <1>3, <2>1, LineStartUnique
  <2>3. LineStart(p) \in Int
    BY <1>3, <1>1
  <2>4. (p + 1) - LineStart(p) = (p - LineStart(p)) + 1
    BY <1>2, <2>3
  <2> QED
    BY <1>6, <2>1, <2>2, <2>4 DEF LocationOf, Location
<1> QED
  BY <1>5, <1>6

-----------------------------------------------------------------------------
\* Where the lookahead is.
LEMMA HereFacts ==
    ASSUME LexInv
    PROVE  /\ text \in Text
           /\ Len(text) \in Nat /\ Len(text) <= MaxLength /\ MaxLength \in Nat
           /\ DOMAIN text = 1..Len(text)
           /\ Here \in 0..Len(text) + 1
           /\ last # Eof => Here = next - 1 /\ Here <= Len(text)
           /\ last # Eof /\ Here # 0 => last = text[Here]
           /\ Here = 0 => last = Blank
           /\ Front \in Nat /\ Front <= Here
<1>1. /\ text \in Text
      /\ Len(text) \in Nat /\ Len(text) <= MaxLength /\ MaxLength \in Nat
      /\ DOMAIN text = 1..Len(text)
  BY TextFacts, LexerAssumption DEF LexInv, LexTypeOK
<1>2. next \in 1..Len(text) + 1
  BY DEF LexInv, LexTypeOK
<1>3. at \in Nat /\ (Open => at + Len(run) = Here /\ Len(run) \in Nat)
  BY <1>1 DEF LexInv, LexTypeOK, RunMatches
<1>4. last = Eof => Here = Len(text) + 1
  BY DEF Here
<1>5. last # Eof => Here = next - 1
  BY DEF Here
<1>6. Here \in 0..Len(text) + 1 /\ (last # Eof => Here <= Len(text))
  BY <1>1, <1>2, <1>4, <1>5
<1>7. last # Eof /\ Here # 0 => last = text[Here]
  BY <1>2, <1>5 DEF LexInv, Lookahead
<1>8. Here = 0 => last = Blank
  BY <1>1, <1>2, <1>4, <1>5 DEF LexInv, Lookahead
<1>9. CASE Open
  BY <1>1, <1>3, <1>5, <1>6, <1>7, <1>8, <1>9 DEF Front
<1>10. CASE ~Open
  BY <1>1, <1>5, <1>6, <1>7, <1>8, <1>10 DEF Front
<1> QED
  BY <1>9, <1>10

\* Where a line begins depends on the text alone.
LEMMA SameLocation ==
    ASSUME text' = text, Here' = Here + 1
    PROVE  LocationOf(Here)' = LocationOf(Here + 1)
<1>1. LinesUpTo(Here)' = LinesUpTo(Here + 1)
  BY DEF LinesUpTo
<1>2. LineStart(Here)' = LineStart(Here + 1)
  BY <1>1 DEF LineStart
<1> QED
  BY <1>1, <1>2 DEF LocationOf, Location

\* Lexer::advance() in front of the end: the lookahead moves on and its location with it.
LEMMA AdvanceFacts ==
    ASSUME LexInv, last # Eof, Advance
    PROVE  /\ text' = text
           /\ next' \in 1..Len(text) + 1
           /\ last' \in Char \cup {Eof}
           /\ lexLoc' \in Loc
           /\ Here' = Here + 1
           /\ Lookahead'
           /\ Located'
<1>1. /\ text \in Text
      /\ Len(text) \in Nat
      /\ DOMAIN text = 1..Len(text)
      /\ Here \in 0..Len(text)
      /\ Here = next - 1
      /\ next \in 1..Len(text) + 1
      /\ text \in Seq(Char)
  <2>1. next \in 1..Len(text) + 1 /\ text \in Text
    BY DEF LexInv, LexTypeOK
  <2>2. text \in Seq(Char)
    BY <2>1, TextFacts
  <2> QED
    BY <2>1, <2>2, HereFacts
<1>2. CASE next <= Len(text)
  <2>1. text' = text /\ last' = text[next] /\ next' = next + 1 /\ lexLoc' = Moved(text[next])
    BY <1>2 DEF Advance, Following, Moved
  <2>2. last' \in Char /\ last' # Eof
    BY <1>1, <1>2, <2>1, LexerAssumption
  <2>3. Here' = Here + 1
    BY <1>1, <2>1, <2>2 DEF Here
  <2>4. lexLoc' = LocationOf(Here + 1)
    BY <1>1, <1>2, <2>1, NextLocation DEF LexInv, Located, Moved
  <2>5. lexLoc' \in Loc /\ Located'
    BY <1>1, <2>1, <2>3, <2>4, LocationType, SameLocation DEF Located
  <2>6. Lookahead'
    <3>1. Len(text') = Len(text) /\ next' # 1 /\ text'[next' - 1] = text[next]
      BY <1>1, <2>1
    <3> QED
      BY <2>1, <2>2, <3>1 DEF Lookahead
  <2> QED
    BY <1>1, <1>2, <2>1, <2>2, <2>3, <2>5, <2>6
<1>3. CASE next = Len(text) + 1
  <2>1. text' = text /\ last' = Eof /\ next' = next /\ lexLoc' = Moved(Eof)
    BY <1>1, <1>3 DEF Advance, Following, Moved
  <2>2. Eof \notin NewLine
    BY LexerAssumption DEF Char, Space
  <2>3. Here' = Here + 1
    BY <1>1, <1>3, <2>1 DEF Here
  <2>4. lexLoc' = LocationOf(Here + 1)
    BY <1>1, <1>3, <2>1, <2>2, NextLocation DEF LexInv, Located, Moved
  <2>5. lexLoc' \in Loc /\ Located'
    BY <1>1, <2>1, <2>3, <2>4, LocationType, SameLocation DEF Located
  <2>6. Lookahead'
    BY <1>1, <1>3, <2>1 DEF Lookahead
  <2> QED
    BY <1>1, <1>3, <2>1, <2>3, <2>5, <2>6
<1> QED
  BY <1>1, <1>2, <1>3

LEMMA StayFacts ==
    ASSUME LexInv, Stay
    PROVE  /\ UNCHANGED <<text, next, last, lexLoc>>
           /\ Here' = Here
           /\ Lookahead'
           /\ Located'
BY DEF LexInv, Stay, Here, Lookahead, Located, LocationOf, LineStart, LinesUpTo

\* What is in a comment, and where a line begins, depends on the text alone.
LEMMA SameText ==
    ASSUME text' = text, NEW p
    PROVE  /\ InComment(p)' = InComment(p)
           /\ LocationOf(p)' = LocationOf(p)
BY DEF InComment, LocationOf, LineStart, LinesUpTo

\* A step that returns nothing may pass white space and comments, and no token.
LEMMA QuietStep ==
    ASSUME LexInv, text' = text, UNCHANGED <<tokens, hadError>>,
           NEW f \in Nat, Front' = f, Front <= f, f <= Len(text) + 1,
           \A i \in Front..f - 1 : i \in DOMAIN text => text[i] \in Space \/ InComment(i)
    PROVE  Past'
<1>1. /\ Len(text) \in Nat /\ DOMAIN text = 1..Len(text)
      /\ Front \in Nat
  BY HereFacts
<1>2. \A n \in DOMAIN tokens : tokens[n] \in Token
  BY DEF LexInv, LexTypeOK
<1>3. \A n \in DOMAIN tokens : tokens[n].at \in Nat /\ Len(tokens[n].chars) \in Nat
  BY <1>2 DEF Token
<1>4. \A i : Owners(i)' = Owners(i)
  BY DEF Owners, Positions
<1>5. Settled'
  <2>1. \A n \in DOMAIN tokens' : tokens'[n].at + Len(tokens'[n].chars) <= f
    BY <1>1, <1>3 DEF LexInv, Past, Settled
  <2>2. ASSUME NEW i \in 1..f - 1
        PROVE  IF text'[i] \in Space \/ InComment(i)' THEN Owners(i)' = {}
               ELSE \E n \in Owners(i)' : Owners(i)' = {n}
    <3>1. CASE i < Front
      <4>1. i \in 1..Front - 1
        BY <1>1, <3>1
      <4> QED
        BY <4>1, <1>4, SameText DEF LexInv, Past, Settled
    <3>2. CASE i >= Front
      <4>1. i \in Front..f - 1 /\ i \in DOMAIN text
        BY <1>1, <3>2
      <4>2. text[i] \in Space \/ InComment(i)
        BY <4>1
      <4>3. Owners(i) = {}
        BY <1>1, <1>3, <3>2 DEF LexInv, Past, Settled, Owners, Positions
      <4> QED
        BY <1>4, <4>2, <4>3, SameText
    <3> QED
      BY <1>1, <3>1, <3>2
  <2> QED
    BY <2>1, <2>2 DEF Settled
<1>6. CharsMatch'
  BY DEF LexInv, Past, CharsMatch, Positions
<1>7. TokensLocated'
  BY SameText DEF LexInv, Past, TokensLocated
<1>8. TokensAreMaximal'
  BY DEF LexInv, Past, TokensAreMaximal
<1>9. HadErrorExact'
  BY DEF LexInv, Past, HadErrorExact
<1> QED
  BY <1>5, <1>6, <1>7, <1>8, <1>9 DEF Past

\* What HadErrorExact says of a number, and TokensAreMaximal of the end of a token.
BadNumber(s) == Cardinality(Points(s)) > 1 \/ \A i \in DOMAIN s : s[i] \notin Digit
EndsAt(p, S) == p > Len(text) \/ text[p] \notin S

\* A step that returns the token of everything that was not settled.
LEMMA ReturnStep ==
    ASSUME LexInv, text' = text,
           NEW t \in Token, tokens' = Append(tokens, t),
           NEW f \in Nat, Front' = f, f = t.at + Len(t.chars), f <= Len(text) + 1,
           t.at = Front,
           \A i \in DOMAIN t.chars :
               /\ text[t.at + i - 1] = t.chars[i]
               /\ t.chars[i] \notin Space
               /\ ~InComment(t.at + i - 1),
           t.kind # "eof" => t.chars # <<>> /\ t.loc = LocationOf(t.at),
           t.kind \in {"keyword", "identifier"} => EndsAt(f, Letter \cup Digit),
           t.kind = "number" => EndsAt(f, Decimal),
           hadError' <=> hadError \/ (t.kind = "number" /\ BadNumber(t.chars))
    PROVE  Past'
<1>1. /\ Len(text) \in Nat /\ DOMAIN text = 1..Len(text)
      /\ Front \in Nat
  BY HereFacts
<1>2. tokens \in Seq(Token)
  BY DEF LexInv, LexTypeOK
<1>3. /\ Len(tokens) \in Nat
      /\ DOMAIN tokens = 1..Len(tokens)
      /\ DOMAIN tokens' = 1..Len(tokens) + 1
      /\ \A n \in DOMAIN tokens : tokens'[n] = tokens[n] /\ tokens[n] \in Token
      /\ tokens'[Len(tokens) + 1] = t
  BY <1>2, AppendProperties, LenProperties, ElementOfSeq
<1>4. \A n \in DOMAIN tokens : tokens[n].at \in Nat /\ Len(tokens[n].chars) \in Nat
  BY <1>3 DEF Token
<1>5. /\ t.at \in Nat \ {0}
      /\ Len(t.chars) \in Nat
      /\ DOMAIN t.chars = 1..Len(t.chars)
      /\ t.chars # <<>> => Len(t.chars) # 0
  <2>1. t.chars \in Seq(Char) /\ t.at \in 1..MaxLength + 1
    BY DEF Token
  <2> QED
    BY <2>1, EmptySeq, LenProperties, LexerAssumption
<1>6. \A i \in Positions(t) : /\ i \in DOMAIN text
                              /\ i - t.at + 1 \in DOMAIN t.chars
                              /\ text[i] = t.chars[i - t.at + 1]
                              /\ text[i] \notin Space
                              /\ ~InComment(i)
  <2> SUFFICES ASSUME NEW i \in Positions(t)
               PROVE  /\ i \in DOMAIN text
                      /\ i - t.at + 1 \in DOMAIN t.chars
                      /\ text[i] = t.chars[i - t.at + 1]
                      /\ text[i] \notin Space
                      /\ ~InComment(i)
    OBVIOUS
  <2>1. PICK n, a, m : n = Len(t.chars) /\ a = t.at /\ m = Len(text)
    OBVIOUS
  <2>2. n \in Nat /\ a \in Nat \ {0} /\ m \in Nat /\ a + n <= m + 1 /\ i \in a..a + n - 1
    BY <1>1, <1>5, <2>1 DEF Positions
  <2>3. i \in 1..m /\ i - a + 1 \in 1..n /\ a + (i - a + 1) - 1 = i
    BY <2>2
  <2>4. i \in DOMAIN text /\ i - t.at + 1 \in DOMAIN t.chars /\ t.at + (i - t.at + 1) - 1 = i
    BY <1>1, <1>5, <2>1, <2>3
  <2> QED
    BY <2>4
<1>7. \A n \in DOMAIN tokens' :
        Positions(tokens'[n]) = IF n = Len(tokens) + 1 THEN Positions(t) ELSE Positions(tokens[n])
  BY <1>3
<1>8. \A n \in DOMAIN tokens : \A i \in Positions(tokens[n]) : i < Front
  BY <1>1, <1>4 DEF LexInv, Past, Settled, Positions
<1>9. Settled'
  <2>1. \A n \in DOMAIN tokens' : tokens'[n].at + Len(tokens'[n].chars) <= f
    <3>1. \A n \in DOMAIN tokens : tokens[n].at + Len(tokens[n].chars) <= f
      BY <1>1, <1>4, <1>5 DEF LexInv, Past, Settled
    <3> QED
      BY <1>3, <1>5, <3>1
  <2>2. ASSUME NEW i \in 1..f - 1
        PROVE  IF text'[i] \in Space \/ InComment(i)' THEN Owners(i)' = {}
               ELSE \E n \in Owners(i)' : Owners(i)' = {n}
    <3>1. CASE i < Front
      <4>1. i \in 1..Front - 1 /\ i \notin Positions(t)
        BY <1>1, <1>5, <3>1 DEF Positions
      <4>2. Owners(i)' = Owners(i)
        BY <1>3, <1>7, <4>1 DEF Owners
      <4> QED
        BY <4>1, <4>2, SameText DEF LexInv, Past, Settled
    <3>2. CASE i >= Front
      <4>1. i \in Positions(t)
        BY <1>1, <1>5, <3>2 DEF Positions
      <4>2. \A n \in DOMAIN tokens : i \notin Positions(tokens[n])
        BY <1>1, <1>8, <3>2
      <4>3. Owners(i)' = {Len(tokens) + 1}
        BY <1>3, <1>7, <4>1, <4>2 DEF Owners
      <4> QED
        BY <1>6, <4>1, <4>3, SameText
    <3> QED
      BY <1>1, <3>1, <3>2
  <2> QED
    BY <2>1, <2>2 DEF Settled
<1>10. CharsMatch'
  BY <1>3, <1>6, <1>7 DEF LexInv, Past, CharsMatch
<1>11. TokensLocated'
  <2>1. t.kind # "eof" => t.at \in Positions(t)
    BY <1>5 DEF Positions
  <2>2. t.kind # "eof" => /\ t.at \in DOMAIN text
                          /\ text[t.at] \notin NewLine
                          /\ t.loc = LocationOf(t.at)
    BY <1>6, <2>1 DEF Space
  <2> QED
    BY <1>3, <2>2, SameText DEF LexInv, Past, TokensLocated
<1>12. TokensAreMaximal'
  BY <1>3 DEF LexInv, Past, TokensAreMaximal, EndsAt
<1>13. HadErrorExact'
  <2>1. hadError <=> \E n \in DOMAIN tokens : tokens[n].kind = "number" /\ BadNumber(tokens[n].chars)
    BY DEF LexInv, Past, HadErrorExact, BadNumber
  <2>2. hadError' <=> \E n \in DOMAIN tokens' : tokens'[n].kind = "number" /\ BadNumber(tokens'[n].chars)
    BY <1>3, <2>1
  <2> QED
    BY <2>2 DEF HadErrorExact, BadNumber, Points
<1> QED
  BY <1>9, <1>10, <1>11, <1>12, <1>13 DEF Past

\* strtod consumes a number to its end exactly if it has one point at most, and a digit.
LEMMA InvalidMeansBad ==
    ASSUME NEW s \in Seq(Char), s # <<>>
    PROVE  Invalid(s) <=> BadNumber(s)
<1> DEFINE ends == {n \in 0..Len(s) : \A i, j \in Points(s) : i <= n /\ j <= n => i = j}
           longest == CHOOSE n \in ends : \A m \in ends : m <= n
           parsed == IF \E i \in 1..longest : s[i] \in Digit THEN longest ELSE 0
<1>1. Len(s) \in Nat \ {0} /\ DOMAIN s = 1..Len(s) /\ Points(s) \subseteq 1..Len(s)
  BY EmptySeq, LenProperties DEF Points
<1>2. 0 \in ends /\ ends \subseteq 0..Len(s)
  BY <1>1
<1>3. longest \in ends /\ \A m \in ends : m <= longest
  <2>1. ends \subseteq Nat /\ ends # {} /\ \A n \in ends : n <= Len(s)
    BY <1>1, <1>2
  <2> HIDE DEF ends
  <2>2. \E n \in ends : \A m \in ends : m <= n
    BY <1>1, <2>1, GreatestExists
  <2> QED
    BY <2>2
<1>4. longest \in 0..Len(s)
  BY <1>2, <1>3
<1>5. Strtod(s) = parsed
  BY DEF Strtod
<1>6. Len(s) \in ends <=> \A i, j \in Points(s) : i = j
  BY <1>1
<1>7. longest = Len(s) <=> Len(s) \in ends
  <2> HIDE DEF longest, ends
  <2>1. longest = Len(s) => Len(s) \in ends
    BY <1>3
  <2>2. Len(s) \in ends => Len(s) <= longest
    BY <1>3
  <2>3. \A l \in Nat : \A m \in 0..l : l <= m => m = l
    OBVIOUS
  <2> QED
    BY <1>1, <1>4, <2>1, <2>2, <2>3
<1>8. (\A i, j \in Points(s) : i = j) <=> ~(Cardinality(Points(s)) > 1)
  <2>1. IsFiniteSet(Points(s)) /\ Cardinality(Points(s)) \in Nat
    <3>1. 1 \in Int /\ Len(s) \in Int
      BY <1>1
    <3>2. IsFiniteSet(1..Len(s))
      BY <3>1, FS_Interval, Zenon
    <3> QED
      BY <1>1, <3>2, FS_Subset, FS_CardinalityType
  <2>2. CASE Points(s) = {}
    BY <2>2, FS_EmptySet
  <2>3. CASE Points(s) # {}
    <3>1. PICK i \in Points(s) : TRUE
      BY <2>3
    <3>2. (\A k, j \in Points(s) : k = j) <=> Points(s) = {i}
      BY <3>1
    <3>3. Cardinality(Points(s)) = 1 <=> \E x : Points(s) = {x}
      BY <2>1, FS_Singleton
    <3>4. Points(s) = {i} <=> \E x : Points(s) = {x}
      BY <3>1
    <3>5. Cardinality(Points(s)) # 0
      BY <2>1, <2>3, FS_EmptySet
    <3>6. (\A k, j \in Points(s) : k = j) <=> Cardinality(Points(s)) = 1
      BY <3>2, <3>3, <3>4
    <3>7. Cardinality(Points(s)) = 1 <=> ~(Cardinality(Points(s)) > 1)
      BY <2>1, <3>5
    <3> QED
      BY <3>6, <3>7
  <2> QED
    BY <2>2, <2>3
<1> HIDE DEF ends, longest
<1>9. parsed # Len(s) <=> BadNumber(s)
  <2>1. CASE longest = Len(s)
    BY <1>1, <1>6, <1>7, <1>8, <2>1 DEF BadNumber
  <2>2. CASE longest # Len(s)
    BY <1>1, <1>6, <1>7, <1>8, <2>2 DEF BadNumber
  <2> QED
    BY <2>1, <2>2
<1> QED
  BY <1>5, <1>9 DEF Invalid

-----------------------------------------------------------------------------
LEMMA InitLexer == Init => LexInv
<1> SUFFICES ASSUME Init PROVE LexInv
  OBVIOUS
<1>1. /\ text \in Text /\ next = 1 /\ last = Blank /\ where = "idle" /\ run = <<>> /\ at = 1
      /\ lexLoc = Location(1, 0) /\ curLoc = Location(1, 0)
      /\ hadError = FALSE /\ tokens = <<>>
  BY DEF Init, Blank
<1>2. Len(text) \in Nat /\ Len(text) <= MaxLength /\ MaxLength \in Nat
  BY <1>1, TextFacts, LexerAssumption
<1>3. Blank \in Char /\ Blank # Eof
  BY LexerAssumption DEF Char, Space, Blank
<1>4. Here = 0 /\ Front = 0
  BY <1>1, <1>3 DEF Here, Front, Open
<1>5. LexTypeOK
  <2>1. Location(1, 0) \in Loc
    BY <1>2 DEF Location, Loc
  <2>2. next \in 1..Len(text) + 1 /\ at \in 1..MaxLength + 1
    BY <1>1, <1>2
  <2>3. run \in Seq(Char) /\ tokens \in Seq(Token)
    BY <1>1
  <2> QED
    BY <1>1, <1>3, <2>1, <2>2, <2>3 DEF LexTypeOK
<1>6. Lookahead
  BY <1>1, <1>3 DEF Lookahead
<1>7. Located
  <2>1. LinesUpTo(0) = {}
    BY <1>1, TextFacts DEF LinesUpTo
  <2>2. LineStart(0) = 0
    BY <1>1, <2>1, LineStartUnique
  <2>3. Cardinality(LinesUpTo(0)) = 0
    BY <2>1, FS_EmptySet
  <2> QED
    BY <1>1, <1>4, <2>2, <2>3 DEF Located, LocationOf, Location
<1>8. RunMatches /\ CommentsSeen
  BY <1>1, <1>4 DEF RunMatches, CommentsSeen, Open, InComment
<1>9. Past
  <2>1. DOMAIN tokens = {}
    BY <1>1
  <2> QED
    BY <1>1, <1>4, <2>1
       DEF Past, Settled, CharsMatch, TokensLocated, TokensAreMaximal, HadErrorExact
<1> QED
  BY <1>5, <1>6, <1>7, <1>8, <1>9 DEF LexInv

LEMMA CallStep == ASSUME LexInv, Call PROVE LexInv'
<1>1. /\ where = "idle" /\ where' = "start"
      /\ UNCHANGED <<curLoc, at, run, hadError, tokens, text, next, last, lexLoc>>
      /\ Stay
  BY DEF Call, Stay
<1>2. Here' = Here /\ Lookahead' /\ Located'
  BY <1>1, StayFacts
<1>3. Front = Here /\ Front' = Here
  BY <1>1, <1>2 DEF Front, Open
<1>4. Past'
  BY <1>1, <1>3, HereFacts, QuietStep
<1>5. LexTypeOK'
  BY <1>1 DEF LexInv, LexTypeOK
<1>6. RunMatches' /\ CommentsSeen'
  BY <1>1, <1>2, SameText DEF LexInv, RunMatches, CommentsSeen, Open, InComment
<1> QED
  BY <1>2, <1>4, <1>5, <1>6 DEF LexInv

\* A character that is dropped: white space, or one of a comment.
LEMMA SkippedFacts ==
    ASSUME LexInv, last # Eof, Advance, UNCHANGED <<at, run, hadError, tokens>>,
           ~Open, where' \in {"start", "comment"}, curLoc' \in Loc,
           Here = 0 \/ last \in Space \/ InComment(Here),
           where' = "comment" => InComment(Here),
           where' = "start" => last \in NewLine \/ ~InComment(Here)
    PROVE  LexInv'
<1>1. /\ text' = text /\ next' \in 1..Len(text) + 1 /\ last' \in Char \cup {Eof}
      /\ lexLoc' \in Loc /\ Here' = Here + 1 /\ Lookahead' /\ Located'
  BY AdvanceFacts
<1>2. /\ Len(text) \in Nat /\ Here \in 0..Len(text)
      /\ Here # 0 => last = text[Here]
      /\ ~Open' /\ Front = Here /\ Front' = Here + 1
  BY <1>1, HereFacts DEF Front, Open
<1>3. Past'
  <2>1. \A i \in Here..(Here + 1) - 1 : i \in DOMAIN text => text[i] \in Space \/ InComment(i)
    BY <1>2, HereFacts
  <2>2. Here + 1 \in Nat /\ Here <= Here + 1 /\ Here + 1 <= Len(text) + 1
    BY <1>2
  <2> QED
    BY <1>1, <1>2, <2>1, <2>2, QuietStep
<1>4. LexTypeOK'
  BY <1>1 DEF LexInv, LexTypeOK
<1>5. RunMatches'
  BY <1>2 DEF RunMatches
<1>6. CommentsSeen'
  <2>1. Here' - 1 = Here
    BY <1>1, <1>2
  <2>2. InComment(Here - 1)' <=> InComment(Here)
    BY <1>1, <2>1 DEF InComment
  <2>3. InComment(Here) => last \notin NewLine
    BY <1>2 DEF InComment
  <2>4. where' = "start" => ~InComment(Here)
    BY <2>3
  <2> QED
    BY <2>2, <2>4 DEF CommentsSeen
<1> QED
  BY <1>1, <1>3, <1>4, <1>5, <1>6 DEF LexInv

\* The kinds of characters exclude each other.
LEMMA Kinds ==
    /\ \A c \in Space : c # Eof /\ c \notin Alnum /\ c \notin Decimal /\ c # "#" /\ c \in Char
    /\ \A c \in Alnum \cup Decimal \cup Operator :
         c # Eof /\ c \notin Space /\ c # "#" /\ c \in Char
    /\ \A c \in NewLine : c \in Space
    /\ Eof # "#" /\ "#" \notin Space
BY LexerAssumption DEF Char, Space, NewLine, Alnum, Decimal, Eof

\* A comment goes on to the end of its line.
LEMMA CommentGoesOn ==
    ASSUME LexInv, Here # 0, last # Eof
    PROVE  /\ last = "#" => InComment(Here)
           /\ last \notin NewLine /\ InComment(Here - 1) => InComment(Here)
           /\ last \notin NewLine /\ last # "#" /\ ~InComment(Here - 1) => ~InComment(Here)
           /\ last \in NewLine => ~InComment(Here)
<1>1. Here \in Nat \ {0} /\ last = text[Here]
  BY HereFacts
<1>2. "#" \notin NewLine
  BY Kinds
<1>3. ASSUME last = "#" PROVE InComment(Here)
  <2>1. Here \in 1..Here /\ \A k \in Here..Here : k = Here
    BY <1>1
  <2>2. text[Here] = "#" /\ text[Here] \notin NewLine
    BY <1>1, <1>2, <1>3
  <2> QED
    BY <2>1, <2>2 DEF InComment
<1>4. ASSUME last \notin NewLine, InComment(Here - 1) PROVE InComment(Here)
  <2>1. PICK j \in 1..Here - 1 : text[j] = "#" /\ \A k \in j..Here - 1 : text[k] \notin NewLine
    BY <1>4 DEF InComment
  <2>2. j \in 1..Here /\ \A k \in j..Here : k \in j..Here - 1 \/ k = Here
    BY <1>1
  <2> QED
    BY <1>1, <1>4, <2>1, <2>2 DEF InComment
<1>5. ASSUME last \notin NewLine, last # "#", InComment(Here) PROVE InComment(Here - 1)
  <2>1. PICK j \in 1..Here : text[j] = "#" /\ \A k \in j..Here : text[k] \notin NewLine
    BY <1>5 DEF InComment
  <2>2. j # Here
    BY <1>1, <1>5, <2>1
  <2>3. j \in 1..Here - 1 /\ \A k \in j..Here - 1 : k \in j..Here
    BY <1>1, <2>2
  <2> QED
    BY <2>1, <2>3 DEF InComment
<1>6. last \in NewLine => ~InComment(Here)
  BY <1>1 DEF InComment
<1> QED
  BY <1>3, <1>4, <1>5, <1>6

LEMMA SkipSpaceStep == ASSUME LexInv, SkipSpace PROVE LexInv'
<1>1. /\ where = "start" /\ where' = "start" /\ last \in Space /\ Advance
      /\ UNCHANGED <<curLoc, at, run, hadError, tokens>>
  BY DEF SkipSpace
<1>2. last # Eof /\ last # "#" /\ ~Open /\ curLoc' \in Loc
  BY <1>1, Kinds DEF Open, LexInv, LexTypeOK
<1>3. last \in NewLine \/ ~InComment(Here)
  <2>1. CASE Here = 0
    BY <2>1 DEF InComment
  <2>2. CASE Here # 0
    BY <1>1, <1>2, <2>2, CommentGoesOn DEF LexInv, CommentsSeen, CommentEnd
  <2> QED
    BY <2>1, <2>2
<1> QED
  BY <1>1, <1>2, <1>3, SkippedFacts

LEMMA BeginCommentStep == ASSUME LexInv, BeginComment PROVE LexInv'
<1>1. /\ where = "start" /\ where' = "comment" /\ last = "#" /\ Advance
      /\ curLoc' = lexLoc
      /\ UNCHANGED <<at, run, hadError, tokens>>
  BY DEF BeginComment
<1>2. last # Eof /\ ~Open /\ curLoc' \in Loc
  BY <1>1, Kinds DEF Open, LexInv, LexTypeOK
<1>3. Here # 0
  BY <1>1, Kinds, HereFacts DEF Blank, Space
<1>4. InComment(Here)
  BY <1>1, <1>2, <1>3, CommentGoesOn
<1> QED
  BY <1>1, <1>2, <1>4, SkippedFacts

LEMMA MoreCommentStep == ASSUME LexInv, MoreComment PROVE LexInv'
<1>1. /\ where = "comment" /\ where' = "comment" /\ last \notin CommentEnd /\ Advance
      /\ UNCHANGED <<curLoc, at, run, hadError, tokens>>
  BY DEF MoreComment
<1>2. last # Eof /\ last \notin NewLine /\ ~Open /\ curLoc' \in Loc /\ InComment(Here - 1)
  BY <1>1 DEF Open, LexInv, LexTypeOK, CommentEnd, CommentsSeen
<1>3. Here # 0
  BY <1>2 DEF InComment
<1>4. InComment(Here)
  BY <1>2, <1>3, CommentGoesOn
<1> QED
  BY <1>1, <1>2, <1>4, SkippedFacts

LEMMA EndCommentStep == ASSUME LexInv, EndComment PROVE LexInv'
<1>1. /\ where = "comment" /\ where' = "start" /\ last \in NewLine /\ last' = last
      /\ UNCHANGED <<curLoc, at, run, hadError, tokens, text, next, lexLoc>>
      /\ Stay
  BY DEF EndComment, Stay
<1>2. Here' = Here /\ Lookahead' /\ Located'
  BY <1>1, StayFacts
<1>3. Front = Here /\ Front' = Here
  BY <1>1, <1>2 DEF Front, Open
<1>4. Past'
  BY <1>1, <1>3, HereFacts, QuietStep
<1>5. LexTypeOK'
  BY <1>1 DEF LexInv, LexTypeOK
<1>6. RunMatches' /\ CommentsSeen'
  BY <1>1 DEF RunMatches, CommentsSeen, Open, CommentEnd
<1> QED
  BY <1>2, <1>4, <1>5, <1>6 DEF LexInv

\* The first character of a word or a number is the first position not settled yet.
LEMMA BeginStep ==
    ASSUME LexInv, NEW w \in {"identifier", "number"}, Begin(w),
           last \in IF w = "identifier" THEN Alnum ELSE Decimal
    PROVE  LexInv'
<1>1. /\ where = "start" /\ where' = w /\ run' = <<last>> /\ Advance
      /\ curLoc' = lexLoc /\ at' = next - 1
      /\ UNCHANGED <<hadError, tokens>>
  BY DEF Begin, StartToken
<1>2. last # Eof /\ last \notin Space /\ last # "#" /\ last \in Char
  BY Kinds
<1>3. /\ text' = text /\ next' \in 1..Len(text) + 1 /\ last' \in Char \cup {Eof}
      /\ lexLoc' \in Loc /\ Here' = Here + 1 /\ Lookahead' /\ Located'
  BY <1>1, <1>2, AdvanceFacts
<1>4. Here # 0
  BY <1>2, HereFacts DEF Blank, Space
<1>5. /\ Here \in 1..Len(text) /\ last = text[Here] /\ at' = Here
      /\ Len(text) \in Nat /\ Len(text) <= MaxLength /\ MaxLength \in Nat
  <2>1. /\ Here = next - 1 /\ Here <= Len(text)
        /\ Here \in 0..Len(text) + 1 /\ Len(text) \in Nat
    BY <1>2, HereFacts, Zenon
  <2>2. Here \in 1..Len(text)
    <3>1. \A n \in Nat : \A h \in 0..n + 1 : h # 0 /\ h <= n => h \in 1..n
      OBVIOUS
    <3> QED
      BY <1>4, <2>1, <3>1, Zenon
  <2>3. last = text[Here] /\ Len(text) <= MaxLength /\ MaxLength \in Nat
    BY <1>2, <1>4, HereFacts
  <2> QED
    BY <1>1, <2>1, <2>2, <2>3
<1>6. Front = Here /\ Front' = Here
  BY <1>1, <1>5 DEF Front, Open
<1>7. Past'
  BY <1>1, <1>3, <1>5, <1>6, QuietStep
<1>8. LexTypeOK'
  <2>1. at' \in 1..MaxLength + 1 /\ run' \in Seq(Char)
    BY <1>1, <1>2, <1>5
  <2> QED
    BY <1>1, <1>3, <2>1 DEF LexInv, LexTypeOK
<1>9. RunMatches'
  <2>1. run' # <<>> /\ Len(run') = 1 /\ DOMAIN run' = {1} /\ run'[1] = last
    BY <1>1
  <2>2. at' + Len(run') = Here'
    BY <1>3, <1>5, <2>1
  <2>3. curLoc' = LocationOf(at)'
    <3>1. LinesUpTo(at)' = LinesUpTo(Here)
      BY <1>3, <1>5 DEF LinesUpTo
    <3>2. LineStart(at)' = LineStart(Here)
      BY <3>1 DEF LineStart
    <3>3. LocationOf(at)' = LocationOf(Here)
      BY <1>5, <3>1, <3>2 DEF LocationOf, Location
    <3> QED
      BY <1>1, <3>3 DEF LexInv, Located
  <2>4. ~InComment(Here)
    BY <1>1, <1>2, <1>4, Kinds, CommentGoesOn DEF LexInv, CommentsSeen, CommentEnd
  <2>5. \A i \in DOMAIN run' : i = 1 /\ at' + i - 1 = Here
    BY <1>5, <2>1
  <2>6. \A i \in DOMAIN run' :
          /\ run'[i] = text'[at' + i - 1]
          /\ run'[i] \in (IF where' = "identifier" THEN Alnum ELSE Decimal)
          /\ ~InComment(at + i - 1)'
    BY <1>1, <1>3, <1>5, <2>1, <2>4, <2>5 DEF InComment
  <2> QED
    BY <2>1, <2>2, <2>3, <2>6 DEF RunMatches
<1>10. CommentsSeen'
  BY <1>1 DEF CommentsSeen
<1> QED
  BY <1>3, <1>7, <1>8, <1>9, <1>10 DEF LexInv

LEMMA MoreStep ==
    ASSUME LexInv, NEW w \in {"identifier", "number"},
           More(w, IF w = "identifier" THEN Alnum ELSE Decimal)
    PROVE  LexInv'
<1>1. /\ where = w /\ where' = w /\ run' = Append(run, last) /\ Advance
      /\ last \in IF w = "identifier" THEN Alnum ELSE Decimal
      /\ UNCHANGED <<curLoc, at, hadError, tokens>>
  BY DEF More
<1>2. last # Eof /\ last \notin Space /\ last # "#" /\ last \in Char
  BY <1>1, Kinds
<1>3. /\ text' = text /\ next' \in 1..Len(text) + 1 /\ last' \in Char \cup {Eof}
      /\ lexLoc' \in Loc /\ Here' = Here + 1 /\ Lookahead' /\ Located'
  BY <1>1, <1>2, AdvanceFacts
<1>4. /\ run \in Seq(Char) /\ at \in 1..MaxLength + 1 /\ MaxLength \in Nat /\ at \in Nat \ {0}
      /\ run # <<>> /\ at + Len(run) = Here /\ curLoc = LocationOf(at)
      /\ \A i \in DOMAIN run :
            /\ run[i] = text[at + i - 1]
            /\ run[i] \in (IF where = "identifier" THEN Alnum ELSE Decimal)
            /\ ~InComment(at + i - 1)
  BY <1>1, LexerAssumption DEF LexInv, LexTypeOK, RunMatches, Open
<1>5. /\ Len(run) \in Nat \ {0} /\ DOMAIN run = 1..Len(run)
      /\ run' \in Seq(Char) /\ Len(run') = Len(run) + 1 /\ DOMAIN run' = 1..Len(run) + 1
      /\ run' # <<>>
      /\ \A i \in DOMAIN run : run'[i] = run[i]
      /\ run'[Len(run) + 1] = last
  BY <1>1, <1>2, <1>4, EmptySeq, LenProperties, AppendProperties
<1>6. /\ Here \in 1..Len(text) /\ last = text[Here]
      /\ Len(text) \in Nat
  BY <1>2, <1>4, <1>5, HereFacts
<1>7. Front = at /\ Front' = at
  BY <1>1 DEF Front, Open
<1>8. Past'
  <2>1. at <= Len(text) + 1
    BY <1>4, <1>5, <1>6
  <2> QED
    BY <1>1, <1>3, <1>4, <1>7, <2>1, QuietStep
<1>9. LexTypeOK'
  BY <1>1, <1>3, <1>5 DEF LexInv, LexTypeOK
<1>10. RunMatches'
  <2>1. at' + Len(run') = Here'
    <3>1. at + (Len(run) + 1) = Here + 1
      BY <1>4, <1>5
    <3> QED
      BY <1>1, <1>3, <1>5, <3>1
  <2>2. ~InComment(Here - 1)
    <3>1. Len(run) \in DOMAIN run /\ at + Len(run) - 1 = Here - 1
      BY <1>4, <1>5
    <3> QED
      BY <1>4, <3>1
  <2>3. ~InComment(Here)
    BY <1>2, <1>6, <2>2, Kinds, CommentGoesOn
  <2>4. ASSUME NEW i \in DOMAIN run'
        PROVE  /\ run'[i] = text[at + i - 1]
               /\ run'[i] \in (IF where = "identifier" THEN Alnum ELSE Decimal)
               /\ ~InComment(at + i - 1)
    <3>1. CASE i \in DOMAIN run
      BY <1>4, <1>5, <3>1
    <3>2. CASE i = Len(run) + 1
      <4>1. at + i - 1 = Here
        BY <1>4, <1>5, <3>2
      <4> QED
        BY <1>1, <1>5, <1>6, <2>3, <3>2, <4>1
    <3> QED
      BY <1>5, <3>1, <3>2
  <2>5. curLoc' = LocationOf(at)'
    BY <1>1, <1>3, <1>4 DEF LocationOf, LineStart, LinesUpTo
  <2>6. \A i \in DOMAIN run' : InComment(at + i - 1)' <=> InComment(at + i - 1)
    BY <1>1, <1>3 DEF InComment
  <2> QED
    BY <1>1, <1>3, <1>5, <2>1, <2>4, <2>5, <2>6 DEF RunMatches
<1>11. CommentsSeen'
  BY <1>1 DEF CommentsSeen
<1> QED
  BY <1>3, <1>8, <1>9, <1>10, <1>11 DEF LexInv

LEMMA BeginIdentifierStep == ASSUME LexInv, BeginIdentifier PROVE LexInv'
<1>1. Begin("identifier") /\ last \in Alnum
  BY DEF BeginIdentifier, Alnum
<1>2. "identifier" \in {"identifier", "number"}
  OBVIOUS
<1> QED
  BY <1>1, <1>2, BeginStep

LEMMA BeginNumberStep == ASSUME LexInv, BeginNumber PROVE LexInv'
<1>1. Begin("number") /\ last \in Decimal
  BY DEF BeginNumber
<1>2. "number" \in {"identifier", "number"} /\ "number" # "identifier"
  OBVIOUS
<1> QED
  BY <1>1, <1>2, BeginStep

LEMMA MoreIdentifierStep == ASSUME LexInv, MoreIdentifier PROVE LexInv'
<1>1. "identifier" \in {"identifier", "number"}
  OBVIOUS
<1> QED
  BY <1>1, MoreStep DEF MoreIdentifier

LEMMA MoreNumberStep == ASSUME LexInv, MoreNumber PROVE LexInv'
<1>1. "number" \in {"identifier", "number"} /\ "number" # "identifier"
  OBVIOUS
<1> QED
  BY <1>1, MoreStep DEF MoreNumber

\* The end of a word or a number: its token is the run, up to the lookahead.
LEMMA EndRunStep ==
    ASSUME LexInv, NEW w \in {"identifier", "number"}, where = w,
           last \notin IF w = "identifier" THEN Alnum ELSE Decimal,
           UNCHANGED <<curLoc, at, run>>, Stay,
           NEW k \in {"keyword", "identifier", "number"}, Return(k, run),
           w = "identifier" <=> k # "number",
           hadError' = (hadError \/ (k = "number" /\ Invalid(run)))
    PROVE  LexInv'
<1> DEFINE t == [kind |-> k, chars |-> run, at |-> at, loc |-> curLoc]
<1>1. where' = "idle" /\ tokens' = Append(tokens, t)
  BY DEF Return
<1>2. /\ UNCHANGED <<text, next, last, lexLoc, curLoc, at, run>>
      /\ Here' = Here /\ Lookahead' /\ Located'
  BY StayFacts
<1>3. /\ run \in Seq(Char) /\ at \in 1..MaxLength + 1 /\ at \in Nat /\ curLoc \in Loc
      /\ run # <<>> /\ at + Len(run) = Here /\ curLoc = LocationOf(at)
      /\ \A i \in DOMAIN run :
            /\ run[i] = text[at + i - 1]
            /\ run[i] \in (IF w = "identifier" THEN Alnum ELSE Decimal)
            /\ ~InComment(at + i - 1)
  BY LexerAssumption DEF LexInv, LexTypeOK, RunMatches, Open
<1>4. Len(run) \in Nat \ {0} /\ DOMAIN run = 1..Len(run)
  BY <1>3, EmptySeq, LenProperties
<1>5. Front = at /\ Front' = Here
  BY <1>1, <1>2 DEF Front, Open
<1>6. t \in Token
  BY <1>3 DEF Token, Kind
<1>7. \A i \in DOMAIN run : run[i] \notin Space
  BY <1>3, Kinds
<1>8. ~InComment(Here - 1)
  <2>1. Len(run) \in DOMAIN run /\ at + Len(run) - 1 = Here - 1
    BY <1>3, <1>4
  <2> QED
    BY <1>3, <2>1
<1>9. EndsAt(Here, IF w = "identifier" THEN Alnum ELSE Decimal)
  <2>1. CASE last = Eof
    <3>1. Here = Len(text) + 1 /\ Len(text) \in Nat
      BY <2>1, HereFacts DEF Here
    <3>2. Here > Len(text)
      BY <3>1
    <3> QED
      BY <3>2 DEF EndsAt
  <2>2. CASE last # Eof
    <3>1. at \in 1..MaxLength + 1 /\ Here # 0
      BY <1>3, <1>4, LexerAssumption
    <3>2. last = text[Here]
      BY <2>2, <3>1, HereFacts, Zenon
    <3> QED
      BY <3>2 DEF EndsAt
  <2> QED
    BY <2>1, <2>2
<1>10. hadError' <=> hadError \/ (k = "number" /\ BadNumber(run))
  BY <1>3, InvalidMeansBad
<1>11. Past'
  <2>1. /\ t.kind = k /\ t.chars = run /\ t.at = at /\ t.loc = curLoc
    OBVIOUS
  <2>2. k # "eof"
    OBVIOUS
  <2>3. k \in {"keyword", "identifier"} => EndsAt(Here, Letter \cup Digit)
    BY <1>9 DEF Alnum
  <2>4. k = "number" => EndsAt(Here, Decimal)
    BY <1>9
  <2>5. Here \in Nat /\ Here <= Len(text) + 1
    <3>1. Here \in 0..Len(text) + 1 /\ Len(text) \in Nat
      BY HereFacts, Zenon
    <3> QED
      BY <3>1
  <2> HIDE DEF t
  <2> QED
    BY <1>1, <1>2, <1>3, <1>5, <1>6, <1>7, <1>10, <2>1, <2>2, <2>3, <2>4, <2>5, ReturnStep
<1>12. LexTypeOK'
  BY <1>1, <1>2, <1>6, AppendProperties DEF LexInv, LexTypeOK
<1>13. RunMatches' /\ CommentsSeen'
  BY <1>1, <1>2, <1>8, SameText DEF RunMatches, CommentsSeen, Open, InComment
<1> QED
  BY <1>2, <1>11, <1>12, <1>13 DEF LexInv

LEMMA EndIdentifierStep == ASSUME LexInv, EndIdentifier PROVE LexInv'
<1>1. PICK k \in {"keyword", "identifier"} : Return(k, run)
  BY DEF EndIdentifier
<1>2. /\ where = "identifier" /\ last \notin Alnum
      /\ UNCHANGED <<curLoc, at, run>> /\ Stay /\ hadError' = hadError
  BY DEF EndIdentifier
<1>3. k \in {"keyword", "identifier", "number"} /\ k # "number"
      /\ "identifier" \in {"identifier", "number"}
  BY <1>1
<1>4. hadError' = (hadError \/ (k = "number" /\ Invalid(run)))
  BY <1>2, <1>3 DEF LexInv, LexTypeOK
<1> QED
  BY <1>1, <1>2, <1>3, <1>4, EndRunStep

LEMMA EndNumberStep == ASSUME LexInv, EndNumber PROVE LexInv'
<1>1. /\ where = "number" /\ last \notin Decimal /\ Return("number", run)
      /\ UNCHANGED <<curLoc, at, run>> /\ Stay /\ hadError' = (hadError \/ Invalid(run))
  BY DEF EndNumber
<1>2. /\ "number" \in {"keyword", "identifier", "number"}
      /\ "number" \in {"identifier", "number"} /\ "number" # "identifier"
  OBVIOUS
<1>3. hadError' = (hadError \/ ("number" = "number" /\ Invalid(run)))
  BY <1>1
<1> QED
  BY <1>1, <1>2, <1>3, EndRunStep

LEMMA ReturnOperatorStep == ASSUME LexInv, ReturnOperator PROVE LexInv'
<1> DEFINE t == [kind |-> "char", chars |-> <<last>>, at |-> Here, loc |-> lexLoc]
<1>1. /\ where = "start" /\ where' = "idle" /\ last \in Operator /\ Advance
      /\ curLoc' = lexLoc /\ at' = next - 1 /\ UNCHANGED <<run, hadError>>
  BY DEF ReturnOperator, StartToken, Return
<1>2. last # Eof /\ last \notin Space /\ last # "#" /\ last \in Char
  BY <1>1, Kinds
<1>3. /\ text' = text /\ next' \in 1..Len(text) + 1 /\ last' \in Char \cup {Eof}
      /\ lexLoc' \in Loc /\ Here' = Here + 1 /\ Lookahead' /\ Located'
  BY <1>1, <1>2, AdvanceFacts
<1>4. Here # 0
  BY <1>2, HereFacts DEF Blank, Space
<1>5. /\ Here = next - 1 /\ Here \in 1..Len(text)
      /\ Len(text) \in Nat /\ Len(text) <= MaxLength /\ MaxLength \in Nat
  <2>1. Here = next - 1 /\ Here <= Len(text) /\ Here \in 0..Len(text) + 1
    BY <1>2, HereFacts, Zenon
  <2>2. Len(text) \in Nat /\ Len(text) <= MaxLength /\ MaxLength \in Nat
    BY HereFacts, Zenon
  <2>3. \A n \in Nat : \A h \in 0..n + 1 : h # 0 /\ h <= n => h \in 1..n
    OBVIOUS
  <2> QED
    BY <1>4, <2>1, <2>2, <2>3, Zenon
<1>6. last = text[Here]
  BY <1>2, <1>4, HereFacts
<1>7. tokens' = Append(tokens, t)
  BY <1>1, <1>5 DEF ReturnOperator, Return
<1>8. Front = Here /\ Front' = Here + 1
  BY <1>1, <1>3 DEF Front, Open
<1>9. t \in Token
  <2>1. Here \in 1..MaxLength + 1 /\ lexLoc \in Loc /\ <<last>> \in Seq(Char)
    BY <1>2, <1>5 DEF LexInv, LexTypeOK
  <2> QED
    BY <2>1 DEF Token, Kind
<1>10. ~InComment(Here - 1) /\ ~InComment(Here)
  BY <1>1, <1>2, <1>4, Kinds, CommentGoesOn DEF LexInv, CommentsSeen, CommentEnd
<1>11. Past'
  <2>1. /\ t.kind = "char" /\ t.chars = <<last>> /\ t.at = Here /\ t.loc = lexLoc
        /\ Len(t.chars) = 1 /\ DOMAIN t.chars = {1} /\ t.chars[1] = last /\ t.chars # <<>>
    OBVIOUS
  <2>2. t.loc = LocationOf(t.at)
    BY <2>1 DEF LexInv, Located
  <2>3. Here + 1 \in Nat /\ Here + 1 = t.at + Len(t.chars) /\ Here + 1 <= Len(text) + 1
    BY <1>5, <2>1
  <2>4. \A i \in DOMAIN t.chars : i = 1 /\ t.at + i - 1 = Here
    BY <1>5, <2>1
  <2>5. \A i \in DOMAIN t.chars :
               /\ text[t.at + i - 1] = t.chars[i]
               /\ t.chars[i] \notin Space
               /\ ~InComment(t.at + i - 1)
    BY <1>2, <1>6, <1>10, <2>1, <2>4
  <2>6. t.kind # "number" /\ t.kind \notin {"keyword", "identifier"}
    BY <2>1
  <2>7. hadError' <=> hadError \/ (t.kind = "number" /\ BadNumber(t.chars))
    BY <1>1, <2>6
  <2> HIDE DEF t
  <2> QED
    BY <1>3, <1>7, <1>8, <1>9, <2>1, <2>2, <2>3, <2>5, <2>6, <2>7, ReturnStep
<1>12. LexTypeOK'
  <2>1. at' \in 1..MaxLength + 1
    BY <1>1, <1>5
  <2> QED
    BY <1>1, <1>3, <1>7, <1>9, <2>1, AppendProperties DEF LexInv, LexTypeOK
<1>13. RunMatches'
  BY <1>1 DEF RunMatches, Open
<1>14. CommentsSeen'
  <2>1. Here' - 1 = Here
    BY <1>3, <1>5
  <2>2. InComment(Here - 1)' <=> InComment(Here)
    BY <1>3, <2>1 DEF InComment
  <2> QED
    BY <1>1, <1>10, <2>2 DEF CommentsSeen
<1> QED
  BY <1>3, <1>11, <1>12, <1>13, <1>14 DEF LexInv

\* The end of the input is a token without characters, behind the last position.
LEMMA ReturnEofStep == ASSUME LexInv, ReturnEof PROVE LexInv'
<1> DEFINE t == [kind |-> "eof", chars |-> <<>>, at |-> next, loc |-> curLoc']
<1>1. /\ last = Eof /\ where \in {"start", "comment"} /\ where' = "idle"
      /\ at' = next /\ UNCHANGED <<run, hadError>> /\ Stay
      /\ tokens' = Append(tokens, t)
  BY DEF ReturnEof, Return
<1>2. curLoc' \in Loc
  BY DEF ReturnEof, LexInv, LexTypeOK
<1>3. /\ UNCHANGED <<text, next, last, lexLoc>>
      /\ Here' = Here /\ Lookahead' /\ Located'
  BY <1>1, StayFacts
<1>4. /\ Len(text) \in Nat /\ Len(text) <= MaxLength /\ MaxLength \in Nat
      /\ next = Len(text) + 1 /\ Here = Len(text) + 1
  BY <1>1, HereFacts DEF Here, LexInv, Lookahead
<1>5. Front = Here /\ Front' = Here
  BY <1>1, <1>3 DEF Front, Open
<1>6. t \in Token
  <2>1. next \in 1..MaxLength + 1 /\ <<>> \in Seq(Char)
    BY <1>4
  <2> QED
    BY <1>2, <2>1 DEF Token, Kind
<1>7. Past'
  <2>1. t.kind = "eof" /\ t.chars = <<>> /\ t.at = next /\ Len(t.chars) = 0 /\ DOMAIN t.chars = {}
    OBVIOUS
  <2>2. Here \in Nat /\ Here = t.at + Len(t.chars) /\ Here <= Len(text) + 1 /\ t.at = Front
    BY <1>4, <1>5, <2>1
  <2>3. t.kind # "number" /\ t.kind \notin {"keyword", "identifier"}
    BY <2>1
  <2>4. hadError' <=> hadError \/ (t.kind = "number" /\ BadNumber(t.chars))
    BY <1>1, <2>3
  <2> HIDE DEF t
  <2> QED
    BY <1>1, <1>3, <1>5, <1>6, <2>1, <2>2, <2>3, <2>4, ReturnStep
<1>8. LexTypeOK'
  <2>1. at' \in 1..MaxLength + 1
    BY <1>1, <1>4
  <2> QED
    BY <1>1, <1>2, <1>3, <1>6, <2>1, AppendProperties DEF LexInv, LexTypeOK
<1>9. RunMatches' /\ CommentsSeen'
  BY <1>1, <1>3 DEF RunMatches, CommentsSeen, Open, CommentEnd
<1> QED
  BY <1>3, <1>7, <1>8, <1>9 DEF LexInv

LEMMA LexStep == LexInv /\ [Next]_vars => LexInv'
<1> SUFFICES ASSUME LexInv, [Next]_vars PROVE LexInv'
  OBVIOUS
<1>1. CASE Call
  BY <1>1, CallStep
<1>2. CASE SkipSpace
  BY <1>2, SkipSpaceStep
<1>3. CASE BeginIdentifier
  BY <1>3, BeginIdentifierStep
<1>4. CASE MoreIdentifier
  BY <1>4, MoreIdentifierStep
<1>5. CASE EndIdentifier
  BY <1>5, EndIdentifierStep
<1>6. CASE BeginNumber
  BY <1>6, BeginNumberStep
<1>7. CASE MoreNumber
  BY <1>7, MoreNumberStep
<1>8. CASE EndNumber
  BY <1>8, EndNumberStep
<1>9. CASE BeginComment
  BY <1>9, BeginCommentStep
<1>10. CASE MoreComment
  BY <1>10, MoreCommentStep
<1>11. CASE EndComment
  BY <1>11, EndCommentStep
<1>12. CASE ReturnOperator
  BY <1>12, ReturnOperatorStep
<1>13. CASE ReturnEof
  BY <1>13, ReturnEofStep
<1>14. CASE UNCHANGED vars
  <2>1. UNCHANGED <<text, next, last, lexLoc, curLoc, where, run, at, hadError, tokens>>
    BY <1>14 DEF vars
  <2>2. Here' = Here /\ Lookahead' /\ Located'
    BY <2>1, StayFacts DEF Stay
  <2>3. Front' = Front
    BY <2>1, <2>2 DEF Front, Open
  <2>4. Past'
    BY <2>1, <2>3, HereFacts, QuietStep
  <2>5. LexTypeOK' /\ RunMatches' /\ CommentsSeen'
    BY <2>1, <2>2, SameText
       DEF LexInv, LexTypeOK, RunMatches, CommentsSeen, Open, InComment
  <2> QED
    BY <2>2, <2>4, <2>5 DEF LexInv
<1> QED
  BY <1>1, <1>2, <1>3, <1>4, <1>5, <1>6, <1>7, <1>8, <1>9, <1>10, <1>11, <1>12, <1>13, <1>14
     DEF Next, Step, Stopped

\* The lookahead, its location and the run always fit the text and the tokens.
THEOREM LexerInvariant == Spec => []LexInv
BY InitLexer, LexStep, PTL DEF Spec

-----------------------------------------------------------------------------
\* Every variable of the lexer keeps its type: no location leaves the text, and no
\* read goes past its end.
THEOREM LexTypeCorrect == Spec => []LexTypeOK
<1>1. LexInv => LexTypeOK
  BY DEF LexInv
<1> QED
  BY <1>1, LexerInvariant, PTL

\* No character that belongs to a token is lost, lexed twice or taken from a comment.
THEOREM EveryCharacterOnceHolds == Spec => []EveryCharacterOnce
<1>1. ASSUME LexInv PROVE EveryCharacterOnce
  <2>1. ASSUME where = "idle", NEW i \in Consumed
        PROVE  IF text[i] \in Space \/ InComment(i) THEN Owners(i) = {}
               ELSE \E n \in Owners(i) : Owners(i) = {n}
    <3>1. Front = Here
      BY <2>1 DEF Front, Open
    <3>2. i \in 1..Front - 1
      <4>1. CASE last = Eof
        BY <1>1, <3>1, <4>1, HereFacts DEF Consumed, Here
      <4>2. CASE last # Eof
        <5>1. next \in Int /\ Here = next - 1
          BY <1>1, <4>2, HereFacts DEF LexInv, LexTypeOK
        <5> QED
          BY <2>1, <3>1, <4>2, <5>1 DEF Consumed
      <4> QED
        BY <4>1, <4>2
    <3> QED
      BY <1>1, <3>2 DEF LexInv, Past, Settled
  <2> QED
    BY <1>1, <2>1 DEF EveryCharacterOnce, Owners, LexInv, Past, CharsMatch
<1> QED
  BY <1>1, LexerInvariant, PTL

\* A word or a number ends only where its characters do.
THEOREM TokensAreMaximalHolds == Spec => []TokensAreMaximal
<1>1. LexInv => TokensAreMaximal
  BY DEF LexInv, Past
<1> QED
  BY <1>1, LexerInvariant, PTL

\* A token has the line and the column of its first character, whatever was skipped to
\* reach it and whatever was read behind it.
THEOREM LocationsExactHolds == Spec => []LocationsExact
<1>1. ASSUME LexInv PROVE LocationsExact
  <2> SUFFICES ASSUME NEW n \in DOMAIN tokens, tokens[n].kind # "eof"
               PROVE  LET t     == tokens[n]
                          Lines == {i \in 1..t.at - 1 : text[i] \in NewLine}
                          start == CHOOSE i \in Lines \cup {0} : \A j \in Lines : j <= i
                      IN  t.loc = Location(Cardinality(Lines) + 1, t.at - start)
    BY DEF LocationsExact
  <2> DEFINE a == tokens[n].at
  <2>1. a \in DOMAIN text /\ text[a] \notin NewLine /\ tokens[n].loc = LocationOf(a)
    BY <1>1 DEF LexInv, Past, TokensLocated
  <2>2. DOMAIN text = 1..Len(text) /\ Len(text) \in Nat
    BY <1>1, HereFacts
  <2> HIDE DEF a
  <2>3. LinesUpTo(a) = {i \in 1..a - 1 : text[i] \in NewLine}
    BY <2>1, <2>2 DEF LinesUpTo
  <2> QED
    BY <2>1, <2>3 DEF LocationOf, LineStart, a
<1> QED
  BY <1>1, LexerInvariant, PTL

\* hadError() holds exactly if some number so far is no decimal literal.
THEOREM HadErrorExactHolds == Spec => []HadErrorExact
<1>1. LexInv => HadErrorExact
  BY DEF LexInv, Past
<1> QED
  BY <1>1, LexerInvariant, PTL
=============================================================================
