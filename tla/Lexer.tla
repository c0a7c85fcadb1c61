--------------------------------- MODULE Lexer ---------------------------------
(***************************************************************************)
(* The lexer (src/src/Lexer.cpp): one character of lookahead, a location   *)
(* that moves with it, and gettok(), which returns one token per call.     *)
(* Every character read is a step; a call of gettok() is the steps from    *)
(* Call to the action that returns.                                        *)
(*                                                                         *)
(* Characters are what <cctype> and gettok() tell apart.  A token is       *)
(* recorded with the position it starts at, which the code does not keep.  *)
(***************************************************************************)
EXTENDS Naturals, Sequences, FiniteSets

CONSTANTS
    Letter,     \* isalpha
    Digit,      \* isdigit
    Operator,   \* characters that are tokens of their own
    Keyword,    \* the words that are not identifiers
    MaxLength,  \* bound: characters of the text
    MaxCalls    \* bound: calls of gettok()

NewLine == {"\n", "\r"}
Space   == {" "} \cup NewLine
Char    == Letter \cup Digit \cup Operator \cup Space \cup {".", "#"}
Eof     == "EOF"

ASSUME LexerAssumption ==
    /\ MaxLength \in Nat
    /\ MaxCalls \in Nat
    /\ Eof \notin Char
    /\ Letter \cap (Digit \cup Space \cup {".", "#"}) = {}
    /\ Digit \cap (Space \cup {".", "#"}) = {}
    /\ Operator \cap (Letter \cup Digit \cup Space \cup {".", "#"}) = {}

Decimal == Digit \cup {"."}

VARIABLES
    text,       \* the input, which no step changes
    next,       \* position of the next character In holds
    last,       \* LastChar
    lexLoc,     \* LexLoc: the location of LastChar
    curLoc,     \* CurLoc: the location of the token being read
    where,      \* where gettok() is
    run,        \* IdentifierStr or NumStr, whichever was filled last
    at,         \* history: position the current token starts at
    hadError,   \* HadError
    tokens      \* history: what the calls returned

vars == <<text, next, last, lexLoc, curLoc, where, run, at, hadError, tokens>>

Location(l, c) == [line |-> l, col |-> c]
Loc   == [line : 1..MaxLength + 1, col : 0..MaxLength + 1]
Text  == UNION {[1..n -> Char] : n \in 0..MaxLength}
Kind  == {"keyword", "identifier", "number", "char", "eof"}
Token == [kind : Kind, chars : Seq(Char), at : 1..MaxLength + 1, loc : Loc]

LexTypeOK ==
    /\ text \in Text
    /\ next \in 1..Len(text) + 1
    /\ last \in Char \cup {Eof}
    /\ lexLoc \in Loc
    /\ curLoc \in Loc
    /\ where \in {"idle", "start", "identifier", "number", "comment"}
    /\ run \in Seq(Char)
    /\ at \in 1..MaxLength + 1
    /\ hadError \in BOOLEAN
    /\ tokens \in Seq(Token)

Init == /\ text \in Text
        /\ next = 1
        /\ last = " "
        /\ lexLoc = Location(1, 0)
        /\ curLoc = Location(1, 0)
        /\ where = "idle"
        /\ run = <<>>
        /\ at = 1
        /\ hadError = FALSE
        /\ tokens = <<>>

-----------------------------------------------------------------------------
\* The forms named Slip... are faults the properties below are tried against; no
\* action uses them.

\* In.get() at the end of the stream moves nothing.
SlipPastTheEnd == next + 1
Following == IF next <= Len(text) THEN next + 1 ELSE next

\* Either character of a "\r\n" starts a line.
SlipOneKindOfLine(c) == IF c = "\n" THEN Location(lexLoc.line + 1, 0)
                                    ELSE Location(lexLoc.line, lexLoc.col + 1)
Moved(c) == IF c \in NewLine THEN Location(lexLoc.line + 1, 0)
                             ELSE Location(lexLoc.line, lexLoc.col + 1)

\* Lexer::advance().  Bound: the column counts the first read past the end only;
\* gettok() makes no other.
Advance ==
    /\ last' = IF next <= Len(text) THEN text[next] ELSE Eof
    /\ next' = Following
    /\ lexLoc' = IF last = Eof THEN lexLoc ELSE Moved(last')
    /\ UNCHANGED text

Stay == UNCHANGED <<text, next, last, lexLoc>>

\* The lookahead is the first character of the token.
StartToken == curLoc' = lexLoc /\ at' = next - 1

Begin(w) ==
    /\ where = "start"
    /\ StartToken
    /\ where' = w
    /\ run' = <<last>>
    /\ Advance
    /\ UNCHANGED <<hadError, tokens>>

More(w, S) ==
    /\ where = w
    /\ last \in S
    /\ run' = Append(run, last)
    /\ Advance
    /\ UNCHANGED <<curLoc, at, where, hadError, tokens>>

Return(k, s) ==
    /\ where' = "idle"
    /\ tokens' = Append(tokens, [kind |-> k, chars |-> s, at |-> at', loc |-> curLoc'])

-----------------------------------------------------------------------------
Call ==
    /\ where = "idle"
    /\ Len(tokens) < MaxCalls
    /\ where' = "start"
    /\ UNCHANGED <<curLoc, at, run, hadError, tokens>>
    /\ Stay

SkipSpace ==
    /\ where = "start"
    /\ last \in Space
    /\ Advance
    /\ UNCHANGED <<curLoc, at, where, run, hadError, tokens>>

SlipNoDigits == Letter
Alnum == Letter \cup Digit

BeginIdentifier == last \in Letter /\ Begin("identifier")
MoreIdentifier  == More("identifier", Alnum)

EndIdentifier ==
    /\ where = "identifier"
    /\ last \notin Alnum
    /\ UNCHANGED <<curLoc, at, run, hadError>>
    /\ Stay
    /\ Return(IF run \in Keyword THEN "keyword" ELSE "identifier", run)

BeginNumber == last \in Decimal /\ Begin("number")

MoreNumber  == More("number", Decimal)

\* What strtod parses: the longest prefix with one point, or nothing when that
\* prefix has no digit.
Points(s) == {i \in DOMAIN s : s[i] = "."}
Strtod(s) ==
    LET ends == {n \in 0..Len(s) : \A i, j \in Points(s) : i <= n /\ j <= n => i = j}
        n == CHOOSE n \in ends : \A m \in ends : m <= n
    IN  IF \E i \in 1..n : s[i] \in Digit THEN n ELSE 0

SlipPrefix(s) == Strtod(s) = 0
Invalid(s) == Strtod(s) # Len(s)

EndNumber ==
    /\ where = "number"
    /\ last \notin Decimal
    /\ hadError' = (hadError \/ Invalid(run))
    /\ UNCHANGED <<curLoc, at, run>>
    /\ Stay
    /\ Return("number", run)

BeginComment ==
    /\ where = "start"
    /\ last = "#"
    /\ curLoc' = lexLoc
    /\ where' = "comment"
    /\ Advance
    /\ UNCHANGED <<at, run, hadError, tokens>>

SlipOnlyALine == {"\n"}
SlipNoEof     == NewLine
CommentEnd    == NewLine \cup {Eof}

MoreComment ==
    /\ where = "comment"
    /\ last \notin CommentEnd
    /\ Advance
    /\ UNCHANGED <<curLoc, at, where, run, hadError, tokens>>

\* The call of gettok() in tail position.
EndComment ==
    /\ where = "comment"
    /\ last \in NewLine
    /\ where' = "start"
    /\ UNCHANGED <<curLoc, at, run, hadError, tokens>>
    /\ Stay

ReturnOperator ==
    /\ where = "start"
    /\ last \in Operator
    /\ StartToken
    /\ Advance
    /\ UNCHANGED <<run, hadError>>
    /\ Return("char", <<last>>)

\* Behind a comment the end of the input has the location of the comment.
ReturnEof ==
    /\ last = Eof
    /\ \/ where = "start" /\ curLoc' = lexLoc
       \/ where = "comment" /\ last \in CommentEnd /\ UNCHANGED curLoc
    /\ at' = next
    /\ UNCHANGED <<run, hadError>>
    /\ Stay
    /\ Return("eof", <<>>)

Step == \/ SkipSpace
        \/ BeginIdentifier \/ MoreIdentifier \/ EndIdentifier
        \/ BeginNumber \/ MoreNumber \/ EndNumber
        \/ BeginComment \/ MoreComment \/ EndComment
        \/ ReturnOperator \/ ReturnEof

Stopped == where = "idle" /\ Len(tokens) = MaxCalls /\ UNCHANGED vars

Next == Call \/ Step \/ Stopped

\* A call that has begun runs; whether there is another is up to the parser.
Spec == Init /\ [][Next]_vars /\ WF_vars(Step)

-----------------------------------------------------------------------------
\* Where the characters of a text belong, without reference to how it is read.
InComment(i) == \E j \in 1..i : text[j] = "#" /\ \A k \in j..i : text[k] \notin NewLine
Positions(t) == t.at .. t.at + Len(t.chars) - 1
Consumed == IF last = Eof THEN 1..Len(text) ELSE 1..next - 2

\* No character is lost, lexed twice or taken from a comment: whatever was read and
\* is neither white space nor in a comment is in exactly one token.
EveryCharacterOnce ==
    /\ where = "idle" => \A i \in Consumed :
         LET owners == {n \in DOMAIN tokens : i \in Positions(tokens[n])}
         IN  IF text[i] \in Space \/ InComment(i) THEN owners = {}
             ELSE \E n \in owners : owners = {n}
    /\ \A n \in DOMAIN tokens : \A i \in Positions(tokens[n]) :
         text[i] = tokens[n].chars[i - tokens[n].at + 1]

\* A word or a number ends only where its characters do, so that "define" is no
\* `def` and "1.2.3" no two numbers.
TokensAreMaximal == \A n \in DOMAIN tokens :
    LET t     == tokens[n]
        after == t.at + Len(t.chars)
        Ends(S) == after > Len(text) \/ text[after] \notin S
    IN  /\ t.kind \in {"keyword", "identifier"} => Ends(Letter \cup Digit)
        /\ t.kind = "number" => Ends(Decimal)

\* The location of a token is the line its first character is on and its place on
\* that line, whatever was skipped to reach it and whatever was read behind it.
LocationsExact == \A n \in DOMAIN tokens :
    LET t     == tokens[n]
        Lines == {i \in 1..t.at - 1 : text[i] \in NewLine}
        start == CHOOSE i \in Lines \cup {0} : \A j \in Lines : j <= i
    IN  t.kind # "eof" => t.loc = Location(Cardinality(Lines) + 1, t.at - start)

\* hadError() holds exactly if some number so far is no decimal literal, even when
\* good ones follow it.
HadErrorExact ==
    hadError <=> \E n \in DOMAIN tokens :
        /\ tokens[n].kind = "number"
        /\ LET s == tokens[n].chars
           IN  Cardinality(Points(s)) > 1 \/ \A i \in DOMAIN s : s[i] \notin Digit

\* Every call of gettok() returns, in an unfinished comment or number too.
CallsReturn == where # "idle" ~> where = "idle"
=============================================================================
