------------------------------- MODULE Parser -------------------------------
(***************************************************************************)
(* What becomes of a statement between the client that means it and the    *)
(* engine: the client writes it in one of the forms T-SQL has, may leave   *)
(* out, swap or add a word while writing it, and the engine reads what it  *)
(* got (tsql.ParseWrite, tsql.Parse).                                      *)
(***************************************************************************)
EXTENDS WriteParser, SqlText

CONSTANTS Statements, \* the statements clients mean, a sequence of statement trees
          Strays,     \* the tokens a client adds by mistake
          MaxEdits    \* how many mistakes a text has at most

ASSUME ParserAssumption == MaxEdits \in Nat

VARIABLES meant,   \* the statement the client means, an index of Statements
          sugared, \* whether it takes the longer forms
          text,    \* the tokens it wrote
          edits,   \* the mistakes in them
          got      \* what the engine understood: <<>> before it read the text

vars == <<meant, sugared, text, edits, got>>

Init ==
  /\ meant \in DOMAIN Statements
  /\ sugared \in BOOLEAN
  /\ text = Text(Statements[meant], sugared)
  /\ edits = 0
  /\ got = <<>>

\* A mistake in a text the engine has not read.
Mistake(changed) ==
  /\ got = <<>> /\ ~sugared
  /\ edits < MaxEdits
  /\ edits' = edits + 1
  /\ text' = changed
  /\ UNCHANGED <<meant, sugared, got>>

LeaveOut == \E i \in DOMAIN text : Mistake(RemoveAt(text, i))
Swap == \E i \in 1..(Len(text) - 1) : Mistake([text EXCEPT ![i] = text[i + 1], ![i + 1] = text[i]])
Add == \E i \in 1..(Len(text) + 1), t \in Strays : Mistake(InsertAt(text, i, t))

\* The engine reads the text.
Read ==
  /\ got = <<>>
  /\ got' = Understand(text)
  /\ UNCHANGED <<meant, sugared, text, edits>>

Next == LeaveOut \/ Swap \/ Add \/ Read
Spec == Init /\ [][Next]_vars

-----------------------------------------------------------------------------
Understood == got \notin {<<>>, Refused}

(* An untouched text, plain or sugared, is read as the statement it was     *)
(* written for: precedence, association, BETWEEN's AND, look-ahead and the  *)
(* longer forms all come out as meant.  And whatever the engine made of a   *)
(* text, mistaken or not, is a statement that can be written and is then    *)
(* read the same.                                                           *)
ReadAsWritten ==
  /\ got # <<>> /\ edits = 0 => got = Statements[meant]
  /\ Understood => Understand(Text(got, FALSE)) = got

\* The token at a position, and the end marker outside the text.
At(i) == IF i \in DOMAIN text THEN text[i] ELSE EOF

\* A position between the parentheses that follow one of these words.
Within(i, words) ==
  \E j \in 1..(i - 2) : text[j] \in words /\ text[j + 1] = LParen /\ Closing(text, j + 1) > i

\* The = of x = value, at the head of an item of a select list.
LeadingAlias(i) ==
  got[1] = "select" /\ At(i) = Op("=") /\ At(i - 2) \in {Comma, Keyword("SELECT"), Keyword("DISTINCT")}

\* A word that adds nothing to its neighbour: AS, ASC, the OUTER of a LEFT JOIN, the INNER of a JOIN, FETCH's FIRST,
\* the = after a leading alias, and a NOT before IS, which the parser drops.
Noise(i) ==
  \/ At(i) \in {Keyword("AS"), Keyword("ASC")}
  \/ At(i) = Keyword("OUTER") /\ At(i - 1) \in {Keyword("LEFT"), Keyword("RIGHT"), Keyword("FULL")}
  \/ At(i) = Keyword("INNER") /\ At(i + 1) = Keyword("JOIN")
  \/ At(i) \in {Keyword("FIRST"), Keyword("NEXT")} /\ At(i - 1) = Keyword("FETCH")
  \/ At(i) = Keyword("NOT") /\ At(i + 1) = Keyword("IS")
  \/ LeadingAlias(i)

\* What the parser is meant to pass over: hints, what follows the length in the type of a CAST, and a collation
\* that is the default one.
HintWords == {Ident("OPTION"), Keyword("WITH"), Keyword("TABLESAMPLE")}
PassedOver(i) ==
  \/ At(i) \in HintWords /\ At(i + 1) = LParen
  \/ Within(i, HintWords \cup {Ident("VARCHAR")})
  \/ \E j \in {i - 1, i} : At(j) = Ident("COLLATE") /\ ~CaseSensitive(At(j + 1)[2])

\* The two places where one word that says something is lost.  A window has no DISTINCT, and the one of
\* SUM(DISTINCT a) OVER (...) is dropped (with STRING_AGG's separator, which more than one word would have to go
\* wrong for).  An item has one alias, and of x = a y the y is dropped.
WindowDistinct(i) ==
  /\ At(i) = Keyword("DISTINCT") /\ At(i - 1) = LParen
  /\ At(i - 2) \in {Ident(name) : name \in AggNames}
  /\ At(Closing(text, i - 1) + 1) = Ident("OVER")
SecondAlias(i) ==
  /\ At(i)[1] = "ident" /\ At(i - 1)[1] \in {"ident", "number", "string", "rparen"}
  /\ At(i + 1) \in {Comma, Keyword("FROM")}
  /\ \E j \in 1..(i - 2) : LeadingAlias(j) /\ \A k \in j..i : At(k) \notin {Comma, Keyword("FROM")}

\* The positions whose token is part of what the statement says.
Meaningful ==
  {i \in DOMAIN text : /\ At(i)[1] \in {"ident", "number", "string", "op", "star", "keyword"}
                       /\ ~Noise(i) /\ ~PassedOver(i) /\ ~WindowDistinct(i) /\ ~SecondAlias(i)}

(* Whatever the engine accepts, it accounts for: each word, number, string  *)
(* and operator of the text is in the statement understood, as often as in  *)
(* the text, but for noise, for what it passes over, and for the two words  *)
(* it loses: the DISTINCT of an aggregate with an OVER (selectItem keeps no *)
(* DISTINCT for a window) and the alias after an item that has one before   *)
(* it (aliasOr).  Any other clause that one misplaced word hides from the   *)
(* parser is refused with the statement and never left out of it, above all *)
(* the WHERE of a write.  CREATE TABLE and ALTER TABLE, which pass over the *)
(* constraints they do not know, are apart.                                 *)
NothingIgnored ==
  Understood /\ ~sugared /\ got[1] \notin {"create table", "alter"} =>
    LET says == Text(got, FALSE) IN
    \A i \in Meaningful :
      Cardinality({j \in Meaningful : text[j] = text[i]}) <= Cardinality({j \in DOMAIN says : says[j] = text[i]})
=============================================================================
