-------------------------------- MODULE Sexp --------------------------------
(***************************************************************************)
(* S-expressions as gpg-agent writes them: the canonical and the advanced  *)
(* form, and the parser that takes either.                                 *)
(*                                                                         *)
(* A text is a sequence of characters, each standing for a class of bytes  *)
(* the code tells apart: "x" is a control character, "a" a hexadecimal     *)
(* letter, "n" another one, "%" itself.  A word that is only ever compared *)
(* is one character, too.  A node is an atom, a list, or what the parser   *)
(* makes of "": neither (its Atom and its List are both nil).              *)
(***************************************************************************)
EXTENDS Integers, SequencesExt

CONSTANT Refused \* in place of a result: the error return

A(chars) == [atom |-> chars]
S(word) == A(<<word>>)
L(items) == [list |-> items]
Neither == [neither |-> TRUE]

IsAtom(n) == "atom" \in DOMAIN n
IsList(n) == "list" \in DOMAIN n

\* The k-th child is there and is an atom.
AtomAt(n, k) == k \in DOMAIN n.list /\ IsAtom(n.list[k])

\* The first child list that begins with name, or Refused.
FindList(n, name) ==
  LET at == {k \in DOMAIN n.list : /\ IsList(n.list[k]) /\ AtomAt(n.list[k], 1)
                                   /\ n.list[k].list[1] = S(name)}
  IN  IF at = {} THEN Refused ELSE n.list[Min(at)]

White == {" ", "\n"}
Digit == {"0", "1", "2", "3", "4", "5", "6", "7", "8", "9"}
DigitOf == [n \in 0 .. 9 |-> CHOOSE d \in Digit : ToString(n) = d]
Delimiter == {"(", ")", "\"", "#", "|", "\\"}
Control == {"x", "\n"}

\* The bytes behind the characters that hexadecimal text is written of.
HexOf == [c \in {"x", "\n", " ", "a", "n", "(", ")", "\"", "#", "\\", "%", "1", ":"} |->
  CASE c = "x" -> <<"1", "A">> [] c = "\n" -> <<"0", "A">> [] c = " " -> <<"2", "0">>
    [] c = "a" -> <<"6", "1">> [] c = "n" -> <<"6", "E">> [] c = "(" -> <<"2", "8">>
    [] c = ")" -> <<"2", "9">> [] c = "\"" -> <<"2", "2">> [] c = "#" -> <<"2", "3">>
    [] c = "\\" -> <<"5", "C">> [] c = "%" -> <<"2", "5">> [] c = "1" -> <<"3", "1">>
    [] c = ":" -> <<"3", "A">>]
HexDigit == Digit \cup {"a", "A", "B", "C", "D", "E", "F"}
UnHex(pair) == IF \E c \in DOMAIN HexOf : HexOf[c] = pair
                 THEN CHOOSE c \in DOMAIN HexOf : HexOf[c] = pair ELSE "other"
Hex(chars) == FlattenSeq([k \in DOMAIN chars |-> HexOf[chars[k]]])

(***************************************************************************)
(* Writers.                                                                *)
(***************************************************************************)
RECURSIVE Canonical(_), Advanced(_)

Number(n) == IF n < 10 THEN <<DigitOf[n]>> ELSE <<DigitOf[n \div 10], DigitOf[n % 10]>>

Canonical(n) ==
  IF IsAtom(n) THEN Number(Len(n.atom)) \o <<":">> \o n.atom
  ELSE <<"(">> \o FlattenSeq([k \in DOMAIN n.list |-> Canonical(n.list[k])]) \o <<")">>

\* IsPrintableToken as a plausible slip writes it: a leading digit is taken.
IsPrintableTokenDigits(chars) ==
  /\ chars # <<>>
  /\ \A k \in DOMAIN chars : chars[k] \notin Control \cup Delimiter \cup {" "}

IsPrintableToken(chars) ==
  /\ chars # <<>>
  /\ chars[1] \notin Digit
  /\ \A k \in DOMAIN chars : chars[k] \notin Control \cup Delimiter \cup {" "}

IsPrintableAny(chars) == \A k \in DOMAIN chars : chars[k] \notin Control \cup {"\"", "\\"}

AdvancedAtom(chars) ==
  CASE IsPrintableToken(chars) -> chars
    [] ~IsPrintableToken(chars) /\ IsPrintableAny(chars) -> <<"\"">> \o chars \o <<"\"">>
    [] OTHER -> <<"#">> \o Hex(chars) \o <<"#">>

Advanced(n) ==
  IF IsAtom(n) THEN AdvancedAtom(n.atom)
  ELSE <<"(">> \o FlattenSeq([k \in DOMAIN n.list |->
                    (IF k > 1 THEN <<" ">> ELSE <<>>) \o Advanced(n.list[k])]) \o <<")">>

(***************************************************************************)
(* The parser: a node and the position behind it, or Refused.              *)
(***************************************************************************)
Found(node, pos) == [node |-> node, pos |-> pos]

\* The first place from i on with a character in (or not in) cs; Len(d) + 1
\* if there is none.
Upto(d, i, cs) ==
  LET at == {j \in i .. Len(d) : d[j] \in cs} IN IF at = {} THEN Len(d) + 1 ELSE Min(at)
Past(d, i, cs) ==
  LET at == {j \in i .. Len(d) : d[j] \notin cs} IN IF at = {} THEN Len(d) + 1 ELSE Min(at)

ParseCanonicalAtom(d, i) ==
  LET colon == Past(d, i, Digit)
      n == FoldLeft(LAMBDA m, c : 10 * m + CHOOSE k \in 0 .. 9 : DigitOf[k] = c, 0,
                    SubSeq(d, i, colon - 1))
  IN  IF colon > Len(d) \/ d[colon] # ":" \/ colon + n > Len(d) THEN Refused
      ELSE Found(A(SubSeq(d, colon + 1, colon + n)), colon + n + 1)

ParseHex(d, i) ==
  LET end == Upto(d, i + 1, {"#"})
      nibbles == SelectSeq(SubSeq(d, i + 1, end - 1), LAMBDA c : c \notin White)
  IN  IF end > Len(d) \/ Len(nibbles) % 2 # 0 \/ \E k \in DOMAIN nibbles : nibbles[k] \notin HexDigit
        THEN Refused
        ELSE Found(A([k \in 1 .. Len(nibbles) \div 2 |-> UnHex(SubSeq(nibbles, 2 * k - 1, 2 * k))]),
                   end + 1)

\* A backslash stands for the character after it, n for a line feed.
ParseQuoted(d, i) ==
  LET from[j \in Nat] ==
        CASE j > Len(d) -> Refused
          [] j <= Len(d) /\ d[j] = "\"" -> Found(<<>>, j + 1)
          [] OTHER ->
               LET escaped == d[j] = "\\" /\ j < Len(d)
                   c == CASE ~escaped -> d[j] [] escaped /\ d[j + 1] = "n" -> "\n" [] OTHER -> d[j + 1]
                   rest == from[IF escaped THEN j + 2 ELSE j + 1]
               IN  IF rest = Refused THEN Refused ELSE Found(<<c>> \o rest.node, rest.pos)
      all == from[i + 1]
  IN  CASE all = Refused -> Refused
        [] all # Refused /\ all.node = <<>> -> Found(Neither, all.pos)
        [] OTHER -> Found(A(all.node), all.pos)

ParseToken(d, i) ==
  LET end == Upto(d, i, {"(", ")"} \cup White)
  IN  IF end = i THEN Refused ELSE Found(A(SubSeq(d, i, end - 1)), end)

RECURSIVE ParseNode(_, _), ParseList(_, _, _)

ParseNode(d, i) ==
  LET j == Past(d, i, White)
  IN  IF j > Len(d) THEN Refused
      ELSE CASE d[j] = "(" -> ParseList(d, j + 1, <<>>)
             [] d[j] = "#" -> ParseHex(d, j)
             [] d[j] = "\"" -> ParseQuoted(d, j)
             [] d[j] \in Digit -> ParseCanonicalAtom(d, j)
             [] OTHER -> ParseToken(d, j)

ParseList(d, i, items) ==
  LET j == Past(d, i, White)
  IN  IF j > Len(d) THEN Refused
      ELSE IF d[j] = ")" THEN Found(L(items), j + 1)
      ELSE LET child == ParseNode(d, j)
           IN  IF child = Refused THEN Refused
               ELSE ParseList(d, child.pos, Append(items, child.node))

\* The node at the start of d, or Refused.
Parse(d) ==
  LET all == ParseNode(d, 1) IN IF all = Refused THEN Refused ELSE all.node
=============================================================================
