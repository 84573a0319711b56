------------------------------ MODULE DataLines ------------------------------
(***************************************************************************)
(* Bytes on an Assuan connection: "D" lines with the control characters    *)
(* and the percent sign escaped.  An escape is three characters.           *)
(***************************************************************************)
EXTENDS Sexp

CONSTANT MaxLineData
ASSUME MaxLineDataAssumption == MaxLineData \in Nat \ {0}

Escaped == Control \cup {"%"}

\* percentEncode as a plausible slip writes it: the sign itself as it is.
PercentEncodeBare(data) ==
  FlattenSeq([k \in DOMAIN data |->
    IF data[k] \in Control THEN <<"%">> \o HexOf[data[k]] ELSE <<data[k]>>])

PercentEncode(data) ==
  FlattenSeq([k \in DOMAIN data |->
    IF data[k] \in Escaped THEN <<"%">> \o HexOf[data[k]] ELSE <<data[k]>>])

PercentDecode(line) ==
  LET from[i \in Nat] ==
        CASE i > Len(line) -> <<>>
          [] /\ i + 2 <= Len(line) /\ line[i] = "%"
             /\ line[i + 1] \in HexDigit /\ line[i + 2] \in HexDigit ->
               <<UnHex(SubSeq(line, i + 1, i + 2))>> \o from[i + 3]
          [] OTHER -> <<line[i]>> \o from[i + 1]
  IN  from[1]

\* Where sendData cuts what is left.
CutAt(encoded) == Min({Len(encoded), MaxLineData})

\* Where the agent may: its buffer never ends inside an escape.
Whole(encoded, n) ==
  \A k \in 1 .. Min({n, Len(encoded)}) : encoded[k] = "%" => k + 2 <= n
=============================================================================
