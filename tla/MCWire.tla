------------------------------- MODULE MCWire -------------------------------
EXTENDS Wire

\* The characters that decide how an atom is written, alone and in pairs;
\* the last one looks like an escape.
Chars == {"x", " ", "a", "n", "(", "\"", "#", "\\", "%", "1", ":"}
Texts == {<<c>> : c \in Chars} \cup {<<c, d>> : c \in Chars, d \in {"1", ")", " ", "x", "n"}}
          \cup {<<"%", "1", "a">>}
KeyTexts == {v \in Texts : Len(v) = 1 \/ v[2] \in {"1", ")"}}

Ecc == {[algo |-> "ecc", clear |-> <<Param("curve", <<"Ed25519">>), Param("q", <<"x", "a">>)>>,
         secret |-> <<Param("d", v)>>] : v \in KeyTexts}
Rsa == {[algo |-> "rsa", clear |-> <<Param("n", <<"a", "x">>), Param("e", <<"1", "a">>)>>,
         secret |-> <<Param("d", <<"n">>), Param("p", v), Param("q", <<"(", "a">>), Param("u", <<"%">>)>>]
          : v \in {<<"x">>, <<"1">>}}
MCKeys == Ecc \cup Rsa

MCPassphrases == {"mine", "other"}

MCExchanges ==
  {[by |-> "agent", kind |-> k, values |-> <<v>>] : k \in {"value", "rsa"}, v \in Texts} \cup
  {[by |-> "agent", kind |-> "eddsa", values |-> <<v, <<"%", "1">>>>] : v \in Texts} \cup
  {[by |-> "client", kind |-> "ecdh", values |-> <<v, <<"x", "a">>>>] : v \in Texts}
=============================================================================
