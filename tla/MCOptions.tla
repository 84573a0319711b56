----------------------------- MODULE MCOptions -----------------------------
(* Every command line of up to three of these words, and of up to four of    *)
(* the ones that decide which gpg.conf is read.                              *)
EXTENDS Options, TLC

CONSTANTS homeA, homeB, x

Wd(lex, names, val) == [lex |-> lex, names |-> names, val |-> val]

Place4 == {Wd("long", <<"homedir">>, None), Wd("assigned", <<"homedir">>, homeB),
           Wd("long", <<"output">>, None), Wd("end", << >>, None), Wd("plain", << >>, homeB),
           Wd("long", <<"no-options">>, None)}

Words == Place4 \union
    {Wd("long", <<"options">>, None), Wd("long", <<"encrypt">>, None), Wd("short", <<"sign">>, None),
     Wd("short", <<"sign", "encrypt">>, None), Wd("short", <<"armor", "hidden-recipient">>, None),
     Wd("short", <<"output">>, x), Wd("long", <<"with-keygrip">>, None),
     Wd("long", <<"trust-model">>, None), Wd("assigned", <<"trust-model">>, x),
     Wd("long", <<"nonsense">>, None), Wd("plain", << >>, x)}

MCArgvs == UNION {[1 .. n -> Words] : n \in 0 .. 3} \union [1 .. 4 -> Place4]

Line(name, val) == [name |-> name, val |-> val]

\* gpg.conf in the default home, in the other one, and a directory for a file.
MCConfs ==
    {homeA :> << >>,
     homeA :> <<Line("with-fingerprint", None), Line("nonsense", None), Line("passphrase-file", "file")>> @@
        homeB :> <<Line("sign", None), Line("output", x)>>,
     homeA :> <<Line("encrypt", None), Line("recipient", x), Line("homedir", homeB)>> @@
        x :> Unreadable}
============================================================================
