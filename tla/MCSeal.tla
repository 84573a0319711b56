------------------------------- MODULE MCSeal -------------------------------
(* a has two signing subkeys, b signs with its primary key, c cannot be      *)
(* encrypted to.                                                            *)
EXTENDS Seal, TLC

CONSTANTS a, b, c, a0, a1, s1, s2, b0, b1, c0, qa, qb, qc, both, none

MCRing == <<a, b, c>>
MCKeys == a :> <<a0, a1, s1, s2>> @@ b :> <<b0, b1>> @@ c :> <<c0>>
MCAlgo == a0 :> "ed25519" @@ a1 :> "cv25519" @@ s1 :> "ed25519" @@ s2 :> "rsa" @@
          b0 :> "ed25519" @@ b1 :> "cv25519" @@ c0 :> "nist"
MCMatches == qa :> {a} @@ qb :> {b} @@ qc :> {c} @@ both :> {a, b} @@ none :> {}
MCEncKey  == a :> a1 @@ b :> b1 @@ c :> NoKey
MCBest    == a :> s1 @@ b :> b0 @@ c :> c0

Show(q) == [query |-> q, hidden |-> FALSE]
Hide(q) == [query |-> q, hidden |-> TRUE]

\* Lists of one to three options for a and b; and queries that find nothing,
\* too much, or a certificate that cannot be encrypted to.
Named == {Show(qa), Hide(qa), Show(qb), Hide(qb)}
OfA   == {Show(qa), Hide(qa)}
Lists == {<<p>> : p \in Named} \union {<<p, q>> : p \in OfA, q \in Named} \union
         {<<p, q, r>> : p, q \in OfA, r \in Named}
Odd   == {<< >>, <<Show(none)>>, <<Hide(both)>>, <<Show(qa), Show(none)>>, <<Show(qa), Hide(qc)>>}

Command(form, encrypt, sign, specs, user) ==
    [form |-> form, encrypt |-> encrypt, sign |-> sign, specs |-> specs, user |-> user]

MCCommands ==
    {Command("encrypted", TRUE, FALSE, s, NoUser) : s \in Lists \union Odd} \union
    {Command("encrypted", TRUE, TRUE, s, u) :
        s \in {<< >>, <<Show(qa)>>, <<Hide(qb), Show(qa)>>, <<Show(qc)>>, <<Show(none)>>}, u \in {NoUser, qa, qb}} \union
    {Command(f, FALSE, TRUE, << >>, u) :
        f \in {"embedded", "detached", "clearsigned"}, u \in {NoUser, qa, qb, both, none}}

MCHomes ==
    {a0 :> s[1] @@ a1 :> s[2] @@ s1 :> s[3] @@ s2 :> s[4] @@ b0 :> t @@ b1 :> t @@ c0 :> "absent" :
        s \in {<<"stub", "stub", "stub", "stub">>, <<"locked", "locked", "open", "locked">>,
               <<"open", "open", "absent", "open">>,
               <<"absent", "open", "open", "open">>, <<"absent", "absent", "absent", "absent">>},
        t \in {"locked", "open", "absent"}}

MCAgents ==
    LET Agent(H, R, C) == [up |-> TRUE, holds |-> H, ready |-> R, cached |-> C]
    IN  {[up |-> FALSE, holds |-> {}, ready |-> {}, cached |-> {}], Agent({}, {}, {}),
         Agent({s2, a1}, {s2}, {}), Agent({s1, b0}, {s1, b0}, {b0}), Agent({s1, s2}, {s2}, {s1, s2})}
=============================================================================
