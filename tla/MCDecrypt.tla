------------------------------ MODULE MCDecrypt ------------------------------
(* Two certificates: a with an ECDH and an RSA subkey, b with an ECDH one; a *)
(* stranger's key on another curve.  All messages for up to two of them.     *)
EXTENDS Decrypt, TLC

CONSTANTS a, b, a0, a1, a2, b0, b1, z

MCRing == <<a, b>>
MCKeys == a :> <<a0, a1, a2>> @@ b :> <<b0, b1>>
MCAlgo == a0 :> "ed25519" @@ a1 :> "cv25519" @@ a2 :> "rsa" @@
          b0 :> "ed25519" @@ b1 :> "cv25519" @@ z :> "nist"

To(k)   == [key |-> k, hidden |-> FALSE]
Hide(k) == [key |-> k, hidden |-> TRUE]
Unsigned(to) == [form |-> "message", to |-> to, signer |-> Nobody, intact |-> TRUE, legible |-> TRUE]
Spoilt(to) == [Unsigned(to) EXCEPT !.legible = FALSE]

Recipients == {To(a1), Hide(a1), To(b1), Hide(b1), Hide(a2), Hide(z)}

MCMessages ==
    {Unsigned(<<p, q>>) : p \in Recipients, q \in Recipients} \union
    {Unsigned(<<To(a2), q>>) : q \in Recipients} \union
    {Unsigned(<<p>>) : p \in Recipients \union {To(a2), To(z)}} \union
    {Spoilt(to) : to \in {<< >>, <<To(a1)>>, <<Hide(b1)>>}} \union
    [form : {"message"}, to : {<< >>, <<To(a1)>>}, signer : {a, b, z}, intact : BOOLEAN,
     legible : {TRUE}] \union
    [form : {"detached", "clearsigned"}, to : {<< >>}, signer : {a, z}, intact : BOOLEAN,
     legible : {TRUE}] \union
    {[form |-> "symmetric", to |-> << >>, signer |-> Nobody, intact |-> TRUE, legible |-> TRUE]}

\* a on a smartcard, with key files of mixed kinds, or not there; b locked,
\* open, or with the primary key only.
MCHomes ==
    {a0 :> s[1] @@ a1 :> s[2] @@ a2 :> s[3] @@ b0 :> t[1] @@ b1 :> t[2] :
        s \in {<<"stub", "stub", "absent">>, <<"open", "locked", "open">>,
               <<"absent", "absent", "absent">>},
        t \in {<<"locked", "locked">>, <<"absent", "open">>, <<"open", "absent">>}}

\* No agent, one without keys, one with a's ECDH key in the reader or out of
\* it, and one with everything and b's passphrase cached.
MCAgents ==
    LET Agent(H, R, C) == [up |-> TRUE, holds |-> H, ready |-> R, cached |-> C]
    IN  {[up |-> FALSE, holds |-> {}, ready |-> {}, cached |-> {}],
         Agent({}, {}, {}), Agent({a1}, {a1}, {}), Agent({a1}, {}, {}),
         Agent({a1, a2, b1}, {a1, b1}, {b1}), Agent({a1, a2, b1}, {b1}, {})}
=============================================================================
