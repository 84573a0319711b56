------------------------------ MODULE AgentKey ------------------------------
(***************************************************************************)
(* The files of private-keys-v1.d: keys as S-expressions, protected with a *)
(* passphrase or not, and the text around them.  A key is                  *)
(* [algo, clear, secret, pass, at]: its parameters [name, value], and the  *)
(* passphrase it is still protected with (NoPass if it is not).            *)
(*                                                                         *)
(* The cipher is one fact: what Sealed(pass, text, aad) hides is given out *)
(* for the same passphrase and associated data and no other.  The sealed   *)
(* bytes are the atom Cipher.                                              *)
(***************************************************************************)
EXTENDS Sexp

CONSTANT NoPass

Cipher == <<"x", "x">>
Salt == <<"x", "a">>
Nonce == <<"x", "1">>
Now == <<"2", "0260923T002227">>

Param(name, value) == [name |-> name, value |-> value]

SecretParamNames(algo) == IF algo = "rsa" THEN {"d", "p", "q", "u"} ELSE {"d"}

ParamNode(p) == L(<<S(p.name), A(p.value)>>)
ParamNodes(ps) == [k \in DOMAIN ps |-> ParamNode(ps[k])]
ParamText(ps) == FlattenSeq([k \in DOMAIN ps |-> Canonical(ParamNode(ps[k]))])

ProtectedAt == L(<<S("protected-at"), A(Now)>>)

\* What the seal vouches for besides what it hides; as a plausible slip
\* writes it, without the public parameters.
AADBare(k, at) ==
  <<"(">> \o Canonical(S(k.algo)) \o at \o <<")">>

AAD(k, at) ==
  <<"(">> \o Canonical(S(k.algo)) \o ParamText(k.clear) \o at \o <<")">>

\* The seal of an unprotected key, and the tree that is written.
Protect(k, pass) ==
  [pass |-> pass, text |-> <<"(", "(">> \o ParamText(k.secret) \o <<")", ")">>,
   aad |-> AAD(k, Canonical(ProtectedAt))]

OCB == "openpgp-s2k3-ocb-aes"

ProtectedNode(k, mode) ==
  L(<<S("protected-private-key"),
      L(<<S(k.algo)>> \o ParamNodes(k.clear) \o
        <<L(<<S("protected"), S(mode),
              L(<<L(<<S("sha1"), A(Salt), A(<<"1", "0">>)>>), A(Nonce)>>), A(Cipher)>>),
          ProtectedAt>>)>>)

PrivateNode(k) ==
  L(<<S("private-key"), L(<<S(k.algo)>> \o ParamNodes(k.clear) \o ParamNodes(k.secret))>>)

\* "Key: " is one character; the first one counts, wherever it is.
Wrapper == <<"Created:", " ">> \o Now \o <<"\n", "Key: ">>
Serialize(node) == Wrapper \o Advanced(node) \o <<"\n">>

Marker(d) == Upto(d, 1, {"Key: "})

\* FromNode: the key, with what it needs to be unprotected.
IsParam(child) == IsList(child) /\ child.list # <<>> /\ AtomAt(child, 1)

IsProtection(child) ==
  /\ Len(child.list) = 4 /\ AtomAt(child, 2) /\ AtomAt(child, 4)
  /\ IsList(child.list[3]) /\ Len(child.list[3].list) = 2
  /\ LET s2k == child.list[3].list[1]
     IN  IsList(s2k) /\ Len(s2k.list) = 3 /\ s2k.list[1] = S("sha1")
         /\ AtomAt(s2k, 3) /\ s2k.list[3].atom # <<>> /\ \A c \in Range(s2k.list[3].atom) : c \in Digit

\* The shape of the tree, from the outside in.
IsKeyNode(node) ==
  /\ IsList(node) /\ Len(node.list) = 2 /\ AtomAt(node, 1)
  /\ node.list[1] \in {S("private-key"), S("protected-private-key")}
  /\ IsList(node.list[2]) /\ AtomAt(node.list[2], 1)
  /\ \A k \in 2 .. Len(node.list[2].list) :
       LET child == node.list[2].list[k]
       IN  /\ IsParam(child)
           /\ IF child.list[1] = S("protected")
                THEN node.list[1] = S("protected-private-key") /\ IsProtection(child)
                ELSE Len(child.list) = 2 /\ AtomAt(child, 2)

FromNode(node) ==
  IF ~IsKeyNode(node) THEN Refused
  ELSE LET algo == node.list[2].list[1].atom[1]
           children == Tail(node.list[2].list)
           Name(child) == child.list[1].atom[1]
           isSecret(child) == node.list[1] = S("private-key") /\ Name(child) \in SecretParamNames(algo)
           isClear(child) == ~isSecret(child) /\ Name(child) \notin {"protected", "protected-at"}
           Params(nodes) == [k \in DOMAIN nodes |-> Param(Name(nodes[k]), nodes[k].list[2].atom)]
           seal == SelectSeq(children, LAMBDA c : Name(c) = "protected")
           at == SelectSeq(children, LAMBDA c : Name(c) = "protected-at")
       IN  [algo |-> algo,
            clear |-> Params(SelectSeq(children, isClear)),
            secret |-> Params(SelectSeq(children, isSecret)),
            mode |-> IF seal = <<>> THEN "" ELSE Last(seal).list[2].atom[1],
            sealed |-> IF seal = <<>> THEN <<>> ELSE Last(seal).list[4].atom,
            at |-> IF at = <<>> THEN <<>> ELSE Canonical(Last(at))]

ParseKey(d) ==
  IF Marker(d) > Len(d) THEN Refused
  ELSE LET node == Parse(SubSeq(d, Marker(d) + 1, Len(d)))
       IN  IF node = Refused THEN Refused ELSE FromNode(node)

\* Card stubs have no wrapper around them.
Tag(d) ==
  LET from == IF Marker(d) > Len(d) THEN 1 ELSE Marker(d) + 1
      node == Parse(SubSeq(d, from, Len(d)))
  IN  IF node = Refused THEN Refused
      ELSE IF ~IsList(node) \/ ~AtomAt(node, 1) THEN Refused ELSE node.list[1].atom[1]

\* "(name value)" after "(name value)".
ParseParamList(d) ==
  LET from[i \in Nat] ==
        IF i > Len(d) THEN <<>>
        ELSE LET one == ParseNode(d, i)
                 rest == IF one = Refused THEN Refused ELSE from[one.pos]
             IN  IF rest = Refused \/ ~IsList(one.node) \/ Len(one.node.list) # 2
                    \/ ~AtomAt(one.node, 1) \/ ~AtomAt(one.node, 2) THEN Refused
                 ELSE <<Param(one.node.list[1].atom[1], one.node.list[2].atom)>> \o rest
  IN  from[1]

\* The secret parameters, with the one seal there is in the world.
Unprotect(k, pass, seal) ==
  IF \/ k.mode # OCB \/ pass = NoPass
     \/ k.sealed # Cipher \/ seal.pass # pass \/ seal.aad # AAD(k, k.at)
    THEN Refused
    ELSE ParseParamList(SubSeq(seal.text, 3, Len(seal.text) - 2))
=============================================================================
