----------------------------- MODULE MCKeyBlock -----------------------------
(* Blocks that are hard to walk, blocks that are hard to repair, and the     *)
(* keyboxes they go into.                                                    *)
EXTENDS KeyBlock

Whole1(ps) == Stream(ps, Total(ps))
Short(tag, head) == Piece("new1", tag, Len(head), head)

Key1 == Short(PublicKey, <<4, 1, 1>>)
Key2 == Short(PublicKey, <<4, 2, 2>>)
Sub1 == Short(PublicSub, <<4, 3, 3>>)
Uid1 == Short(UserID, <<97, 98>>)

Kinds ==
  {Key2, Sub1, Uid1, Short(SecretKey, <<4, 1, 1>>), Short(SecretSub, <<4, 3, 3>>),
   Short(UserAttr, <<1>>), Short(12, <<0, 0>>)} \cup
  {Short(Signature, <<4, t>>) : t \in {0, 16, 24, 31}} \cup
  {Short(Signature, <<3, 5, t>>) : t \in {48, 40}} \cup
  {Short(Signature, <<4>>), Short(Signature, <<3, 24>>)}

Mixed == {Whole1(ps) : ps \in {<<k, l>> : k \in Kinds, l \in Kinds} \cup
                              {<<Key1, k, l>> : k \in Kinds, l \in Kinds} \cup
                              {<<Key1, Uid1, k, l>> : k \in Kinds, l \in Kinds} \cup
                              {<<Key1, Sub1, k, l>> : k \in Kinds, l \in Kinds}}

\* Every way to write a length, at the ends of its range.
Framed(tag) ==
  {Piece(x[1], tag, x[2], <<4, 7, 7>>) :
     x \in {<<"new1", 3>>, <<"new1", 191>>, <<"new2", 192>>, <<"new2", 448>>, <<"new2", 8383>>,
            <<"new5", 3>>, <<"new5", 8384>>, <<"old1", 255>>, <<"old2", 3>>, <<"old2", 256>>,
            <<"old4", 65536>>}}

\* What Walk does not read: the library reads the first, and the last.
Unframed == {Piece("partial", UserID, 3, <<97, 1, 98>>), Piece("garbage", UserID, 3, <<1>>)}
ToTheEnd == Piece("indefinite", UserID, 2, <<97, 98>>)

Pairs == {<<p, Key1>> : p \in {Uid1, Short(Signature, <<4, 24>>)} \cup Unframed} \cup
         {<<k, Uid1>> : k \in Framed(PublicKey)} \cup
         {<<Key1, p>> : p \in Framed(UserID) \cup Framed(PublicSub) \cup Unframed \cup {ToTheEnd}} \cup
         {<<Key1, p, Uid1>> : p \in Unframed}

Cut(ps) == {Stream(ps, len) :
              len \in {Total(ps) - 1, Total(SubSeq(ps, 1, 1)) - 1, Total(SubSeq(ps, 1, 1))} \cup
                      {Total(SubSeq(ps, 1, 1)) + k : k \in 1 .. Len(ps[2].hdr)} \cup {1}}

\* A keybox of GnuPG's, with a version 2 blob, an X.509 blob and padding; one
\* with older copies of both keys.
GnuPGBlob == <<F(4, 144), F(1, OpenPGP), F(1, 2), F(2, 0), F(4, 84), F(4, 40), F(2, 1), F(2, 56),
               F(32, [n |-> 3, body |-> <<5, 9, 9>>]), F(24, "key info"), F(8, "uids"),
               F(40, <<>>), F(20, "checksum")>>
OfGnuPG == <<HeaderBlob, Laid(GnuPGBlob).fields,
             Laid(<<F(4, 50), F(1, 3), F(45, "X.509")>>).fields>>
Padding == <<F(4, 0), F(3, "padding")>>

Ours == <<HeaderBlob, NewOpenPGPBlob(Whole1(<<Key1, Uid1, Uid1>>), 20),
                      NewOpenPGPBlob(Whole1(<<Key2, Uid1, Sub1>>), 20)>>

Import(blocks, boxes, sizes, cuts) ==
  [block : blocks, box : boxes, padding : {<<>>}, fprSize : sizes, cuts : {cuts}]

MCImports ==
  Import(Mixed, {Ours}, {20}, {}) \cup
  Import({Whole1(ps) : ps \in Pairs} \cup UNION {Cut(ps) : ps \in Pairs}, {<<>>}, {20}, {}) \cup
  {[x EXCEPT !.padding = IF x.box = OfGnuPG THEN Padding ELSE <<>>] :
     x \in Import({Whole1(<<Key1, Uid1, Sub1>>), Whole1(<<Key2, Sub1, Key1, Uid1, Uid1>>),
                   Whole1(<<Key2>>)},
                  {<<>>, OfGnuPG, Ours}, {20, 32}, {-4, -3, 0, 1, 15, 16, 60})}

\* Two keys, the second with a certification behind its subkey.
DroppedImports == Import({Whole1(<<Key1, Uid1, Key2, Uid1, Sub1, Short(Signature, <<4, 16>>)>>)},
                         {<<>>}, {20}, {})
=============================================================================
