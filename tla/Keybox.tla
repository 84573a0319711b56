------------------------------- MODULE Keybox -------------------------------
(***************************************************************************)
(* The keybox file: the blobs NewOpenPGPBlob and WriteFile lay out, and    *)
(* what Parse makes of a file of theirs, of GnuPG's, or of one cut off.    *)
(*                                                                         *)
(* A file is a sequence of fields [size, val], laid out one after the      *)
(* other at offsets at; a field that is read at another place, with        *)
(* another size or beyond the end of the file gives Garbage.               *)
(***************************************************************************)
EXTENDS Sanitize, SequencesExt

CONSTANT Garbage

ASSUME GarbageAssumption == Garbage # 0

F(size, val) == [size |-> size, val |-> val]
OpenPGP == 2

\* Where the fields end, one after the other; all together.
Ends(fs) ==
  LET upto[j \in 0 .. Len(fs)] == IF j = 0 THEN 0 ELSE upto[j - 1] + fs[j].size
  IN  upto

Bytesize(fs) == Ends(fs)[Len(fs)]

\* The fields with their offsets; the end of the last one.
Laid(fs) ==
  LET ends == Ends(fs)
  IN  [to |-> ends[Len(fs)],
       fields |-> [j \in DOMAIN fs |-> [at |-> ends[j - 1], size |-> fs[j].size,
                                        val |-> fs[j].val]]]

\* The size bytes at i, if they are a field and are there.
At(file, len, i, size) ==
  LET here == {j \in DOMAIN file : file[j].at = i /\ file[j].size = size}
  IN  IF here = {} \/ i + size > len THEN Garbage ELSE file[Min(here)].val

\* file[from : to], as fields of their own.
Cutout(file, from, to) ==
  LET in == {j \in DOMAIN file : file[j].at >= from /\ file[j].at < to}
      part == IF in = {} THEN <<>> ELSE SubSeq(file, Min(in), Max(in))
  IN  [j \in DOMAIN part |-> [part[j] EXCEPT !.at = @ - from]]

(***************************************************************************)
(* Writing.                                                                *)
(***************************************************************************)
\* The fingerprint of a key packet is that of what is read back behind the
\* header fingerprintOf puts before its body.
Fingerprint(p) ==
  LET hdr == KeyHeader(p.n)
      q == Packet(Stream(<<[hdr |-> hdr, head |-> p.body, n |-> p.n]>>, Len(hdr) + p.n), 0)
  IN  IF q = Refused THEN Refused ELSE [n |-> q.n, body |-> q.body]

\* Deferred writes: every field at the offset of a fixup gets its value.
Fixed(fields, fixups) ==
  [j \in DOMAIN fields |->
    LET here == {x \in fixups : x.offset = fields[j].at}
    IN  IF here = {} THEN fields[j]
        ELSE [fields[j] EXCEPT !.val = (CHOOSE x \in here : TRUE).value]]

Fix(offset, value) == [offset |-> offset, value |-> value]

\* The parts of the blob in front of the keyblock.
Fixed20(nkeys) == <<F(4, 0), F(1, OpenPGP), F(1, 1), F(2, 0), F(4, 0), F(4, 0),
                    F(2, nkeys), F(2, 28)>>
KeyInfo(fpr, fprSize) == <<F(fprSize, fpr), F(4, 0), F(2, 0), F(2, 0)>>
UidInfo(uid) == <<F(4, 0), F(4, uid.n), F(2, 0), F(1, 0), F(1, 0)>>
SigsAndTimes == <<F(2, 0), F(2, 4), F(1, 0), F(1, 0), F(2, 0), F(4, 0), F(4, 0),
                  F(4, 0), F(4, 0)>>

\* The packets with one of tags.
Only(packets, tags) ==
  FlattenSeq([j \in DOMAIN packets |-> IF packets[j].tag \in tags THEN <<packets[j]>> ELSE <<>>])

\* The fields of a blob around a keyblock of len bytes, whose keys have
\* fingerprints of fprSize bytes: laid out first, the offsets filled in
\* afterwards.
BlobAround(len, packets, fprs, fprSize) ==
  LET uids == Only(packets, {UserID})
      Infos(n) == FlattenSeq([k \in 1 .. n |-> KeyInfo(fprs[k], fprSize)])
      Uids(n) == FlattenSeq([u \in 1 .. n |-> UidInfo(uids[u])])
      heads == Fixed20(Len(fprs)) \o Infos(Len(fprs)) \o
               <<F(2, 0), F(2, Len(uids)), F(2, 12)>>
      before == heads \o Uids(Len(uids)) \o SigsAndTimes
      kbstart == Bytesize(before)
      all == before \o <<F(len, packets), F(20, 0)>>
      offKid(k) == Bytesize(Fixed20(0) \o Infos(k - 1)) + fprSize
      uidAddr(u) == Bytesize(heads \o Uids(u - 1))
  IN  Fixed(Laid(all).fields,
            {Fix(0, Bytesize(all)), Fix(8, kbstart), Fix(12, len)}
            \cup {Fix(offKid(k), offKid(k) - 8) : k \in DOMAIN fprs}
            \cup {Fix(uidAddr(u), kbstart + uids[u].off + uids[u].hdr) : u \in DOMAIN uids})

\* The fingerprints of the keys and subkeys among packets.
Fingerprints(packets) ==
  LET keys == Only(packets, {PublicKey, PublicSub})
  IN  [k \in DOMAIN keys |-> Fingerprint(keys[k])]

BlobFor(len, packets, fprs, fprSize) ==
  IF packets = Refused \/ fprs = <<>> \/ Refused \in Range(fprs)
    THEN Refused ELSE BlobAround(len, packets, fprs, fprSize)

NewOpenPGPBlob(keyblock, fprSize) ==
  LET packets == Walk(keyblock)
  IN  BlobFor(keyblock.len, packets, Fingerprints(packets), fprSize)

HeaderBlob == Laid(<<F(4, 32), F(1, 1), F(27, 0)>>).fields

\* A blob that is kept as its bytes.
Opaque(type, raw) == [type |-> type, raw |-> raw, keyblock |-> <<>>, fprs |-> <<>>]

\* A header goes in front of blobs that have none.
Headed(blobs) ==
  IF \E j \in DOMAIN blobs : blobs[j].type = 1 THEN blobs
  ELSE <<Opaque(1, HeaderBlob)>> \o blobs

Raws(blobs) == [j \in DOMAIN blobs |-> blobs[j].raw]

FileOf(blobs) == Laid(FlattenSeq(Raws(Headed(blobs))))

(***************************************************************************)
(* Reading.                                                                *)
(***************************************************************************)
\* parseOpenPGPBlob finds no room for what the blob is to have.
Malformed(raw, size) ==
  LET Read(i, n) == At(raw, size, i, n)
  IN  \/ size < 20
      \/ Read(8, 4) + Read(12, 4) > size
      \/ 20 + Read(16, 2) * Read(18, 2) > size

ParseOpenPGP(raw, size) ==
  LET Read(i, n) == At(raw, size, i, n)
      fprLen == IF Read(5, 1) = 2 THEN 32 ELSE 20
  IN  [type |-> OpenPGP, raw |-> raw, keyblock |-> Read(Read(8, 4), Read(12, 4)),
       fprs |-> [k \in 1 .. Read(16, 2) |-> Read(20 + (k - 1) * Read(18, 2), fprLen)]]

\* <<the blob>>, or <<>> for an error.
ParseRaw(raw, size) ==
  LET type == At(raw, size, 4, 1)
  IN  IF type # OpenPGP THEN <<Opaque(type, raw)>>
      ELSE IF Malformed(raw, size) THEN <<>> ELSE <<ParseOpenPGP(raw, size)>>

ParseBlobTrusting(file, len, i) == \* mutant: the length is believed
  LET length == At(file, len, i, 4)
  IN  IF i + 5 > len THEN <<>> ELSE ParseRaw(Cutout(file, i, i + length), length)

\* The same of the blob that starts at i.
ParseBlob(file, len, i) ==
  LET length == At(file, len, i, 4)
  IN  IF i + 4 > len \/ i + length > len \/ length <= 5 THEN <<>>
      ELSE ParseRaw(Cutout(file, i, i + length), length)

\* One turn of the loop: blob after blob, up to the end or to a length of zero.
ParseNext(file, len, st) ==
  IF st.failed \/ st.at >= len \/ At(file, len, st.at, 4) = 0 THEN st
  ELSE LET b == ParseBlob(file, len, st.at)
       IN  IF b = <<>> THEN [st EXCEPT !.failed = TRUE]
           ELSE [at |-> st.at + At(file, len, st.at, 4), blobs |-> st.blobs \o b, failed |-> FALSE]

\* Every turn takes a field at least.
Parse(file, len) ==
  LET turn[k \in 0 .. Len(file)] ==
        IF k = 0 THEN [at |-> 0, blobs |-> <<>>, failed |-> FALSE]
        ELSE ParseNext(file, len, turn[k - 1])
      end == turn[Len(file)]
  IN  IF end.failed THEN Refused ELSE end.blobs
=============================================================================
