---------------------------- MODULE BlockProofs ----------------------------
(***************************************************************************)
(* Proofs about a block of packets on its way into the keybox and out      *)
(* again: Walk finds the packets of any stream and refuses what is not     *)
(* one, a repair takes away the misplaced signatures and nothing else, and *)
(* a keybox whose save was cut off is read up to a whole blob, or refused. *)
(*                                                                         *)
(* In order: loops; packets and Walk; sanitizeKeyblock; ParseKeys; the     *)
(* fields of a file; reading blob after blob; what NewOpenPGPBlob writes;  *)
(* the keys of a block; what a save puts where.                            *)
(***************************************************************************)
EXTENDS KeyBlock, SequenceLemmas

-----------------------------------------------------------------------------
(* Recursive functions.                                                     *)

\* What a loop over something of S has after each of its N turns.
IsLoop(f, S, a, N, g) ==
    f \in [0..N -> S] /\ f[0] = a /\ \A j \in 1..N : f[j] = g[j][f[j - 1]]

LEMMA IterationExists ==
    ASSUME NEW S, NEW a \in S, NEW N \in Nat, NEW g \in [1..N -> [S -> S]]
    PROVE  \E f : IsLoop(f, S, a, N, g)
<1> DEFINE Is(f, n) == f \in [0..n -> S] /\ f[0] = a /\ \A j \in 1..n : f[j] = g[j][f[j - 1]]
           P == {n \in Nat : n <= N => \E f : Is(f, n)}
<1>1. 0 \in P
    <2>1. Is([j \in 0..0 |-> a], 0)
        OBVIOUS
    <2> HIDE DEF Is
    <2>2. QED BY <2>1
<1>2. ASSUME NEW n \in Nat, n \in P PROVE n + 1 \in P
    <2> SUFFICES ASSUME n + 1 <= N PROVE \E h : Is(h, n + 1)
        OBVIOUS
    <2>1. PICK f : Is(f, n)
        BY <1>2
    <2> DEFINE h == [j \in 0..(n + 1) |-> IF j = n + 1 THEN g[n + 1][f[n]] ELSE f[j]]
    <2>2. n + 1 \in 1..N /\ f[n] \in S /\ g[n + 1] \in [S -> S]
        BY <2>1
    <2>3. g[n + 1][f[n]] \in S
        BY <2>2
    <2>4. \A j \in 0..(n + 1) : j = n + 1 \/ j \in 0..n
        OBVIOUS
    <2>5. h \in [0..(n + 1) -> S]
        BY <2>1, <2>3, <2>4
    <2>6. h[0] = a
        BY <2>1
    <2>7. ASSUME NEW j \in 1..(n + 1) PROVE h[j] = g[j][h[j - 1]]
        <3>1. CASE j = n + 1
            <4>1. h[j] = g[n + 1][f[n]] /\ j - 1 = n /\ n \in 0..(n + 1) /\ n # n + 1
                BY <3>1
            <4>2. h[n] = f[n]
                BY <4>1
            <4>3. QED BY <3>1, <4>1, <4>2
        <3>2. CASE j # n + 1
            <4>1. j \in 1..n /\ j \in 0..(n + 1) /\ j - 1 \in 0..(n + 1) /\ j - 1 # n + 1
                BY <3>2
            <4>2. h[j] = f[j] /\ h[j - 1] = f[j - 1]
                BY <3>2, <4>1
            <4>3. QED BY <2>1, <4>1, <4>2
        <3>3. QED BY <3>1, <3>2
    <2> HIDE DEF h
    <2>8. QED BY <2>5, <2>6, <2>7
<1> HIDE DEF P
<1>3. N \in P
    BY <1>1, <1>2, NatSetInduction
<1>4. PICK f : Is(f, N)
    BY <1>3 DEF P
<1>5. IsLoop(f, S, a, N, g)
    BY <1>4 DEF IsLoop
<1>6. QED BY <1>5

\* A walk from place to place, up to a place of E.
IsWalk(f, E, p, nx) ==
    f = [i \in Nat |-> IF i \in E THEN << >>
                      ELSE IF p[i] = Refused THEN Refused ELSE Before(p[i], f[nx[i]])]

LEMMA WalkExists ==
    ASSUME NEW L \in Nat, NEW E, \A i \in Nat : i >= L => i \in E,
           NEW p, NEW nx \in [Nat -> Nat], \A i \in Nat : nx[i] > i
    PROVE  \E f : IsWalk(f, E, p, nx)
<1> DEFINE Nx(h, i) == IF i \in E THEN << >>
                       ELSE IF p[i] = Refused THEN Refused ELSE Before(p[i], h[nx[i]])
           Is(f, n) == f = [i \in Nat |-> f[i]] /\ \A i \in Nat : i + n >= L => f[i] = Nx(f, i)
           P == {n \in Nat : \E f : Is(f, n)}
<1>1. 0 \in P
    <2>1. Is([i \in Nat |-> << >>], 0)
        OBVIOUS
    <2> HIDE DEF Is
    <2>2. QED BY <2>1
<1>2. ASSUME NEW n \in Nat, n \in P PROVE n + 1 \in P
    <2>1. PICK f : Is(f, n)
        BY <1>2
    <2> HIDE DEF Nx
    <2> DEFINE h == [i \in Nat |-> IF i + n >= L THEN f[i] ELSE Nx(f, i)]
    <2>2. h = [i \in Nat |-> h[i]] /\ \A i \in Nat : h[i] = IF i + n >= L THEN f[i] ELSE Nx(f, i)
        OBVIOUS
    <2> HIDE DEF h
    <2>3. \A i \in Nat : h[i] = Nx(f, i)
        BY <2>1, <2>2
    <2>4. ASSUME NEW i \in Nat, i + (n + 1) >= L PROVE h[i] = Nx(h, i)
        <3>1. nx[i] \in Nat /\ nx[i] + n >= L
            BY <2>4
        <3>2. h[nx[i]] = f[nx[i]]
            BY <2>2, <3>1
        <3>3. Nx(h, i) = Nx(f, i)
            BY <3>2, Zenon DEF Nx
        <3>4. QED BY <2>3, <3>3
    <2>5. Is(h, n + 1)
        BY <2>2, <2>4
    <2> HIDE DEF Is
    <2>6. QED BY <2>5
<1> HIDE DEF P
<1>3. L \in P
    BY <1>1, <1>2, NatSetInduction
<1>4. PICK f : Is(f, L)
    BY <1>3 DEF P
<1>5. \A i \in Nat : f[i] = Nx(f, i)
    <2> HIDE DEF Nx
    <2>1. \A i \in Nat : i + L >= L
        OBVIOUS
    <2>2. QED BY <1>4, <2>1
<1>6. f = [i \in Nat |-> f[i]]
    BY <1>4, Zenon
<1>7. f = [i \in Nat |-> Nx(f, i)]
    <2> HIDE DEF Nx
    <2>1. [i \in Nat |-> f[i]] = [i \in Nat |-> Nx(f, i)]
        BY <1>5
    <2>2. QED BY <1>6, <2>1
<1>8. IsWalk(f, E, p, nx)
    BY <1>7, Zenon DEF IsWalk
<1>9. QED BY <1>8

-----------------------------------------------------------------------------
(* Headers.                                                                 *)

LEMMA HighOctet == \A x \in Octet : x >= 128 => ~(x < 128)
    BY DEF Octet

LEMMA OctetsFacts ==
    ASSUME NEW bytes \in Seq(Octet)
    PROVE  /\ Len(bytes) \in Nat /\ DOMAIN bytes = 1..Len(bytes)
           /\ \A k \in 1..Len(bytes) : bytes[k] \in Octet /\ bytes[k] \in Nat
<1>1. Len(bytes) \in Nat /\ bytes \in [1..Len(bytes) -> Octet] /\ DOMAIN bytes = 1..Len(bytes)
    BY LenProperties
<1>2. Octet \subseteq Nat
    BY DEF Octet
<1>3. QED BY <1>1, <1>2

LEMMA ByOctets ==
    ASSUME NEW n \in Nat
    PROVE  n = 256 * (n \div 256) + (n % 256) /\ n \div 256 \in Nat /\ n % 256 \in 0..255
BY SMT

LEMMA Wider == \A k \in 2..6 : k \in 1..6
OBVIOUS

LEMMA NextOctet ==
    ASSUME NEW n \in Nat
    PROVE  /\ (n \div 256) \div 256 = n \div 256 ^ 2
           /\ ((n \div 256) \div 256) \div 256 = n \div 256 ^ 3
<1>1. 256 ^ 2 = 65536 /\ 256 ^ 3 = 16777216
    BY SMT
<1>2. QED BY <1>1, SMT

\* Two octets, counted from 192.
AreTwo(h, tag, n) == h = << 192 + tag, 192 + ((n - 192) \div 256), (n - 192) % 256 >>

MakeTwo(x, y, n) == x \in 192..223 /\ y \in 0..255 /\ 256 * (x - 192) + y + 192 = n

LEMMA TwoOctets ==
    ASSUME NEW n \in Nat, FormFits("new2", n), NEW tag, NEW h, AreTwo(h, tag, n)
    PROVE  h = << 192 + tag, h[2], h[3] >> /\ MakeTwo(h[2], h[3], n)
<1>0. n \in 192..8383
    BY SMT DEF FormFits
<1>1. PICK m \in Nat : m = n - 192
    BY <1>0
<1>2. PICK q \in Nat : q = m \div 256
    BY ByOctets
<1>3. PICK r \in 0..255 : r = m % 256
    BY ByOctets
<1>4. m = 256 * q + r
    BY <1>2, <1>3, ByOctets
<1>5. m <= 8191
    BY <1>0, <1>1
<1>6. q <= 31
    BY <1>4, <1>5
<1>7. h = << 192 + tag, 192 + q, r >>
    BY <1>1, <1>2, <1>3 DEF AreTwo
<1>8. h[2] = 192 + q /\ h[3] = r /\ h = << 192 + tag, h[2], h[3] >>
    BY <1>7
<1>9. QED BY <1>0, <1>1, <1>4, <1>6, <1>8 DEF MakeTwo

\* A number of at most four octets.
FourFit(n) == n \div 256 ^ 3 \in Octet

MakeFour(s, n) ==
    /\ s = << s[1], s[2], s[3], s[4] >>
    /\ s[1] \in 0..255 /\ s[2] \in 0..255 /\ s[3] \in 0..255 /\ s[4] \in 0..255
    /\ 256 * (256 * (256 * s[1] + s[2]) + s[3]) + s[4] = n

LEMMA FourOctets ==
    ASSUME NEW n \in Nat, FourFit(n)
    PROVE  MakeFour(Bytes(n, 4), n)
<1>1. PICK x \in Nat : x = n \div 256
    BY ByOctets
<1>2. PICK y \in Nat : y = x \div 256
    BY ByOctets
<1>3. PICK z \in Nat : z = y \div 256
    BY ByOctets
<1>4. y = n \div 256 ^ 2 /\ z = n \div 256 ^ 3
    BY <1>1, <1>2, <1>3, NextOctet
<1>5. z \in 0..255 /\ z % 256 = z
    <2>1. z \in 0..255
        BY <1>4 DEF FourFit, Octet
    <2>2. QED BY <2>1, SMT
<1>6. PICK c \in 0..255 : c = y % 256
    BY ByOctets
<1>7. PICK d \in 0..255 : d = x % 256
    BY ByOctets
<1>8. PICK e \in 0..255 : e = n % 256
    BY ByOctets
<1>9. n = 256 * x + e /\ x = 256 * y + d /\ y = 256 * z + c
    BY <1>1, <1>2, <1>3, <1>6, <1>7, <1>8, ByOctets
<1>10. Bytes(n, 4) = << z, c, d, e >>
    <2>1. /\ 4 - 1 = 3 /\ 4 - 2 = 2 /\ 4 - 3 = 1 /\ 4 - 4 = 0 /\ n \div 256 ^ 0 = n
          /\ n \div 256 ^ 1 = x /\ n \div 256 ^ 2 = y /\ n \div 256 ^ 3 = z
        <3>1. 256 ^ 0 = 1 /\ 256 ^ 1 = 256 /\ n \div 1 = n
            BY SMT
        <3>2. QED BY <1>1, <1>4, <3>1
    <2>2. Bytes(n, 4) = << z % 256, y % 256, x % 256, n % 256 >>
        BY <2>1, SMT DEF Bytes
    <2>3. QED BY <1>5, <1>6, <1>7, <1>8, <2>2
<1>11. 256 * (256 * (256 * z + c) + d) + e = n
    BY <1>9
<1>12. PICK s : s = Bytes(n, 4)
    OBVIOUS
<1>13. s = << s[1], s[2], s[3], s[4] >> /\ s[1] = z /\ s[2] = c /\ s[3] = d /\ s[4] = e
    BY <1>10, <1>12
<1>14. MakeFour(s, n)
    BY <1>5, <1>11, <1>13 DEF MakeFour
<1>15. QED BY <1>12, <1>14

LEMMA FewOctets ==
    ASSUME NEW n \in Nat
    PROVE  /\ n < 256 => Bytes(n, 1) = << n >>
           /\ n < 65536 => LET s == Bytes(n, 2)
                           IN  /\ s = << s[1], s[2] >> /\ s[1] \in 0..255 /\ s[2] \in 0..255
                               /\ 256 * s[1] + s[2] = n
<1>1. PICK x \in Nat : x = n \div 256
    BY ByOctets
<1>2. PICK e \in 0..255 : e = n % 256
    BY ByOctets
<1>3. n = 256 * x + e
    BY <1>1, <1>2, ByOctets
<1>4. n \div 256 ^ 0 = n /\ n \div 256 ^ 1 = x
    <2>1. 256 ^ 0 = 1 /\ 256 ^ 1 = 256 /\ n \div 1 = n
        BY SMT
    <2>2. QED BY <1>1, <2>1
<1>5. Bytes(n, 1) = << n % 256 >> /\ Bytes(n, 2) = << x % 256, n % 256 >>
    <2>1. 1 - 1 = 0 /\ 2 - 1 = 1 /\ 2 - 2 = 0
        OBVIOUS
    <2>2. QED BY <1>4, <2>1, SMT DEF Bytes
<1>6. n < 256 => n % 256 = n
    BY SMT
<1>7. n < 65536 => x \in 0..255 /\ x % 256 = x
    <2>1. n < 65536 => x \in 0..255
        BY <1>3
    <2>2. x \in 0..255 => x % 256 = x
        BY SMT
    <2>3. QED BY <2>1, <2>2
<1>8. QED BY <1>2, <1>3, <1>5, <1>6, <1>7

\* v[k] is the number the first k octets make.
Values(v, bytes) ==
    /\ v[0] = 0
    /\ \A k \in 1..Len(bytes) : v[k - 1] \in Nat /\ v[k] = 256 * v[k - 1] + bytes[k]

LEMMA BigIs ==
    ASSUME NEW bytes \in Seq(Octet)
    PROVE  \E v : Values(v, bytes) /\ Big(bytes) = v[Len(bytes)] /\ v[Len(bytes)] \in Nat
<1> DEFINE N == Len(bytes)
           Nx(h, k) == IF k = 0 THEN 0 ELSE 256 * h[k - 1] + bytes[k]
           G == CHOOSE f : f = [k \in 0..N |-> Nx(f, k)]
           add == [k \in 1..N |-> [x \in Nat |-> 256 * x + bytes[k]]]
<1>1. N \in Nat /\ \A k \in 1..N : bytes[k] \in Nat
    BY OctetsFacts DEF Octet
<1>2. Big(bytes) = G[N]
    BY Zenon DEF Big
<1> HIDE DEF N
<1>3. add \in [1..N -> [Nat -> Nat]]
    BY <1>1
<1>4. PICK v : /\ v \in [0..N -> Nat] /\ v[0] = 0
               /\ \A k \in 1..N : v[k] = add[k][v[k - 1]]
    <2> HIDE DEF add
    <2>1. 0 \in Nat
        OBVIOUS
    <2>2. \E f : IsLoop(f, Nat, 0, N, add)
        BY <1>1, <1>3, <2>1, IterationExists
    <2>3. QED BY <2>2 DEF IsLoop
<1>5. \A k \in 1..N : k - 1 \in 0..N /\ k \in 0..N /\ v[k - 1] \in Nat
                     /\ v[k] = 256 * v[k - 1] + bytes[k]
    <2> SUFFICES ASSUME NEW k \in 1..N
                 PROVE  /\ k - 1 \in 0..N /\ k \in 0..N /\ v[k - 1] \in Nat
                        /\ v[k] = 256 * v[k - 1] + bytes[k]
        OBVIOUS
    <2>1. k - 1 \in 0..N /\ k \in 0..N
        BY <1>1
    <2>2. v[k - 1] \in Nat /\ v[k] = add[k][v[k - 1]]
        BY <1>4, <2>1
    <2>3. \A x \in Nat : add[k][x] = 256 * x + bytes[k]
        OBVIOUS
    <2>4. QED BY <2>1, <2>2, <2>3
<1>6. \A k \in 0..N : v[k] = Nx(v, k)
    <2>1. \A k \in 0..N : k = 0 \/ k \in 1..N
        BY <1>1
    <2>2. QED BY <1>4, <1>5, <2>1
<1>7. v = [k \in 0..N |-> Nx(v, k)]
    <2> HIDE DEF Nx
    <2>1. v = [k \in 0..N |-> v[k]]
        BY <1>4
    <2>2. [k \in 0..N |-> v[k]] = [k \in 0..N |-> Nx(v, k)]
        BY <1>6
    <2>3. QED BY <2>1, <2>2
<1>8. G = [k \in 0..N |-> Nx(G, k)]
    <2> HIDE DEF Nx
    <2>1. QED BY <1>7
<1> HIDE DEF G
<1> DEFINE P == {k \in Nat : k <= N => G[k] = v[k]}
<1>9. 0 \in P
    BY <1>1, <1>4, <1>8
<1>10. ASSUME NEW k \in Nat, k \in P PROVE k + 1 \in P
    <2> SUFFICES ASSUME k + 1 <= N PROVE G[k + 1] = v[k + 1]
        OBVIOUS
    <2>1. k + 1 \in 0..N /\ k + 1 \in 1..N /\ (k + 1) - 1 = k /\ k + 1 # 0 /\ k <= N
        BY <1>1
    <2>2. G[k + 1] = 256 * G[k] + bytes[k + 1]
        BY <1>8, <2>1
    <2>3. v[k + 1] = 256 * v[k] + bytes[k + 1]
        BY <1>5, <2>1
    <2>4. QED BY <1>10, <2>1, <2>2, <2>3
<1> HIDE DEF P
<1>11. N \in P
    BY <1>1, <1>9, <1>10, NatSetInduction
<1>12. G[N] = v[N] /\ v[N] \in Nat
    BY <1>1, <1>4, <1>11 DEF P
<1>13. Values(v, bytes) /\ Big(bytes) = v[Len(bytes)] /\ v[Len(bytes)] \in Nat
    BY <1>2, <1>4, <1>5, <1>12 DEF N, Values
<1>14. QED BY <1>13

LEMMA BigFacts ==
    ASSUME NEW b \in Seq(Octet)
    PROVE  /\ Big(b) \in Nat
           /\ Len(b) = 1 => Big(b) = b[1]
           /\ Len(b) = 2 => Big(b) = 256 * b[1] + b[2]
           /\ Len(b) = 4 => Big(b) = 256 * (256 * (256 * b[1] + b[2]) + b[3]) + b[4]
<1>1. PICK v : Values(v, b) /\ Big(b) = v[Len(b)] /\ v[Len(b)] \in Nat
    BY BigIs
<1>2. \A k \in 1..Len(b) : b[k] \in Nat
    BY OctetsFacts
<1>3. Len(b) = 1 => Big(b) = b[1]
    <2> SUFFICES ASSUME Len(b) = 1 PROVE Big(b) = b[1]
        OBVIOUS
    <2>1. v[1] = 256 * v[0] + b[1] /\ v[0] = 0 /\ b[1] \in Nat
        BY <1>1, <1>2 DEF Values
    <2>2. QED BY <1>1, <2>1
<1>4. Len(b) = 2 => Big(b) = 256 * b[1] + b[2]
    <2> SUFFICES ASSUME Len(b) = 2 PROVE Big(b) = 256 * b[1] + b[2]
        OBVIOUS
    <2>1. v[1] = 256 * v[0] + b[1] /\ v[2] = 256 * v[1] + b[2] /\ v[0] = 0
          /\ b[1] \in Nat /\ b[2] \in Nat
        BY <1>1, <1>2 DEF Values
    <2>2. QED BY <1>1, <2>1
<1>5. Len(b) = 4 => Big(b) = 256 * (256 * (256 * b[1] + b[2]) + b[3]) + b[4]
    <2> SUFFICES ASSUME Len(b) = 4
                 PROVE  Big(b) = 256 * (256 * (256 * b[1] + b[2]) + b[3]) + b[4]
        OBVIOUS
    <2>1. /\ v[1] = 256 * v[0] + b[1] /\ v[2] = 256 * v[1] + b[2]
          /\ v[3] = 256 * v[2] + b[3] /\ v[4] = 256 * v[3] + b[4] /\ v[0] = 0
        BY <1>1 DEF Values
    <2>2. b[1] \in Nat /\ b[2] \in Nat /\ b[3] \in Nat /\ b[4] \in Nat
        BY <1>2
    <2>3. v[1] = b[1]
        BY <2>1, <2>2
    <2>4. QED BY <1>1, <2>1, <2>3
<1>6. QED BY <1>1, <1>3, <1>4, <1>5

\* Walk can read header h as tag and length n.
ReadsAs(h, tag, n) ==
    /\ h \in Seq(Octet) /\ Len(h) \in 2..6 /\ h[1] >= 128
    /\ LengthBytes(h[1], h[2]) = Len(h) - 1
    /\ tag = IF h[1] >= 192 THEN h[1] - 192 ELSE (h[1] - 128) \div 4
    /\ \A b \in Seq(Octet) :
          Len(b) = Len(h) - 1 /\ (\A j \in 1..Len(b) : b[j] = h[j + 1])
            => BodyLength(h[1] >= 192, b) = n

\* It cannot read h.
Unreadable(h) ==
    /\ h \in Seq(Octet) /\ Len(h) \in 1..2
    /\ \/ h[1] < 128
       \/ Len(h) = 1 /\ \A x \in Octet : LengthBytes(h[1], x) = 0
       \/ Len(h) = 2 /\ LengthBytes(h[1], h[2]) = 0

LEMMA NewOne ==
    ASSUME NEW tag \in 0..63, NEW n \in Nat, n < 192, NEW h, h = << 192 + tag, n >>
    PROVE  ReadsAs(h, tag, n)
<1>1. h \in Seq(Octet) /\ Len(h) = 2 /\ h[1] = 192 + tag /\ h[2] = n
    BY DEF Octet
<1>2. LengthBytes(h[1], h[2]) = 1
    BY <1>1, SMT DEF LengthBytes
<1>3. ASSUME NEW b \in Seq(Octet), Len(b) = Len(h) - 1, \A j \in 1..Len(b) : b[j] = h[j + 1]
      PROVE  BodyLength(h[1] >= 192, b) = n
    <2>1. Len(b) = 1 /\ b[1] = h[2]
        BY <1>1, <1>3
    <2>2. Big(b) = b[1]
        BY <2>1, BigFacts
    <2>3. BodyLength(h[1] >= 192, b) = Big(b)
        BY <2>1, SMT DEF BodyLength
    <2>4. QED BY <1>1, <2>1, <2>2, <2>3
<1>4. QED BY <1>1, <1>2, <1>3, SMT DEF ReadsAs

LEMMA NewTwo ==
    ASSUME NEW tag \in 0..63, NEW n \in Nat, FormFits("new2", n), NEW h, AreTwo(h, tag, n)
    PROVE  ReadsAs(h, tag, n)
<1>1. h = << 192 + tag, h[2], h[3] >> /\ MakeTwo(h[2], h[3], n)
    BY TwoOctets
<1>2. PICK x : x = h[2]
    OBVIOUS
<1>3. PICK y : y = h[3]
    OBVIOUS
<1>4. /\ h = << 192 + tag, x, y >> /\ x \in 192..223 /\ y \in 0..255
      /\ 256 * (x - 192) + y + 192 = n
    BY <1>1, <1>2, <1>3 DEF MakeTwo
<1>5. h \in Seq(Octet) /\ Len(h) = 3 /\ h[1] = 192 + tag /\ h[2] = x /\ h[3] = y
    BY <1>4, SMT DEF Octet
<1>6. LengthBytes(h[1], h[2]) = 2
    BY <1>4, <1>5, SMT DEF LengthBytes
<1>7. ASSUME NEW b \in Seq(Octet), Len(b) = Len(h) - 1, \A j \in 1..Len(b) : b[j] = h[j + 1]
      PROVE  BodyLength(h[1] >= 192, b) = n
    <2>1. h[1] >= 192 /\ Len(b) = 2 /\ b[1] = h[2] /\ b[2] = h[3]
        BY <1>5, <1>7
    <2>2. BodyLength(h[1] >= 192, b) = 256 * (b[1] - 192) + b[2] + 192
        BY <2>1, SMT DEF BodyLength
    <2>3. QED BY <1>4, <1>5, <2>1, <2>2
<1>8. QED BY <1>5, <1>6, <1>7, SMT DEF ReadsAs

IsFive(h, tag, n) == h = << 192 + tag, 255 >> \o Bytes(n, 4)

LEMMA NewFive ==
    ASSUME NEW tag \in 0..63, NEW n \in Nat, FourFit(n), NEW h, IsFive(h, tag, n)
    PROVE  ReadsAs(h, tag, n)
<1>1. PICK s : s = Bytes(n, 4)
    OBVIOUS
<1>2. /\ s = << s[1], s[2], s[3], s[4] >>
      /\ s[1] \in 0..255 /\ s[2] \in 0..255 /\ s[3] \in 0..255 /\ s[4] \in 0..255
      /\ 256 * (256 * (256 * s[1] + s[2]) + s[3]) + s[4] = n
    <2>1. MakeFour(s, n)
        BY <1>1, FourOctets
    <2>2. QED BY <2>1 DEF MakeFour
<1>3. /\ h \in Seq(Octet) /\ Len(h) = 6 /\ h[1] = 192 + tag
      /\ h[2] = 255 /\ h[3] = s[1] /\ h[4] = s[2] /\ h[5] = s[3] /\ h[6] = s[4]
    <2>1. PICK u : u = << 192 + tag, 255 >>
        OBVIOUS
    <2>2. u \in Seq(Octet) /\ Len(u) = 2 /\ u[1] = 192 + tag /\ u[2] = 255
        BY <2>1 DEF Octet
    <2>3. s \in Seq(Octet) /\ Len(s) = 4
        <3>1. << s[1], s[2], s[3], s[4] >> \in Seq(Octet) /\ Len(<< s[1], s[2], s[3], s[4] >>) = 4
            BY <1>2 DEF Octet
        <3>2. QED BY <1>2, <3>1, Zenon
    <2>4. h = u \o s
        BY <1>1, <2>1, Zenon DEF IsFive
    <2>5. /\ h \in Seq(Octet) /\ Len(h) = Len(u) + Len(s)
          /\ \A i \in 1..(Len(u) + Len(s)) : h[i] = IF i <= Len(u) THEN u[i] ELSE s[i - Len(u)]
        <3>1. u \in Seq(Octet) /\ s \in Seq(Octet)
            BY <2>2, <2>3
        <3>2. QED BY <2>4, <3>1, ConcatProperties
    <2>6. QED BY <2>2, <2>3, <2>5
<1>4. LengthBytes(h[1], h[2]) = 5
    <2>1. h[1] >= 192 /\ h[2] = 255
        BY <1>3
    <2>2. QED BY <2>1, SMT DEF LengthBytes
<1>5. ASSUME NEW b \in Seq(Octet), Len(b) = Len(h) - 1, \A j \in 1..Len(b) : b[j] = h[j + 1]
      PROVE  BodyLength(h[1] >= 192, b) = n
    <2>1. h[1] >= 192 /\ Len(b) = 5
        BY <1>3, <1>5
    <2>2. BodyLength(h[1] >= 192, b) = Big(Tail(b))
        BY <2>1, SMT DEF BodyLength
    <2>3. b # << >>
        BY <2>1, EmptySeq, SMTT(30)
    <2>4. PICK t : t = Tail(b)
        OBVIOUS
    <2>5. t \in Seq(Octet) /\ Len(t) = Len(b) - 1 /\ \A i \in 1..Len(t) : t[i] = b[i + 1]
        BY <2>3, <2>4, HeadTailProperties
    <2>6. Len(t) = 4 /\ t[1] = h[3] /\ t[2] = h[4] /\ t[3] = h[5] /\ t[4] = h[6]
        <3>1. Len(t) = 4 /\ t[1] = b[2] /\ t[2] = b[3] /\ t[3] = b[4] /\ t[4] = b[5]
            BY <2>1, <2>5
        <3>2. b[2] = h[2 + 1] /\ b[3] = h[3 + 1] /\ b[4] = h[4 + 1] /\ b[5] = h[5 + 1]
            <4>1. 2 \in 1..Len(b) /\ 3 \in 1..Len(b) /\ 4 \in 1..Len(b) /\ 5 \in 1..Len(b)
                BY <2>1
            <4>2. QED BY <1>5, <4>1
        <3>3. QED BY <3>1, <3>2
    <2>7. Big(t) = 256 * (256 * (256 * t[1] + t[2]) + t[3]) + t[4]
        BY <2>5, <2>6, BigFacts
    <2>8. /\ h[3] = s[1] /\ h[4] = s[2] /\ h[5] = s[3] /\ h[6] = s[4]
          /\ 256 * (256 * (256 * s[1] + s[2]) + s[3]) + s[4] = n
        BY <1>2, <1>3
    <2>9. Big(t) = n
        BY <2>6, <2>7, <2>8
    <2>10. QED BY <2>2, <2>4, <2>9
<1>6. QED BY <1>3, <1>4, <1>5, SMT DEF ReadsAs

\* An old header: two bits say how many octets the length has.
OldByte(x, tag, r) == x = 128 + r + 4 * tag

LEMMA OldFirst ==
    ASSUME NEW tag \in 0..15, NEW r \in 0..3, NEW x, OldByte(x, tag, r)
    PROVE  x \in 128..191 /\ x \in Octet /\ x % 4 = r /\ (x - 128) \div 4 = tag
BY SMT DEF Octet, OldByte

OldHeader(h, x, s) == h = << x >> \o s

OldLength(r) == IF r = 0 THEN 1 ELSE IF r = 1 THEN 2 ELSE 4

LEMMA OldReads ==
    ASSUME NEW tag \in 0..15, NEW r \in 0..2, NEW x, OldByte(x, tag, r),
           NEW n, NEW s \in Seq(Octet), Big(s) = n, Len(s) = OldLength(r),
           NEW h, OldHeader(h, x, s)
    PROVE  ReadsAs(h, tag, n)
<1>1. x \in 128..191 /\ x \in Octet /\ x % 4 = r /\ (x - 128) \div 4 = tag
    <2>1. r \in 0..3
        OBVIOUS
    <2>2. QED BY <2>1, OldFirst
<1>2. Len(s) \in 1..4 /\ Len(s) = IF r = 0 THEN 1 ELSE IF r = 1 THEN 2 ELSE 4
    BY DEF OldLength
<1>3. /\ h \in Seq(Octet) /\ Len(h) = 1 + Len(s) /\ h[1] = x
      /\ \A j \in 1..Len(s) : h[j + 1] = s[j]
    <2>1. PICK u : u = << x >>
        OBVIOUS
    <2>2. u \in Seq(Octet) /\ Len(u) = 1 /\ u[1] = x
        BY <1>1, <2>1
    <2>3. h = u \o s
        BY <2>1, Zenon DEF OldHeader, OldByte
    <2>4. /\ h \in Seq(Octet) /\ Len(h) = Len(u) + Len(s)
          /\ \A i \in 1..(Len(u) + Len(s)) : h[i] = IF i <= Len(u) THEN u[i] ELSE s[i - Len(u)]
        BY <2>2, <2>3, ConcatProperties
    <2>5. /\ Len(h) = 1 + Len(s)
          /\ \A i \in 1..(1 + Len(s)) : h[i] = IF i <= 1 THEN u[i] ELSE s[i - 1]
        BY <2>2, <2>4
    <2>6. \A j \in 1..Len(s) : j + 1 \in 1..(1 + Len(s)) /\ ~(j + 1 <= 1) /\ (j + 1) - 1 = j
        BY <1>2
    <2>7. \A j \in 1..Len(s) : h[j + 1] = s[j]
        BY <2>5, <2>6
    <2>8. h[1] = x
        BY <1>2, <2>2, <2>5
    <2>9. QED BY <2>4, <2>5, <2>7, <2>8
<1>4. LengthBytes(h[1], h[2]) = Len(h) - 1
    <2>1. ~(h[1] >= 192) /\ h[1] % 4 = r /\ r \in 0..2
        BY <1>1, <1>3
    <2>2. \A first, l1 : ~(first >= 192) /\ first % 4 = r =>
            LengthBytes(first, l1) = IF r = 0 THEN 1 ELSE IF r = 1 THEN 2 ELSE 4
        BY <2>1, SMT DEF LengthBytes
    <2>3. QED BY <1>2, <1>3, <2>1, <2>2
<1>5. ASSUME NEW b \in Seq(Octet), Len(b) = Len(h) - 1, \A j \in 1..Len(b) : b[j] = h[j + 1]
      PROVE  BodyLength(h[1] >= 192, b) = n
    <2>1. Len(b) = Len(s)
        BY <1>2, <1>3, <1>5
    <2>2. \A j \in 1..Len(b) : b[j] = s[j]
        BY <1>3, <1>5, <2>1
    <2>3. b = s
        BY <2>1, <2>2, SeqEqual
    <2>4. ~(h[1] >= 192)
        BY <1>1, <1>3
    <2>5. BodyLength(h[1] >= 192, b) = Big(b)
        BY <2>4, SMT DEF BodyLength
    <2>6. QED BY <2>3, <2>5
<1>6. /\ h[1] >= 128 /\ Len(h) \in 2..6
      /\ tag = IF h[1] >= 192 THEN h[1] - 192 ELSE (h[1] - 128) \div 4
    BY <1>1, <1>2, <1>3
<1>7. QED BY <1>3, <1>4, <1>5, <1>6 DEF ReadsAs

Definite(p) == p.form \in NewForms \cup OldForms

LEMMA PieceFields ==
    ASSUME NEW p \in Pieces
    PROVE  /\ p.form \in Forms /\ p.tag \in 0..63 /\ p.n \in Nat /\ p.hdr \in Seq(Octet)
           /\ p.head \in Seq(Octet) /\ p.hdr = HeaderBytes(p.form, p.tag, p.n)
           /\ FormFits(p.form, p.n) /\ FourFit(p.n)
           /\ p.form \in OldForms \cup {"indefinite"} => p.tag \in 0..15
<1>1. /\ p \in [form : Forms, tag : 0 .. 63, n : Nat, hdr : Seq(Octet), head : Seq(Octet)]
      /\ p = Piece(p.form, p.tag, p.n, p.head)
      /\ FormFits(p.form, p.n) /\ FourFit(p.n)
      /\ p.form \in OldForms \cup {"indefinite"} => p.tag < 16
    BY Zenon DEF Pieces, FourFit
<1>2. /\ p.form \in Forms /\ p.tag \in 0..63 /\ p.n \in Nat /\ p.hdr \in Seq(Octet)
      /\ p.head \in Seq(Octet)
    BY <1>1
<1>3. p.hdr = HeaderBytes(p.form, p.tag, p.n)
    BY <1>1 DEF Piece
<1>4. p.form \in OldForms \cup {"indefinite"} => p.tag \in 0..15
    <2>1. p.form \in OldForms \cup {"indefinite"} => p.tag < 16
        BY <1>1
    <2>2. \A k \in 0..63 : k < 16 => k \in 0..15
        OBVIOUS
    <2>3. QED BY <1>2, <2>1, <2>2, Zenon
<1>5. QED BY <1>1, <1>2, <1>3, <1>4

LEMMA PieceRead ==
    ASSUME NEW p \in Pieces
    PROVE  IF Definite(p) THEN ReadsAs(p.hdr, p.tag, p.n) ELSE Unreadable(p.hdr)
<1> DEFINE h == p.hdr  tag == p.tag  n == p.n
<1>1. /\ p.form \in Forms /\ tag \in 0..63 /\ n \in Nat /\ h \in Seq(Octet)
      /\ h = HeaderBytes(p.form, tag, n) /\ FormFits(p.form, n) /\ FourFit(n)
      /\ p.form \in OldForms \cup {"indefinite"} => tag \in 0..15
    BY PieceFields
<1> HIDE DEF h, tag, n
<1>2. CASE p.form = "new1"
    <2>1. h = << 192 + tag, n >> /\ n < 192
        BY <1>1, <1>2, SMT DEF HeaderBytes, FormFits
    <2>2. ReadsAs(h, tag, n)
        BY <1>1, <2>1, NewOne
    <2>3. Definite(p)
        BY <1>2 DEF Definite, NewForms
    <2>4. QED BY <2>2, <2>3 DEF h, tag, n
<1>3. CASE p.form = "new2"
    <2>1. AreTwo(h, tag, n) /\ FormFits("new2", n)
        BY <1>1, <1>3, SMT DEF HeaderBytes, AreTwo
    <2>2. ReadsAs(h, tag, n)
        BY <1>1, <2>1, NewTwo
    <2>3. Definite(p)
        BY <1>3 DEF Definite, NewForms
    <2>4. QED BY <2>2, <2>3 DEF h, tag, n
<1>4. CASE p.form = "new5"
    <2>1. IsFive(h, tag, n)
        BY <1>1, <1>4, SMT DEF HeaderBytes, IsFive
    <2>2. ReadsAs(h, tag, n)
        BY <1>1, <2>1, NewFive
    <2>3. Definite(p)
        BY <1>4 DEF Definite, NewForms
    <2>4. QED BY <2>2, <2>3 DEF h, tag, n
<1>5. CASE p.form = "old1"
    <2>1. PICK x : OldByte(x, tag, 0)
        BY DEF OldByte
    <2>2. PICK s : s = Bytes(n, 1)
        OBVIOUS
    <2>3. OldHeader(h, x, s) /\ n < 256
        BY <1>1, <1>5, <2>1, <2>2, SMT DEF HeaderBytes, FormFits, OldHeader, OldByte
    <2>4. s = << n >>
        BY <1>1, <2>2, <2>3, FewOctets
    <2>5. s \in Seq(Octet) /\ Len(s) = 1 /\ s[1] = n
        BY <1>1, <2>3, <2>4 DEF Octet
    <2>6. Big(s) = n
        BY <2>5, BigFacts
    <2>7. tag \in 0..15 /\ 0 \in 0..2 /\ OldLength(0) = 1 /\ Definite(p)
        BY <1>1, <1>5 DEF OldForms, Definite, OldLength
    <2>8. ReadsAs(h, tag, n)
        BY <2>1, <2>3, <2>5, <2>6, <2>7, OldReads
    <2>9. QED BY <2>7, <2>8 DEF h, tag, n
<1>6. CASE p.form = "old2"
    <2>1. PICK x : OldByte(x, tag, 1)
        BY DEF OldByte
    <2>2. PICK s : s = Bytes(n, 2)
        OBVIOUS
    <2>3. OldHeader(h, x, s) /\ n < 65536
        BY <1>1, <1>6, <2>1, <2>2, SMT DEF HeaderBytes, FormFits, OldHeader, OldByte
    <2>4. /\ s = << s[1], s[2] >> /\ s[1] \in 0..255 /\ s[2] \in 0..255
          /\ 256 * s[1] + s[2] = n
        BY <1>1, <2>2, <2>3, FewOctets
    <2>5. s \in Seq(Octet) /\ Len(s) = 2
        <3>1. << s[1], s[2] >> \in Seq(Octet) /\ Len(<< s[1], s[2] >>) = 2
            BY <2>4 DEF Octet
        <3>2. QED BY <2>4, <3>1, Zenon
    <2>6. Big(s) = n
        BY <2>4, <2>5, BigFacts
    <2>7. tag \in 0..15 /\ 1 \in 0..2 /\ OldLength(1) = 2 /\ Definite(p)
        BY <1>1, <1>6 DEF OldForms, Definite, OldLength
    <2>8. OldHeader(h, x, s) /\ Len(s) = OldLength(1)
        BY <2>3, <2>5, <2>7
    <2>9. ReadsAs(h, tag, n)
        BY <2>1, <2>5, <2>6, <2>7, <2>8, OldReads
    <2>10. QED BY <2>7, <2>9 DEF h, tag, n
<1>7. CASE p.form = "old4"
    <2>1. PICK x : OldByte(x, tag, 2)
        BY DEF OldByte
    <2>2. PICK s : s = Bytes(n, 4)
        OBVIOUS
    <2>3. OldHeader(h, x, s)
        BY <1>1, <1>7, <2>1, <2>2, SMT DEF HeaderBytes, OldHeader, OldByte
    <2>4. MakeFour(s, n)
        BY <1>1, <2>2, FourOctets
    <2>5. s \in Seq(Octet) /\ Len(s) = 4 /\ Big(s) = n
        <3>1. s \in Seq(Octet) /\ Len(s) = 4
            <4>1. /\ s = << s[1], s[2], s[3], s[4] >> /\ s[1] \in 0..255 /\ s[2] \in 0..255
                  /\ s[3] \in 0..255 /\ s[4] \in 0..255
                BY <2>4 DEF MakeFour
            <4>2. /\ << s[1], s[2], s[3], s[4] >> \in Seq(Octet)
                  /\ Len(<< s[1], s[2], s[3], s[4] >>) = 4
                BY <4>1 DEF Octet
            <4>3. QED BY <4>1, <4>2, Zenon
        <3>2. QED BY <2>4, <3>1, BigFacts DEF MakeFour
    <2>6. tag \in 0..15 /\ 2 \in 0..2 /\ OldLength(2) = 4 /\ Definite(p)
        BY <1>1, <1>7 DEF OldForms, Definite, OldLength
    <2>7. ReadsAs(h, tag, n)
        BY <2>1, <2>3, <2>5, <2>6, OldReads
    <2>8. QED BY <2>6, <2>7 DEF h, tag, n
<1>8. CASE p.form = "partial"
    <2>1. h = << 192 + tag, 224 >>
        BY <1>1, <1>8, SMT DEF HeaderBytes
    <2>2. Len(h) = 2 /\ h[1] >= 192 /\ h[2] = 224
        BY <1>1, <2>1
    <2>3. LengthBytes(h[1], h[2]) = 0
        BY <2>2, SMT DEF LengthBytes
    <2>4. ~Definite(p)
        BY <1>8 DEF Definite, NewForms, OldForms
    <2>5. QED BY <1>1, <2>2, <2>3, <2>4 DEF Unreadable, h
<1>9. CASE p.form = "indefinite"
    <2>1. h = << 131 + 4 * tag >> /\ tag \in 0..15
        BY <1>1, <1>9, SMT DEF HeaderBytes
    <2>2. Len(h) = 1 /\ OldByte(h[1], tag, 3) /\ 3 \in 0..3
        BY <2>1 DEF OldByte
    <2>3. h[1] \in 128..191 /\ h[1] % 4 = 3
        BY <2>1, <2>2, OldFirst
    <2>4. \A x \in Octet : LengthBytes(h[1], x) = 0
        BY <2>3, SMT DEF LengthBytes
    <2>5. ~Definite(p)
        BY <1>9 DEF Definite, NewForms, OldForms
    <2>6. QED BY <1>1, <2>2, <2>4, <2>5 DEF Unreadable, h
<1>10. CASE p.form = "garbage"
    <2>1. h = << tag >>
        BY <1>1, <1>10, SMT DEF HeaderBytes
    <2>2. Len(h) = 1 /\ h[1] < 128
        BY <1>1, <2>1
    <2>3. ~Definite(p)
        BY <1>10 DEF Definite, NewForms, OldForms
    <2>4. QED BY <1>1, <2>2, <2>3 DEF Unreadable, h
<1>11. QED BY <1>1, <1>2, <1>3, <1>4, <1>5, <1>6, <1>7, <1>8, <1>9, <1>10
          DEF Forms, NewForms, OldForms, OtherForms

-----------------------------------------------------------------------------
(* Where the pieces of a stream are.                                        *)

LEMMA SizeFacts ==
    ASSUME NEW p \in Pieces
    PROVE  /\ Len(p.hdr) \in 1..6 /\ Size(p) \in Nat /\ Size(p) >= 1
           /\ Size(p) = Len(p.hdr) + p.n
<1>1. p.n \in Nat /\ p.hdr \in Seq(Octet)
    BY PieceFields
<1>2. Len(p.hdr) \in 1..6
    <2>1. IF Definite(p) THEN ReadsAs(p.hdr, p.tag, p.n) ELSE Unreadable(p.hdr)
        BY PieceRead
    <2>2. Len(p.hdr) \in 2..6 \/ Len(p.hdr) \in 1..2
        BY <2>1, Zenon DEF ReadsAs, Unreadable
    <2>3. QED BY <2>2
<1>3. \A k \in 1..6, n \in Nat : k + n \in Nat /\ k + n >= 1
    OBVIOUS
<1>4. Size(p) = Len(p.hdr) + p.n
    BY Zenon DEF Size
<1>5. QED BY <1>1, <1>2, <1>3, <1>4, Zenon

\* t[j] is the size of the first j pieces.
Sums(t, ps) ==
    /\ t \in [0..Len(ps) -> Nat] /\ t[0] = 0
    /\ \A j \in 1..Len(ps) : t[j - 1] \in Nat /\ t[j] \in Nat /\ t[j] = t[j - 1] + Size(ps[j])

LEMMA TotalIs ==
    ASSUME NEW ps \in Seq(Pieces)
    PROVE  \E t : Sums(t, ps) /\ Total(ps) = t[Len(ps)]
<1> DEFINE N == Len(ps)
           Nx(h, j) == IF j = 0 THEN 0 ELSE h[j - 1] + Size(ps[j])
           G == CHOOSE f : f = [j \in 0..N |-> Nx(f, j)]
           add == [j \in 1..N |-> [x \in Nat |-> x + Size(ps[j])]]
<1>1. N \in Nat /\ \A j \in 1..N : Size(ps[j]) \in Nat
    <2>1. N \in Nat /\ \A j \in 1..N : ps[j] \in Pieces
        BY LenProperties
    <2>2. QED BY <2>1, SizeFacts
<1>2. Total(ps) = G[N]
    BY Zenon DEF Total
<1> HIDE DEF N
<1>3. add \in [1..N -> [Nat -> Nat]]
    BY <1>1
<1>4. PICK t : /\ t \in [0..N -> Nat] /\ t[0] = 0
               /\ \A j \in 1..N : t[j] = add[j][t[j - 1]]
    <2> HIDE DEF add
    <2>1. 0 \in Nat
        OBVIOUS
    <2>2. \E f : IsLoop(f, Nat, 0, N, add)
        BY <1>1, <1>3, <2>1, IterationExists
    <2>3. QED BY <2>2 DEF IsLoop
<1>5. \A j \in 1..N : j - 1 \in 0..N /\ j \in 0..N /\ t[j - 1] \in Nat /\ t[j] \in Nat
                     /\ t[j] = t[j - 1] + Size(ps[j])
    <2> SUFFICES ASSUME NEW j \in 1..N
                 PROVE  /\ j - 1 \in 0..N /\ j \in 0..N /\ t[j - 1] \in Nat /\ t[j] \in Nat
                        /\ t[j] = t[j - 1] + Size(ps[j])
        OBVIOUS
    <2>1. j - 1 \in 0..N /\ j \in 0..N
        BY <1>1
    <2>2. t[j - 1] \in Nat /\ t[j] \in Nat /\ t[j] = add[j][t[j - 1]]
        BY <1>4, <2>1
    <2>3. \A x \in Nat : add[j][x] = x + Size(ps[j])
        OBVIOUS
    <2>4. QED BY <2>1, <2>2, <2>3
<1>6. \A j \in 0..N : t[j] = Nx(t, j)
    <2>1. \A j \in 0..N : j = 0 \/ j \in 1..N
        BY <1>1
    <2>2. QED BY <1>4, <1>5, <2>1
<1>7. t = [j \in 0..N |-> Nx(t, j)]
    <2> HIDE DEF Nx
    <2>1. t = [j \in 0..N |-> t[j]]
        BY <1>4
    <2>2. [j \in 0..N |-> t[j]] = [j \in 0..N |-> Nx(t, j)]
        BY <1>6
    <2>3. QED BY <2>1, <2>2
<1>8. G = [j \in 0..N |-> Nx(G, j)]
    <2> HIDE DEF Nx
    <2>1. QED BY <1>7
<1> HIDE DEF G
<1> DEFINE P == {j \in Nat : j <= N => G[j] = t[j]}
<1>9. 0 \in P
    BY <1>1, <1>4, <1>8
<1>10. ASSUME NEW j \in Nat, j \in P PROVE j + 1 \in P
    <2> SUFFICES ASSUME j + 1 <= N PROVE G[j + 1] = t[j + 1]
        OBVIOUS
    <2>1. j + 1 \in 0..N /\ j + 1 \in 1..N /\ (j + 1) - 1 = j /\ j + 1 # 0 /\ j <= N
        BY <1>1
    <2>2. G[j + 1] = G[j] + Size(ps[j + 1])
        BY <1>8, <2>1
    <2>3. t[j + 1] = t[j] + Size(ps[j + 1])
        BY <1>5, <2>1
    <2>4. QED BY <1>10, <2>1, <2>2, <2>3
<1> HIDE DEF P
<1>11. N \in P
    BY <1>1, <1>9, <1>10, NatSetInduction
<1>12. G[N] = t[N]
    BY <1>1, <1>11 DEF P
<1>13. Sums(t, ps) /\ Total(ps) = t[Len(ps)]
    BY <1>2, <1>4, <1>5, <1>12 DEF N, Sums
<1>14. QED BY <1>13

\* The sums of the first m pieces are the first sums.
LEMMA TotalOfFirst ==
    ASSUME NEW ps \in Seq(Pieces), NEW t, Sums(t, ps), NEW m \in 0..Len(ps)
    PROVE  /\ SubSeq(ps, 1, m) \in Seq(Pieces) /\ Len(SubSeq(ps, 1, m)) = m
           /\ \A j \in 1..m : SubSeq(ps, 1, m)[j] = ps[j]
           /\ Total(SubSeq(ps, 1, m)) = t[m]
<1> DEFINE qs == SubSeq(ps, 1, m)
<1>0. Len(ps) \in Nat /\ m \in Nat /\ \A j \in 1..m : j \in 1..Len(ps)
    BY LenProperties
<1>1. qs \in Seq(Pieces) /\ Len(qs) = m /\ \A j \in 1..m : qs[j] = ps[j]
    <2>1. 1 \in 1..(Len(ps) + 1) /\ m \in (1 - 1)..Len(ps)
        BY <1>0
    <2>2. qs \in Seq(Pieces) /\ Len(qs) = m /\ \A j \in 1..m : qs[j] = ps[1 + j - 1]
        <3>1. \A j \in 1..Len(ps) : ps[j] \in Pieces
            BY <1>0
        <3>2. QED BY <1>0, <3>1 
    <2>3. \A j \in 1..m : 1 + j - 1 = j
        BY <1>0
    <2>4. QED BY <2>2, <2>3
<1> HIDE DEF qs
<1>2. PICK u : Sums(u, qs) /\ Total(qs) = u[Len(qs)]
    BY <1>1, TotalIs
<1> DEFINE P == {j \in Nat : j <= m => u[j] = t[j]}
<1>3. 0 \in P
    BY <1>2 DEF Sums
<1>4. ASSUME NEW j \in Nat, j \in P PROVE j + 1 \in P
    <2> SUFFICES ASSUME j + 1 <= m PROVE u[j + 1] = t[j + 1]
        OBVIOUS
    <2>1. j + 1 \in 1..m /\ (j + 1) - 1 = j /\ j <= m
        BY <1>0
    <2>2. u[j + 1] = u[j] + Size(qs[j + 1])
        BY <1>1, <1>2, <2>1 DEF Sums
    <2>3. t[j + 1] = t[j] + Size(ps[j + 1])
        BY <1>0, <2>1 DEF Sums
    <2>4. QED BY <1>1, <1>4, <2>1, <2>2, <2>3
<1> HIDE DEF P
<1>5. m \in P
    BY <1>0, <1>3, <1>4, NatSetInduction
<1>6. u[m] = t[m]
    BY <1>0, <1>5 DEF P
<1>7. QED BY <1>1, <1>2, <1>6 DEF qs

LEMMA SumsGrow ==
    ASSUME NEW ps \in Seq(Pieces), NEW t, Sums(t, ps)
    PROVE  \A j, k \in 0..Len(ps) : j < k => t[j] < t[k]
<1>0. Len(ps) \in Nat /\ \A j \in 1..Len(ps) : Size(ps[j]) \in Nat /\ Size(ps[j]) >= 1
    <2>1. Len(ps) \in Nat /\ \A j \in 1..Len(ps) : ps[j] \in Pieces
        BY LenProperties
    <2>2. QED BY <2>1, SizeFacts
<1> DEFINE P == {k \in Nat : k <= Len(ps) => \A j \in 0..Len(ps) : j < k => t[j] < t[k]}
<1>1. 0 \in P
    OBVIOUS
<1>2. ASSUME NEW k \in Nat, k \in P PROVE k + 1 \in P
    <2> SUFFICES ASSUME k + 1 <= Len(ps), NEW j \in 0..Len(ps), j < k + 1 PROVE t[j] < t[k + 1]
        OBVIOUS
    <2>1. k + 1 \in 1..Len(ps) /\ (k + 1) - 1 = k /\ k <= Len(ps)
        BY <1>0
    <2>2. t[k] \in Nat /\ t[k + 1] = t[k] + Size(ps[k + 1])
        BY <2>1 DEF Sums
    <2>3. j = k \/ t[j] < t[k]
        BY <1>2, <2>1
    <2>4. t[j] \in Nat
        BY DEF Sums
    <2>5. t[k] < t[k + 1]
        BY <1>0, <2>1, <2>2
    <2>6. QED BY <1>0, <2>1, <2>2, <2>3, <2>4, <2>5
<1> HIDE DEF P
<1>3. Nat \subseteq P
    BY <1>1, <1>2, NatSetInduction
<1>4. QED BY <1>0, <1>3 DEF P

\* Every byte is a byte of one piece.
LEMMA SumsCover ==
    ASSUME NEW ps \in Seq(Pieces), NEW t, Sums(t, ps), NEW i \in Nat, i < t[Len(ps)]
    PROVE  \E j \in 1..Len(ps) : t[j - 1] <= i /\ i < t[j]
<1>0. Len(ps) \in Nat
    BY LenProperties
<1> DEFINE P == {k \in Nat : k <= Len(ps) /\ i < t[k]
                               => \E j \in 1..Len(ps) : t[j - 1] <= i /\ i < t[j]}
<1>1. 0 \in P
    BY DEF Sums
<1>2. ASSUME NEW k \in Nat, k \in P PROVE k + 1 \in P
    <2> SUFFICES ASSUME k + 1 <= Len(ps), i < t[k + 1]
                 PROVE  \E j \in 1..Len(ps) : t[j - 1] <= i /\ i < t[j]
        OBVIOUS
    <2>1. k + 1 \in 1..Len(ps) /\ (k + 1) - 1 = k /\ k <= Len(ps)
        BY <1>0
    <2>2. t[k] \in Nat
        BY <2>1 DEF Sums
    <2>3. CASE i < t[k]
        BY <1>2, <2>1, <2>3
    <2>4. CASE t[k] <= i
        BY <2>1, <2>4
    <2>5. QED BY <2>2, <2>3, <2>4
<1> HIDE DEF P
<1>3. Len(ps) \in P
    BY <1>0, <1>1, <1>2, NatSetInduction
<1>4. QED BY <1>0, <1>3 DEF P

\* t says where the pieces of stream s end.
Laying(t, s) ==
    /\ s.pieces \in Seq(Pieces) /\ Sums(t, s.pieces) /\ s.len \in 0..t[Len(s.pieces)]
    /\ \A j \in 1..Len(s.pieces) : s.starts[j] = t[j - 1]

LEMMA LayingExists ==
    ASSUME NEW s, IsStream(s)
    PROVE  \E t : Laying(t, s)
<1> DEFINE ps == s.pieces
<1>1. ps \in Seq(Pieces) /\ s.len \in 0..Total(ps) /\ s = Stream(ps, s.len)
    BY DEF IsStream
<1>2. s.starts = [j \in DOMAIN ps |-> Total(SubSeq(ps, 1, j - 1))]
    <2>1. s.starts = Stream(ps, s.len).starts
        BY <1>1, Zenon
    <2>2. Stream(ps, s.len).starts = [j \in DOMAIN ps |-> Total(SubSeq(ps, 1, j - 1))]
        BY Zenon DEF Stream
    <2>3. QED BY <2>1, <2>2, Zenon
<1> HIDE DEF ps
<1>3. PICK t : Sums(t, ps) /\ Total(ps) = t[Len(ps)]
    BY <1>1, TotalIs
<1>4. Len(ps) \in Nat /\ DOMAIN ps = 1..Len(ps)
    BY <1>1, LenProperties
<1>5. ASSUME NEW j \in 1..Len(ps) PROVE s.starts[j] = t[j - 1]
    <2>1. j - 1 \in 0..Len(ps)
        BY <1>4
    <2>2. Total(SubSeq(ps, 1, j - 1)) = t[j - 1]
        BY <1>1, <1>3, <2>1, TotalOfFirst
    <2>3. QED BY <1>2, <1>4, <2>2
<1>6. Laying(t, s)
    BY <1>1, <1>3, <1>5 DEF Laying, ps
<1>7. QED BY <1>6

LEMMA LayingFacts ==
    ASSUME NEW s, NEW t, Laying(t, s)
    PROVE  /\ s.pieces \in Seq(Pieces) /\ Len(s.pieces) \in Nat
           /\ DOMAIN s.pieces = 1..Len(s.pieces)
           /\ t[0] = 0 /\ \A j \in 0..Len(s.pieces) : t[j] \in Nat
           /\ \A j, k \in 0..Len(s.pieces) : j < k => t[j] < t[k]
           /\ s.len \in Nat /\ s.len <= t[Len(s.pieces)]
           /\ \A j \in 1..Len(s.pieces) :
                 /\ j - 1 \in 0..Len(s.pieces) /\ j \in 0..Len(s.pieces)
                 /\ s.pieces[j] \in Pieces
                 /\ s.starts[j] = t[j - 1] /\ t[j] = t[j - 1] + Size(s.pieces[j])
<1>1. s.pieces \in Seq(Pieces) /\ Sums(t, s.pieces) /\ s.len \in 0..t[Len(s.pieces)]
      /\ \A j \in 1..Len(s.pieces) : s.starts[j] = t[j - 1]
    BY Zenon DEF Laying
<1> DEFINE ps == s.pieces
<1>2. /\ Len(ps) \in Nat /\ DOMAIN ps = 1..Len(ps)
      /\ \A j \in 1..Len(ps) : ps[j] \in Pieces
    BY <1>1, LenProperties
<1>3. t[0] = 0 /\ t \in [0..Len(ps) -> Nat]
      /\ \A j \in 1..Len(ps) : t[j] = t[j - 1] + Size(ps[j])
    BY <1>1 DEF Sums
<1>4. \A j, k \in 0..Len(ps) : j < k => t[j] < t[k]
    BY <1>1, SumsGrow
<1> HIDE DEF ps
<1>5. \A j \in 0..Len(ps) : t[j] \in Nat
    BY <1>3
<1>6. \A j \in 1..Len(ps) : j - 1 \in 0..Len(ps) /\ j \in 0..Len(ps)
    BY <1>2
<1>7. s.len \in Nat /\ s.len <= t[Len(ps)]
    <2>1. Len(ps) \in 0..Len(ps)
        BY <1>2
    <2>2. t[Len(ps)] \in Nat
        BY <1>5, <2>1
    <2>3. QED BY <1>1, <2>2 DEF ps
<1>8. QED BY <1>1, <1>2, <1>3, <1>4, <1>5, <1>6, <1>7, Zenon DEF ps

\* Byte k of piece p.
ByteOf(p, k) ==
    IF k <= Len(p.hdr) THEN p.hdr[k]
    ELSE IF k - Len(p.hdr) \in DOMAIN p.head THEN p.head[k - Len(p.hdr)] ELSE 0

LEMMA ByteOfOctet ==
    ASSUME NEW p \in Pieces, NEW k \in Nat \ {0}
    PROVE  ByteOf(p, k) \in Octet
<1>1. p.hdr \in Seq(Octet) /\ p.head \in Seq(Octet)
    BY PieceFields
<1> DEFINE h == p.hdr  b == p.head
<1>2. h \in Seq(Octet) /\ b \in Seq(Octet)
    BY <1>1
<1>3. ByteOf(p, k) = IF k <= Len(h) THEN h[k]
                     ELSE IF k - Len(h) \in DOMAIN b THEN b[k - Len(h)] ELSE 0
    BY Zenon DEF ByteOf
<1> HIDE DEF h, b
<1>4. /\ Len(h) \in Nat /\ \A j \in 1..Len(h) : h[j] \in Octet
      /\ DOMAIN b = 1..Len(b) /\ \A j \in 1..Len(b) : b[j] \in Octet
    BY <1>2, OctetsFacts
<1>5. 0 \in Octet
    BY DEF Octet
<1>6. k <= Len(h) => k \in 1..Len(h)
    BY <1>4
<1>7. QED BY <1>3, <1>4, <1>5, <1>6

LEMMA ByteIs ==
    ASSUME NEW s, NEW t, Laying(t, s), NEW j \in 1..Len(s.pieces),
           NEW i \in Nat, t[j - 1] <= i, i < t[j]
    PROVE  Byte(s, i) = ByteOf(s.pieces[j], i - t[j - 1] + 1)
<1> DEFINE ps == s.pieces
           In(k) == i \in s.starts[k] .. s.starts[k] + Size(s.pieces[k]) - 1
           c == CHOOSE k \in DOMAIN s.pieces : In(k)
<1>1. /\ Len(ps) \in Nat /\ DOMAIN ps = 1..Len(ps)
      /\ \A k \in 0..Len(ps) : t[k] \in Nat
      /\ \A k, l \in 0..Len(ps) : k < l => t[k] < t[l]
      /\ \A k \in 1..Len(ps) : /\ k - 1 \in 0..Len(ps) /\ k \in 0..Len(ps) /\ ps[k] \in Pieces
                               /\ s.starts[k] = t[k - 1] /\ t[k] = t[k - 1] + Size(ps[k])
    BY LayingFacts
<1>2. \A k \in 1..Len(ps) : Size(ps[k]) \in Nat
    BY <1>1, SizeFacts
<1>3. ASSUME NEW k \in 1..Len(ps) PROVE In(k) <=> t[k - 1] <= i /\ i < t[k]
    <2>1. In(k) <=> i \in t[k - 1] .. t[k - 1] + Size(ps[k]) - 1
        BY <1>1, Zenon
    <2>2. t[k - 1] \in Nat /\ Size(ps[k]) \in Nat /\ t[k] = t[k - 1] + Size(ps[k])
        BY <1>1, <1>2
    <2>3. QED BY <2>1, <2>2
<1>4. Byte(s, i) = (LET at == i - s.starts[c] + 1
                    IN  CASE at <= Len(ps[c].hdr) -> ps[c].hdr[at]
                          [] at - Len(ps[c].hdr) \in DOMAIN ps[c].head
                               -> ps[c].head[at - Len(ps[c].hdr)]
                          [] OTHER -> 0)
    BY DEF Byte
<1> HIDE DEF In
<1>5. c \in 1..Len(ps) /\ In(c)
    <2>1. j \in DOMAIN s.pieces /\ In(j)
        BY <1>1, <1>3
    <2>2. c \in DOMAIN s.pieces /\ In(c)
        BY <2>1
    <2>3. QED BY <1>1, <2>2
<1> HIDE DEF c
<1>6. c = j
    <2>1. t[c - 1] <= i /\ i < t[c]
        BY <1>3, <1>5
    <2>2. /\ c - 1 \in 0..Len(ps) /\ c \in 0..Len(ps) /\ j - 1 \in 0..Len(ps) /\ j \in 0..Len(ps)
        BY <1>1, <1>5
    <2>3. t[c - 1] \in Nat /\ t[c] \in Nat /\ t[j - 1] \in Nat /\ t[j] \in Nat
        BY <1>1, <2>2
    <2>4. ~(c < j)
        <3>1. c < j => c = j - 1 \/ c < j - 1
            BY <2>2
        <3>2. c < j - 1 => t[c] < t[j - 1]
            BY <1>1, <2>2
        <3>3. c < j => t[c] <= t[j - 1]
            BY <2>3, <3>1, <3>2
        <3>4. QED BY <2>1, <2>3, <3>3
    <2>5. ~(j < c)
        <3>1. j < c => j = c - 1 \/ j < c - 1
            BY <2>2
        <3>2. j < c - 1 => t[j] < t[c - 1]
            BY <1>1, <2>2
        <3>3. j < c => t[j] <= t[c - 1]
            BY <2>3, <3>1, <3>2
        <3>4. QED BY <2>1, <2>3, <3>3
    <2>6. QED BY <2>2, <2>4, <2>5
<1>7. s.starts[c] = t[j - 1]
    BY <1>1, <1>6
<1>8. PICK at : at = i - t[j - 1] + 1
    OBVIOUS
<1>9. PICK p : p = ps[j]
    OBVIOUS
<1>10. Byte(s, i) = CASE at <= Len(p.hdr) -> p.hdr[at]
                      [] at - Len(p.hdr) \in DOMAIN p.head -> p.head[at - Len(p.hdr)]
                      [] OTHER -> 0
    BY <1>4, <1>6, <1>7, <1>8, <1>9, Zenon
<1>11. Len(p.hdr) \in Nat /\ DOMAIN p.head \subseteq Nat \ {0} /\ at \in Int
    <2>1. p.hdr \in Seq(Octet) /\ p.head \in Seq(Octet)
        BY <1>1, <1>9, PieceFields
    <2>2. Len(p.hdr) \in Nat /\ DOMAIN p.head = 1..Len(p.head)
        BY <2>1, OctetsFacts
    <2>3. t[j - 1] \in Nat
        BY <1>1
    <2>4. QED BY <1>8, <2>2, <2>3
<1>12. at <= Len(p.hdr) => ~(at - Len(p.hdr) \in DOMAIN p.head)
    BY <1>11
<1>13. Byte(s, i) = ByteOf(p, at)
    <2>1. CASE at <= Len(p.hdr)
        BY <1>10, <1>12, <2>1 DEF ByteOf
    <2>2. CASE ~(at <= Len(p.hdr))
        BY <1>10, <2>2 DEF ByteOf
    <2>3. QED BY <2>1, <2>2
<1>14. QED BY <1>8, <1>9, <1>13

LEMMA ByteOctet ==
    ASSUME NEW s, NEW t, Laying(t, s), NEW i \in Nat, i < s.len
    PROVE  Byte(s, i) \in Octet
<1> DEFINE ps == s.pieces
<1>1. /\ ps \in Seq(Pieces) /\ s.len \in Nat /\ s.len <= t[Len(ps)] /\ Len(ps) \in 0..Len(ps)
      /\ \A k \in 0..Len(ps) : t[k] \in Nat
      /\ \A k \in 1..Len(ps) : /\ k - 1 \in 0..Len(ps) /\ k \in 0..Len(ps) /\ ps[k] \in Pieces
    BY LayingFacts
<1>2. i < t[Len(ps)]
    BY <1>1
<1>3. PICK j \in 1..Len(ps) : t[j - 1] <= i /\ i < t[j]
    BY <1>1, <1>2, SumsCover DEF Laying
<1>4. Byte(s, i) = ByteOf(ps[j], i - t[j - 1] + 1)
    BY <1>3, ByteIs
<1>5. i - t[j - 1] + 1 \in Nat \ {0}
    <2>1. t[j - 1] \in Nat
        BY <1>1
    <2>2. QED BY <1>3, <2>1
<1>6. QED BY <1>1, <1>4, <1>5, ByteOfOctet

-----------------------------------------------------------------------------
(* One turn of Walk's loop.                                                 *)

LEMMA LengthBytesValues ==
    ASSUME NEW first, NEW l1
    PROVE  /\ LengthBytes(first, l1) \in {0, 1, 2, 4, 5}
           /\ first >= 192 /\ LengthBytes(first, l1) = 2 => l1 \in 192..223
           /\ LengthBytes(first, l1) = 5 => first >= 192
           /\ first >= 192 => LengthBytes(first, l1) # 4
BY SMT DEF LengthBytes

LEMMA SliceFacts ==
    ASSUME NEW s, NEW t, Laying(t, s), NEW i \in Nat, NEW k \in Nat, i + k <= s.len
    PROVE  /\ Slice(s, i, k) \in Seq(Octet) /\ Len(Slice(s, i, k)) = k
           /\ \A j \in 1..k : Slice(s, i, k)[j] = Byte(s, i + j - 1)
<1>1. s.len \in Nat
    BY LayingFacts
<1>2. \A j \in 1..k : i + j - 1 \in Nat /\ i + j - 1 < s.len
    BY <1>1
<1>3. \A j \in 1..k : Byte(s, i + j - 1) \in Octet
    BY <1>2, ByteOctet
<1>4. QED BY <1>3 DEF Slice

LEMMA BodyLengthNat ==
    ASSUME NEW first \in Nat, NEW b \in Seq(Octet),
           Len(b) \in {1, 2, 4, 5}, (first >= 192 /\ Len(b) = 2) => b[1] \in 192..223
    PROVE  BodyLength(first >= 192, b) \in Nat
<1>1. CASE first >= 192 /\ Len(b) = 2
    <2>1. b[1] \in 192..223 /\ b[2] \in Nat
        <3>1. b[1] \in 192..223 /\ 2 \in 1..Len(b)
            BY <1>1
        <3>2. QED BY <3>1, OctetsFacts
    <2>2. BodyLength(first >= 192, b) = 256 * (b[1] - 192) + b[2] + 192
        BY <1>1, SMT DEF BodyLength
    <2>3. \A x \in 192..223, y \in Nat : 256 * (x - 192) + y + 192 \in Nat
        OBVIOUS
    <2>4. PICK m : m = BodyLength(first >= 192, b)
        OBVIOUS
    <2>5. m = 256 * (b[1] - 192) + b[2] + 192
        BY <2>2, <2>4, Zenon
    <2>6. 256 * (b[1] - 192) + b[2] + 192 \in Nat
        BY <2>1, <2>3, ZenonT(60)
    <2>7. QED BY <2>4, <2>5, <2>6, Zenon
<1>2. CASE first >= 192 /\ Len(b) = 5
    <2>1. b # << >>
        BY <1>2, EmptySeq
    <2>2. PICK c : c = Tail(b)
        OBVIOUS
    <2>3. c \in Seq(Octet)
        BY <2>1, <2>2, HeadTailProperties
    <2>4. Big(c) \in Nat
        BY <2>3, BigFacts
    <2>5. BodyLength(first >= 192, b) = Big(Tail(b))
        BY <1>2, SMT DEF BodyLength
    <2>6. QED BY <2>2, <2>4, <2>5
<1>3. CASE ~(first >= 192 /\ Len(b) \in {2, 5})
    <2>1. BodyLength(first >= 192, b) = Big(b)
        BY <1>3, SMT DEF BodyLength
    <2>2. QED BY <2>1, BigFacts
<1>4. QED BY <1>1, <1>2, <1>3

LEMMA PacketTyped ==
    ASSUME NEW s, NEW t, Laying(t, s), NEW i \in Nat, i < s.len
    PROVE  /\ Packet(s, i) # Refused => /\ Packet(s, i) \in Packets /\ Packet(s, i).off = i
                                       /\ i + Packet(s, i).hdr + Packet(s, i).n <= s.len
<1>0. s.len \in Nat
    BY LayingFacts
<1>1. PICK first : first = Byte(s, i)
    OBVIOUS
<1>2. first \in Octet
    BY <1>1, ByteOctet
<1>3. PICK l1 : l1 = IF i + 1 < s.len THEN Byte(s, i + 1) ELSE 0
    OBVIOUS
<1>4. PICK k : k = LengthBytes(first, l1)
    OBVIOUS
<1>5. /\ k \in {0, 1, 2, 4, 5}
      /\ first >= 192 /\ k = 2 => l1 \in 192..223
    BY <1>4, LengthBytesValues
<1>6. PICK b : b = Slice(s, i + 1, k)
    OBVIOUS
<1>7. PICK n : n = BodyLength(first >= 192, b)
    OBVIOUS
<1>8. Packet(s, i) = PacketAt(s, i, first, k, n)
    BY <1>1, <1>3, <1>4, <1>6, <1>7, ZenonT(60) DEF Packet
<1>9. SUFFICES ASSUME Packet(s, i) # Refused
               PROVE  /\ Packet(s, i) \in Packets /\ Packet(s, i).off = i
                      /\ i + Packet(s, i).hdr + Packet(s, i).n <= s.len
    OBVIOUS
<1>10. /\ ~(first < 128) /\ k # 0 /\ ~(i + k >= s.len) /\ ~(i + 1 + k + n > s.len)
       /\ Packet(s, i) = [tag |-> IF first >= 192 THEN first - 192 ELSE (first - 128) \div 4,
                          off |-> i, hdr |-> 1 + k, n |-> n,
                          body |-> Slice(s, i + 1 + k, IF n < 3 THEN n ELSE 3)]
    BY <1>8, <1>9, Zenon DEF PacketAt
<1>11. k \in {1, 2, 4, 5} /\ i + 1 + k <= s.len
    <2>1. k \in {0, 1, 2, 4, 5} /\ k # 0 /\ ~(i + k >= s.len)
        BY <1>5, <1>10, Zenon
    <2>2. QED BY <1>0, <2>1
<1>12. b \in Seq(Octet) /\ Len(b) = k /\ b[1] = Byte(s, i + 1)
    <2>1. i + 1 \in Nat /\ k \in Nat /\ (i + 1) + k <= s.len /\ 1 \in 1..k /\ (i + 1) + 1 - 1 = i + 1
        BY <1>11
    <2>2. b \in Seq(Octet) /\ Len(b) = k /\ b[1] = Byte(s, (i + 1) + 1 - 1)
        BY <1>6, <2>1, SliceFacts
    <2>3. QED BY <2>1, <2>2
<1>13. l1 = b[1]
    BY <1>0, <1>3, <1>11, <1>12
<1>14. n \in Nat
    <2>1. Len(b) \in {1, 2, 4, 5} /\ (first >= 192 /\ Len(b) = 2 => b[1] \in 192..223)
        BY <1>5, <1>11, <1>12, <1>13
    <2>2. first \in Nat
        BY <1>2 DEF Octet
    <2>3. QED BY <1>7, <1>12, <2>1, <2>2, BodyLengthNat
<1>15. i + 1 + k + n <= s.len
    BY <1>0, <1>10, <1>11, <1>14
<1>16. PICK m : m = IF n < 3 THEN n ELSE 3
    OBVIOUS
<1>17. m \in Nat /\ m <= n
    BY <1>14, <1>16
<1>18. Slice(s, i + 1 + k, m) \in Seq(Octet)
    <2>1. i + 1 + k \in Nat /\ (i + 1 + k) + m <= s.len
        BY <1>0, <1>11, <1>14, <1>15, <1>17
    <2>2. QED BY <1>17, <2>1, SliceFacts
<1>19. PICK tag : tag = IF first >= 192 THEN first - 192 ELSE (first - 128) \div 4
    OBVIOUS
<1>20. tag \in 0..63
    BY <1>2, <1>10, <1>19, SMT DEF Octet
<1>21. PICK body : body = Slice(s, i + 1 + k, m)
    OBVIOUS
<1>22. Packet(s, i) = [tag |-> tag, off |-> i, hdr |-> 1 + k, n |-> n, body |-> body]
    BY <1>10, <1>16, <1>19, <1>21, Zenon
<1>23. 1 + k \in 2..6
    BY <1>11
<1>24. body \in Seq(Octet)
    BY <1>18, <1>21
<1>25. [tag |-> tag, off |-> i, hdr |-> 1 + k, n |-> n, body |-> body] \in Packets
    BY Wider, <1>14, <1>20, <1>23, <1>24, Zenon DEF Packets
<1>26. Packet(s, i).off = i /\ Packet(s, i).hdr = 1 + k /\ Packet(s, i).n = n
    BY <1>22
<1>27. i + (1 + k) + n <= s.len
    BY <1>11, <1>14, <1>15
<1>28. QED BY <1>22, <1>25, <1>26, <1>27, Zenon

\* Walk's loop, from place i.
WalkBody(s, f, i) ==
    IF i >= s.len THEN << >>
    ELSE LET p == Packet(s, i)
         IN  IF p = Refused THEN Refused ELSE Before(p, f[i + p.hdr + p.n])

LEMMA WalkEquation ==
    ASSUME NEW s, NEW t, Laying(t, s)
    PROVE  \E f : Walk(s) = f[0] /\ \A i \in Nat : f[i] = WalkBody(s, f, i)
<1> DEFINE E == {i \in Nat : i >= s.len}
           p == [i \in Nat |-> Packet(s, i)]
           nx == [i \in Nat |-> IF i \in E \/ Packet(s, i) = Refused THEN i + 1
                                ELSE i + Packet(s, i).hdr + Packet(s, i).n]
           G == CHOOSE f : f = [i \in Nat |-> WalkBody(s, f, i)]
<1>0. s.len \in Nat
    BY LayingFacts
<1>1. Walk(s) = G[0]
    BY Zenon DEF Walk, WalkBody
<1>2. ASSUME NEW i \in Nat PROVE nx[i] \in Nat /\ nx[i] > i
    <2>1. CASE i \in E \/ Packet(s, i) = Refused
        BY <2>1
    <2>2. CASE ~(i \in E \/ Packet(s, i) = Refused)
        <3>1. i < s.len
            BY <1>0, <2>2
        <3>2. Packet(s, i) \in Packets
            BY <2>2, <3>1, PacketTyped
        <3>3. Packet(s, i).hdr \in 1..6 /\ Packet(s, i).n \in Nat
            BY <3>2 DEF Packets
        <3>4. nx[i] = i + Packet(s, i).hdr + Packet(s, i).n
            BY <2>2
        <3>5. \A x \in 1..6, y \in Nat : i + x + y \in Nat /\ i + x + y > i
            OBVIOUS
        <3>6. QED BY <3>3, <3>4, <3>5, Zenon
    <2>3. QED BY <2>1, <2>2
<1>3. /\ nx \in [Nat -> Nat] /\ \A i \in Nat : nx[i] > i
    <2>1. nx = [i \in Nat |-> nx[i]]
        OBVIOUS
    <2> HIDE DEF nx
    <2>2. QED BY <1>2, <2>1
<1>4. \A i \in Nat : i >= s.len => i \in E
    OBVIOUS
<1>5. ASSUME NEW f, NEW i \in Nat
      PROVE  (IF i \in E THEN << >> ELSE IF p[i] = Refused THEN Refused
              ELSE Before(p[i], f[nx[i]])) = WalkBody(s, f, i)
    <2>1. i \in E <=> i >= s.len
        OBVIOUS
    <2>2. p[i] = Packet(s, i)
        OBVIOUS
    <2>3. ~(i \in E) /\ Packet(s, i) # Refused
            => nx[i] = i + Packet(s, i).hdr + Packet(s, i).n
        OBVIOUS
    <2> HIDE DEF E, p, nx
    <2>4. QED BY <2>1, <2>2, <2>3, Zenon DEF WalkBody
<1> HIDE DEF E, p, nx
<1>6. PICK f : f = [i \in Nat |-> IF i \in E THEN << >>
                                  ELSE IF p[i] = Refused THEN Refused
                                  ELSE Before(p[i], f[nx[i]])]
    <2> DEFINE L == s.len
    <2>1. L \in Nat /\ \A i \in Nat : i >= L => i \in E
        BY <1>0, <1>4
    <2> HIDE DEF L
    <2>2. \E f : IsWalk(f, E, p, nx)
        BY <1>3, <2>1, WalkExists
    <2>3. QED BY <2>2, Zenon DEF IsWalk
<1>7. f = [i \in Nat |-> WalkBody(s, f, i)]
    <2>1. [i \in Nat |-> IF i \in E THEN << >>
                         ELSE IF p[i] = Refused THEN Refused
                         ELSE Before(p[i], f[nx[i]])] = [i \in Nat |-> WalkBody(s, f, i)]
        BY <1>5
    <2>2. QED BY <1>6, <2>1, Zenon
<1>8. G = [i \in Nat |-> WalkBody(s, G, i)]
    BY <1>7
<1> HIDE DEF G
<1>9. \A i \in Nat : G[i] = WalkBody(s, G, i)
    BY <1>8
<1>10. QED BY <1>1, <1>9

-----------------------------------------------------------------------------
(* What Walk finds at the start of a piece.                                 *)

LEMMA ByteInPiece ==
    ASSUME NEW s, NEW t, Laying(t, s), NEW j \in 1..Len(s.pieces),
           NEW k \in Nat \ {0}, k <= Size(s.pieces[j])
    PROVE  Byte(s, t[j - 1] + k - 1) = ByteOf(s.pieces[j], k)
<1>1. /\ s.pieces[j] \in Pieces /\ t[j - 1] \in Nat
      /\ t[j] = t[j - 1] + Size(s.pieces[j]) /\ Size(s.pieces[j]) \in Nat
    <2>1. /\ j - 1 \in 0..Len(s.pieces) /\ s.pieces[j] \in Pieces
          /\ t[j] = t[j - 1] + Size(s.pieces[j])
        BY LayingFacts
    <2>2. t[j - 1] \in Nat
        BY <2>1, LayingFacts
    <2>3. QED BY <2>1, <2>2, SizeFacts
<1>2. PICK i : i = t[j - 1] + k - 1
    OBVIOUS
<1>3. i \in Nat /\ t[j - 1] <= i /\ i < t[j] /\ i - t[j - 1] + 1 = k
    BY <1>1, <1>2
<1>4. Byte(s, i) = ByteOf(s.pieces[j], i - t[j - 1] + 1)
    BY <1>3, ByteIs
<1>5. QED BY <1>2, <1>3, <1>4

\* The first bytes of a body.
LEMMA BodyStart ==
    ASSUME NEW s, NEW t, Laying(t, s), NEW j \in 1..Len(s.pieces), NEW m \in 0..3,
           m <= s.pieces[j].n
    PROVE  Slice(s, t[j - 1] + Len(s.pieces[j].hdr), m)
             = SubSeq(s.pieces[j].head \o << 0, 0, 0 >>, 1, m)
<1>1. PICK p : p = s.pieces[j]
    OBVIOUS
<1>2. p \in Pieces /\ t[j - 1] \in Nat
    BY <1>1, LayingFacts
<1>3. PICK h : h = p.hdr
    OBVIOUS
<1>4. PICK b : b = p.head
    OBVIOUS
<1>5. /\ h \in Seq(Octet) /\ b \in Seq(Octet) /\ Len(h) \in Nat /\ Len(b) \in Nat
      /\ DOMAIN b = 1..Len(b) /\ p.n \in Nat /\ Size(p) = Len(h) + p.n
    <2>1. h \in Seq(Octet) /\ b \in Seq(Octet) /\ p.n \in Nat
        BY <1>2, <1>3, <1>4, PieceFields
    <2>2. Size(p) = Len(h) + p.n
        BY <1>2, <1>3, SizeFacts
    <2>3. QED BY <2>1, <2>2, OctetsFacts
<1>6. PICK z : z = << 0, 0, 0 >>
    OBVIOUS
<1>7. z \in Seq(Octet) /\ Len(z) = 3 /\ \A q \in 1..3 : z[q] = 0
    BY <1>6 DEF Octet
<1>8. PICK bz : bz = b \o z
    OBVIOUS
<1>9. /\ bz \in Seq(Octet) /\ Len(bz) = Len(b) + 3
      /\ \A q \in 1..(Len(b) + 3) : bz[q] = IF q <= Len(b) THEN b[q] ELSE z[q - Len(b)]
    <2>1. /\ bz \in Seq(Octet) /\ Len(bz) = Len(b) + Len(z)
          /\ \A q \in 1..(Len(b) + Len(z)) : bz[q] = IF q <= Len(b) THEN b[q] ELSE z[q - Len(b)]
        BY <1>5, <1>7, <1>8, ConcatProperties
    <2>2. QED BY <1>7, <2>1
<1>10. ASSUME NEW q \in 1..m PROVE Byte(s, t[j - 1] + Len(h) + q - 1) = bz[q]
    <2>1. q \in Nat \ {0} /\ q <= 3 /\ q <= p.n
        <3>1. m <= p.n
            BY <1>1
        <3>2. QED BY <1>5, <3>1
    <2>2. Len(h) + q \in Nat \ {0} /\ Len(h) + q <= Size(p)
        BY <1>5, <2>1
    <2>3. Byte(s, t[j - 1] + (Len(h) + q) - 1) = ByteOf(p, Len(h) + q)
        BY <1>1, <2>2, ByteInPiece
    <2>4. t[j - 1] + (Len(h) + q) - 1 = t[j - 1] + Len(h) + q - 1
        BY <1>2, <1>5
    <2>5. ~(Len(h) + q <= Len(h)) /\ (Len(h) + q) - Len(h) = q
        BY <1>5
    <2>6. ByteOf(p, Len(h) + q) = IF q \in DOMAIN b THEN b[q] ELSE 0
        BY <1>3, <1>4, <2>5, Zenon DEF ByteOf
    <2>7. bz[q] = IF q \in DOMAIN b THEN b[q] ELSE 0
        <3>1. q \in 1..(Len(b) + 3)
            BY <1>5, <2>1
        <3>2. bz[q] = IF q <= Len(b) THEN b[q] ELSE z[q - Len(b)]
            BY <1>9, <3>1
        <3>3. q <= Len(b) <=> q \in DOMAIN b
            BY <1>5, <2>1
        <3>4. ~(q <= Len(b)) => q - Len(b) \in 1..3
            BY <1>5, <2>1
        <3>5. QED BY <1>7, <3>2, <3>3, <3>4
    <2>8. QED BY <2>3, <2>4, <2>6, <2>7
<1>11. PICK i : i = t[j - 1] + Len(h)
    OBVIOUS
<1>12. Slice(s, i, m) = [q \in 1..m |-> bz[q]]
    BY <1>10, <1>11 DEF Slice
<1>13. SubSeq(bz, 1, m) = [q \in 1..m |-> bz[q]]
    <2>1. SubSeq(bz, 1, m) = [q \in 1..(1 + m - 1) |-> bz[1 + q - 1]]
        BY <1>9
    <2>2. 1 + m - 1 = m /\ \A q \in 1..m : 1 + q - 1 = q
        OBVIOUS
    <2>3. QED BY <2>1, <2>2
<1>14. QED BY <1>1, <1>3, <1>4, <1>6, <1>8, <1>11, <1>12, <1>13

\* Walk refuses a header of which only the first byte is there.
LEMMA HeaderCut ==
    ASSUME NEW s, NEW i \in Nat, s.len \in Nat, i < s.len, ~(i + 1 < s.len)
    PROVE  Packet(s, i) = Refused
<1>1. PICK first : first = Byte(s, i)
    OBVIOUS
<1>2. PICK k : k = LengthBytes(first, 0)
    OBVIOUS
<1>3. PICK n : n = BodyLength(first >= 192, Slice(s, i + 1, k))
    OBVIOUS
<1>4. Packet(s, i) = PacketAt(s, i, first, k, n)
    BY <1>1, <1>2, <1>3, Zenon DEF Packet
<1>5. k \in {0, 1, 2, 4, 5}
    BY <1>2, LengthBytesValues
<1>6. k = 0 \/ i + k >= s.len
    BY <1>5
<1>7. QED BY <1>4, <1>6, Zenon DEF PacketAt

LEMMA UnreadableRefused ==
    ASSUME NEW s, NEW t, Laying(t, s), NEW j \in 1..Len(s.pieces), t[j - 1] < s.len,
           Unreadable(s.pieces[j].hdr)
    PROVE  Packet(s, t[j - 1]) = Refused
<1>1. PICK p : p = s.pieces[j]
    OBVIOUS
<1>2. PICK h : h = p.hdr
    OBVIOUS
<1>3. PICK i : i = t[j - 1]
    OBVIOUS
<1>4. p \in Pieces /\ i \in Nat /\ s.len \in Nat /\ i < s.len
    BY <1>1, <1>3, LayingFacts
<1>5. /\ Len(h) \in 1..6 /\ Size(p) = Len(h) + p.n /\ p.n \in Nat
      /\ h \in Seq(Octet)
    BY <1>2, <1>4, SizeFacts, PieceFields
<1>6. \A k \in 1..Len(h) : Byte(s, i + k - 1) = h[k]
    <2> SUFFICES ASSUME NEW k \in 1..Len(h) PROVE Byte(s, i + k - 1) = h[k]
        OBVIOUS
    <2>1. k \in Nat \ {0} /\ k <= Len(h) /\ k <= Size(p)
        BY <1>5
    <2>2. Byte(s, i + k - 1) = ByteOf(p, k)
        BY <1>1, <1>3, <2>1, ByteInPiece
    <2>3. ByteOf(p, k) = h[k]
        BY <1>2, <2>1, Zenon DEF ByteOf
    <2>4. QED BY <2>2, <2>3
<1>7. Byte(s, i) = h[1]
    <2>1. \A x \in 1..6 : 1 \in 1..x
        OBVIOUS
    <2>2. 1 \in 1..Len(h)
        BY <1>5, <2>1, Zenon
    <2>3. i + 1 - 1 = i
        BY <1>4
    <2>4. QED BY <1>6, <2>2, <2>3
<1>8. CASE ~(i + 1 < s.len)
    BY <1>3, <1>4, <1>8, HeaderCut
<1>9. CASE i + 1 < s.len
    <2>1. PICK l1 : l1 = Byte(s, i + 1)
        OBVIOUS
    <2>2. PICK k : k = LengthBytes(h[1], l1)
        OBVIOUS
    <2>3. PICK n : n = BodyLength(h[1] >= 192, Slice(s, i + 1, k))
        OBVIOUS
    <2>4. Packet(s, i) = PacketAt(s, i, h[1], k, n)
        BY <1>7, <1>9, <2>1, <2>2, <2>3, Zenon DEF Packet
    <2>5. h[1] < 128 \/ k = 0
        <3>1. l1 \in Octet
            <4>1. i + 1 \in Nat
                BY <1>4
            <4>2. QED BY <1>9, <2>1, <4>1, ByteOctet
        <3>2. Len(h) = 2 => l1 = h[2]
            <4>1. Len(h) = 2 => 2 \in 1..Len(h) /\ i + 2 - 1 = i + 1
                BY <1>4
            <4>2. QED BY <1>6, <2>1, <4>1
        <3>3. Unreadable(h)
            BY <1>1, <1>2
        <3>4. QED BY <2>2, <3>1, <3>2, <3>3 DEF Unreadable
    <2>6. Packet(s, i) = Refused
        BY <2>4, <2>5, Zenon DEF PacketAt
    <2>7. QED BY <1>3, <2>6
<1>10. QED BY <1>8, <1>9

LEMMA ReadableRead ==
    ASSUME NEW s, NEW t, Laying(t, s), NEW j \in 1..Len(s.pieces), t[j - 1] < s.len,
           ReadsAs(s.pieces[j].hdr, s.pieces[j].tag, s.pieces[j].n)
    PROVE  Packet(s, t[j - 1]) = IF t[j] <= s.len THEN Written(s)[j] ELSE Refused
<1>1. PICK p : p = s.pieces[j]
    OBVIOUS
<1>2. PICK h : h = p.hdr
    OBVIOUS
<1>3. PICK i : i = t[j - 1]
    OBVIOUS
<1>4. p \in Pieces /\ i \in Nat /\ s.len \in Nat /\ i < s.len
    BY <1>1, <1>3, LayingFacts
<1>5. t[j] = i + Size(p) /\ t[j] \in Nat /\ s.starts[j] = i /\ j \in DOMAIN s.pieces
    BY <1>1, <1>3, LayingFacts
<1>6. /\ Len(h) \in 2..6 /\ h[1] >= 128 /\ LengthBytes(h[1], h[2]) = Len(h) - 1
      /\ p.tag = IF h[1] >= 192 THEN h[1] - 192 ELSE (h[1] - 128) \div 4
      /\ \A b \in Seq(Octet) :
            Len(b) = Len(h) - 1 /\ (\A q \in 1..Len(b) : b[q] = h[q + 1])
              => BodyLength(h[1] >= 192, b) = p.n
      /\ h \in Seq(Octet)
    <2>1. ReadsAs(h, p.tag, p.n)
        BY <1>1, <1>2, Zenon
    <2>2. QED BY <2>1, Zenon DEF ReadsAs
<1>7. p.n \in Nat /\ Size(p) = Len(h) + p.n
    BY <1>2, <1>4, SizeFacts, PieceFields
<1>8. \A k \in 1..Len(h) : Byte(s, i + k - 1) = h[k]
    <2> SUFFICES ASSUME NEW k \in 1..Len(h) PROVE Byte(s, i + k - 1) = h[k]
        OBVIOUS
    <2>0. Len(h) \in Nat
        BY <1>6
    <2>1. k \in Nat \ {0} /\ k <= Len(h) /\ k <= Size(p)
        BY <1>7, <2>0
    <2>2. Byte(s, i + k - 1) = ByteOf(p, k)
        BY <1>1, <1>3, <2>1, ByteInPiece
    <2>3. ByteOf(p, k) = h[k]
        BY <1>2, <2>1, Zenon DEF ByteOf
    <2>4. QED BY <2>2, <2>3
<1>9. Byte(s, i) = h[1] /\ Byte(s, i + 1) = h[2] /\ h[1] \in Octet
    <2>1. \A x \in 2..6 : 1 \in 1..x /\ 2 \in 1..x
        OBVIOUS
    <2>2. 1 \in 1..Len(h) /\ 2 \in 1..Len(h)
        BY <1>6, <2>1, ZenonT(60)
    <2>3. i + 1 - 1 = i /\ i + 2 - 1 = i + 1
        BY <1>4
    <2>4. h[1] \in Octet
        BY <1>6, <2>2, OctetsFacts
    <2>5. Byte(s, i + 1 - 1) = h[1] /\ Byte(s, i + 2 - 1) = h[2]
        BY <1>8, <2>2, Zenon
    <2>6. QED BY <2>3, <2>4, <2>5
<1>10. PICK L \in 2..6 : L = Len(h)
    BY <1>6, ZenonT(60)
<1>11. PICK z \in Nat : z = p.n
    BY <1>7, Zenon
<1>12. PICK e : e = t[j]
    OBVIOUS
<1>13. e = i + L + z
    <2>1. e = i + (L + z)
        BY <1>5, <1>7, <1>10, <1>11, <1>12, Zenon
    <2>2. QED BY <1>4, <2>1
<1>14. PICK len \in Nat : len = s.len
    BY <1>4, Zenon
<1>15. i < len
    BY <1>4, <1>14, Zenon
<1>16. CASE ~(i + 1 < s.len)
    <2>1. Packet(s, i) = Refused
        BY <1>4, <1>16, HeaderCut
    <2>2. ~(i + 1 < len)
        BY <1>16, <1>14, Zenon
    <2>3. ~(e <= len)
        BY <1>4, <1>13, <2>2
    <2>4. QED BY <1>3, <1>12, <1>14, <2>1, <2>3, Zenon
<1>17. CASE i + 1 < s.len
    <2>1. PICK k : k = LengthBytes(h[1], h[2])
        OBVIOUS
    <2>2. PICK b : b = Slice(s, i + 1, k)
        OBVIOUS
    <2>3. PICK n : n = BodyLength(h[1] >= 192, b)
        OBVIOUS
    <2>4. Packet(s, i) = PacketAt(s, i, h[1], k, n)
        BY <1>9, <1>17, <2>1, <2>2, <2>3, Zenon DEF Packet
    <2>5. k = L - 1 /\ k \in 1..5
        <3>1. k = L - 1
            BY <1>6, <1>10, <2>1, Zenon
        <3>2. QED BY <3>1
    <2>6. CASE i + k >= s.len
        <3>1. Packet(s, i) = Refused
            BY <2>4, <2>6, Zenon DEF PacketAt
        <3>2. i + k >= len
            BY <1>14, <2>6, Zenon
        <3>3. ~(e <= len)
            BY <1>4, <1>13, <2>5, <3>2
        <3>4. QED BY <1>3, <1>12, <1>14, <3>1, <3>3, Zenon
    <2>7. CASE ~(i + k >= s.len)
        <3>1. i + 1 \in Nat /\ k \in Nat /\ (i + 1) + k <= s.len
            BY <1>4, <2>5, <2>7
        <3>2. /\ b \in Seq(Octet) /\ Len(b) = k
              /\ \A q \in 1..k : b[q] = Byte(s, (i + 1) + q - 1)
            BY <2>2, <3>1, SliceFacts
        <3>3. ASSUME NEW q \in 1..k PROVE b[q] = h[q + 1]
            <4>1. q + 1 \in 1..Len(h) /\ (i + 1) + q - 1 = i + (q + 1) - 1
                BY <1>4, <1>10, <2>5
            <4>2. QED BY <1>8, <3>2, <4>1
        <3>4. n = p.n
            <4>1. Len(b) = Len(h) - 1
                BY <1>10, <2>5, <3>2
            <4>2. \A q \in 1..Len(b) : b[q] = h[q + 1]
                BY <3>2, <3>3
            <4>3. BodyLength(h[1] >= 192, b) = p.n
                BY <1>6, <3>2, <4>1, <4>2, ZenonT(60)
            <4>4. QED BY <2>3, <4>3, Zenon
        <3>5. e = i + 1 + k + z /\ n = z
            <4>1. e = i + 1 + k + z
                BY <1>4, <1>13, <2>5
            <4>2. QED BY <1>11, <3>4, <4>1, Zenon
        <3>6. CASE i + 1 + k + n > s.len
            <4>1. Packet(s, i) = Refused
                BY <2>4, <3>6, Zenon DEF PacketAt
            <4>2. e > len
                BY <1>14, <3>5, <3>6, Zenon
            <4>3. ~(e <= len)
                BY <1>4, <1>13, <4>2
            <4>4. QED BY <1>3, <1>12, <1>14, <4>1, <4>3, Zenon
        <3>7. CASE ~(i + 1 + k + n > s.len)
            <4>1. ~(h[1] < 128) /\ k # 0
                <5>1. h[1] >= 128 /\ h[1] \in Octet
                    BY <1>6, <1>9, Zenon
                <5>2. ~(h[1] < 128)
                    BY <5>1, HighOctet, Zenon
                <5>3. QED BY <2>5, <5>2
            <4>2. Packet(s, i)
                    = [tag |-> IF h[1] >= 192 THEN h[1] - 192 ELSE (h[1] - 128) \div 4,
                       off |-> i, hdr |-> 1 + k, n |-> n,
                       body |-> Slice(s, i + 1 + k, IF n < 3 THEN n ELSE 3)]
                BY <2>4, <2>7, <3>7, <4>1, Zenon DEF PacketAt
            <4>3. PICK m : m = IF n < 3 THEN n ELSE 3
                OBVIOUS
            <4>4. m \in 0..3 /\ m <= p.n
                <5>1. m \in 0..3 /\ m <= z
                    BY <3>5, <4>3
                <5>2. QED BY <1>11, <5>1, Zenon
            <4>5. i + 1 + k = i + Len(h) /\ 1 + k = Len(h)
                BY <1>4, <1>10, <2>5
            <4>6. Slice(s, i + Len(h), m) = SubSeq(p.head \o << 0, 0, 0 >>, 1, m)
                BY <1>1, <1>2, <1>3, <4>4, BodyStart
            <4>7. Packet(s, i) = [tag |-> p.tag, off |-> i, hdr |-> Len(h), n |-> p.n,
                                  body |-> SubSeq(p.head \o << 0, 0, 0 >>, 1, m)]
                <5>1. p.tag = IF h[1] >= 192 THEN h[1] - 192 ELSE (h[1] - 128) \div 4
                    BY <1>6, Zenon
                <5>2. Slice(s, i + 1 + k, m) = SubSeq(p.head \o << 0, 0, 0 >>, 1, m)
                    BY <4>5, <4>6, Zenon
                <5>3. QED BY <3>4, <4>2, <4>3, <4>5, <5>1, <5>2, ZenonT(60)
            <4>8. Written(s)[j] = [tag |-> p.tag, off |-> i, hdr |-> Len(h), n |-> p.n,
                                   body |-> SubSeq(p.head \o << 0, 0, 0 >>, 1, m)]
                BY <1>1, <1>2, <1>5, <3>4, <4>3, Zenon DEF Written
            <4>9. t[j] <= s.len
                <5>1. ~(e > len)
                    BY <1>14, <3>5, <3>7, Zenon
                <5>2. e <= len
                    BY <1>4, <1>13, <5>1
                <5>3. QED BY <1>12, <1>14, <5>2, Zenon
            <4>10. Packet(s, i) = Written(s)[j]
                BY <4>7, <4>8, Zenon
            <4>11. QED BY <1>3, <4>9, <4>10, Zenon
        <3>8. QED BY <3>6, <3>7
    <2>8. QED BY <2>6, <2>7
<1>18. QED BY <1>16, <1>17

LEMMA PacketOfPiece ==
    ASSUME NEW s, NEW t, Laying(t, s), NEW j \in 1..Len(s.pieces), t[j - 1] < s.len
    PROVE  Packet(s, t[j - 1])
             = IF Definite(s.pieces[j]) /\ t[j] <= s.len THEN Written(s)[j] ELSE Refused
<1>1. PICK p : p = s.pieces[j]
    OBVIOUS
<1>2. p \in Pieces
    BY <1>1, LayingFacts
<1>3. IF Definite(p) THEN ReadsAs(p.hdr, p.tag, p.n) ELSE Unreadable(p.hdr)
    BY <1>2, PieceRead
<1>4. CASE Definite(p)
    <2>1. ReadsAs(s.pieces[j].hdr, s.pieces[j].tag, s.pieces[j].n)
        BY <1>1, <1>3, <1>4
    <2>2. Packet(s, t[j - 1]) = IF t[j] <= s.len THEN Written(s)[j] ELSE Refused
        BY <2>1, ReadableRead
    <2>3. QED BY <1>1, <1>4, <2>2
<1>5. CASE ~Definite(p)
    <2>1. Packet(s, t[j - 1]) = Refused
        BY <1>1, <1>3, <1>5, UnreadableRefused
    <2>2. QED BY <1>1, <1>5, <2>1
<1>6. QED BY <1>4, <1>5

-----------------------------------------------------------------------------
(* What Walk finds.                                                         *)

\* The first m pieces are all there, nothing else is, and each has a length.
FirstWhole(s, t, m) == s.len = t[m] /\ \A j \in 1..m : Definite(s.pieces[j])

LEMMA WrittenTyped ==
    ASSUME NEW s, NEW t, Laying(t, s), NEW j \in 1..Len(s.pieces),
           Definite(s.pieces[j]), t[j] <= s.len
    PROVE  /\ Written(s)[j] \in Packets
           /\ t[j - 1] + Written(s)[j].hdr + Written(s)[j].n = t[j]
           /\ Packet(s, t[j - 1]) = Written(s)[j] /\ t[j - 1] < s.len
<1>1. /\ s.pieces[j] \in Pieces /\ j - 1 \in 0..Len(s.pieces) /\ j \in 0..Len(s.pieces)
      /\ t[j] = t[j - 1] + Size(s.pieces[j]) /\ DOMAIN s.pieces = 1..Len(s.pieces)
    BY LayingFacts
<1>2. t[j - 1] \in Nat /\ t[j] \in Nat /\ s.len \in Nat
    BY <1>1, LayingFacts
<1>3. /\ Len(s.pieces[j].hdr) \in 1..6 /\ s.pieces[j].n \in Nat
      /\ Size(s.pieces[j]) = Len(s.pieces[j].hdr) + s.pieces[j].n
    BY <1>1, SizeFacts, PieceFields
<1>4. t[j - 1] < t[j]
    <2>1. \A a \in Nat, x \in 1..6, y \in Nat : a < a + (x + y)
        OBVIOUS
    <2>2. QED BY <1>1, <1>2, <1>3, <2>1, Zenon
<1>5. t[j - 1] < s.len
    BY <1>2, <1>4
<1>6. Packet(s, t[j - 1]) = Written(s)[j]
    BY <1>5, PacketOfPiece
<1>7. Written(s)[j].hdr = Len(s.pieces[j].hdr) /\ Written(s)[j].n = s.pieces[j].n
    BY <1>1 DEF Written
<1>8. t[j - 1] + Written(s)[j].hdr + Written(s)[j].n = t[j]
    <2>1. \A a \in Nat, x \in 1..6, y \in Nat : a + x + y = a + (x + y)
        OBVIOUS
    <2>2. PICK x \in 1..6 : x = Len(s.pieces[j].hdr)
        BY <1>3
    <2>3. PICK y \in Nat : y = s.pieces[j].n
        BY <1>3
    <2>4. t[j] = t[j - 1] + (x + y)
        BY <1>1, <1>3, <2>2, <2>3, Zenon
    <2>5. t[j - 1] + x + y = t[j]
        BY <1>2, <2>1, <2>4, Zenon
    <2>6. QED BY <1>7, <2>2, <2>3, <2>5, Zenon
<1>9. Written(s)[j] # Refused
    <2>1. PICK p : p = s.pieces[j]
        OBVIOUS
    <2>2. PICK h : h = p.hdr
        OBVIOUS
    <2>3. ReadsAs(h, p.tag, p.n)
        BY <1>1, <2>1, <2>2, PieceRead
    <2>4. Len(h) \in 2..6
        BY <2>3, Zenon DEF ReadsAs
    <2>5. p.tag \in 0..63 /\ p.n \in Nat /\ p.head \in Seq(Octet)
        BY <1>1, <2>1, PieceFields
    <2>6. PICK b : b = SubSeq(p.head \o << 0, 0, 0 >>, 1, IF p.n < 3 THEN p.n ELSE 3)
        OBVIOUS
    <2>7. b \in Seq(Octet)
        <3>1. PICK m : m = IF p.n < 3 THEN p.n ELSE 3
            OBVIOUS
        <3>2. m \in 0..3 /\ m <= p.n
            BY <2>5, <3>1
        <3>3. b = Slice(s, t[j - 1] + Len(s.pieces[j].hdr), m)
            BY <2>1, <2>6, <3>1, <3>2, BodyStart
        <3>4. t[j - 1] + Len(s.pieces[j].hdr) \in Nat /\ t[j - 1] + Len(s.pieces[j].hdr) + m <= s.len
            <4>1. PICK a \in Nat : a = t[j - 1]
                BY <1>2
            <4>2. PICK x \in 1..6 : x = Len(s.pieces[j].hdr)
                BY <1>3
            <4>3. PICK y \in Nat : y = p.n
                BY <2>5
            <4>4. PICK l \in Nat : l = s.len
                BY <1>2
            <4>5. a + (x + y) <= l /\ m <= y
                BY <1>1, <1>3, <2>1, <3>2, <4>1, <4>2, <4>3, <4>4, Zenon
            <4>6. a + x \in Nat /\ a + x + m <= l
                BY <3>2, <4>5
            <4>7. QED BY <4>1, <4>2, <4>4, <4>6, Zenon
        <3>5. m \in Nat
            BY <3>2
        <3>6. QED BY <3>3, <3>4, <3>5, SliceFacts
    <2>8. Written(s)[j] = [tag |-> p.tag, off |-> s.starts[j], hdr |-> Len(h), n |-> p.n,
                           body |-> b]
        BY <1>1, <2>1, <2>2, <2>6, Zenon DEF Written
    <2>9. s.starts[j] \in Nat
        BY <1>2, LayingFacts
    <2>10. [tag |-> p.tag, off |-> s.starts[j], hdr |-> Len(h), n |-> p.n, body |-> b] \in Packets
        BY Wider, <2>4, <2>5, <2>7, <2>9, Zenon DEF Packets
    <2>11. Written(s)[j] \in Packets
        BY <2>8, <2>10, Zenon
    <2>12. QED BY <2>11, RefusedAssumption
<1>10. Written(s)[j] \in Packets
    BY <1>2, <1>5, <1>6, <1>9, PacketTyped
<1>11. QED BY <1>5, <1>6, <1>8, <1>10

LEMMA WalkOfWhole ==
    ASSUME NEW s, NEW t, Laying(t, s), NEW f, \A i \in Nat : f[i] = WalkBody(s, f, i),
           NEW m \in 0..Len(s.pieces), FirstWhole(s, t, m)
    PROVE  f[0] = SubSeq(Written(s), 1, m) /\ SubSeq(Written(s), 1, m) \in Seq(Packets)
<1> DEFINE W == Written(s)
           R(k) == [q \in 1..k |-> W[m - k + q]]
           P == {k \in Nat : k <= m => f[t[m - k]] = R(k)}
<1>0. /\ m \in Nat /\ Len(s.pieces) \in Nat /\ t[0] = 0 /\ s.len = t[m]
      /\ \A j \in 0..Len(s.pieces) : t[j] \in Nat
      /\ DOMAIN s.pieces = 1..Len(s.pieces)
    BY LayingFacts DEF FirstWhole
<1>1. ASSUME NEW j \in 1..m
      PROVE  /\ W[j] \in Packets /\ t[j - 1] + W[j].hdr + W[j].n = t[j]
             /\ Packet(s, t[j - 1]) = W[j] /\ t[j - 1] < s.len /\ t[j - 1] \in Nat
    <2>1. /\ j \in 1..Len(s.pieces) /\ j - 1 \in 0..Len(s.pieces) /\ j \in 0..Len(s.pieces)
          /\ m \in 0..Len(s.pieces) /\ (j = m \/ j < m)
        BY <1>0
    <2>2. t[j] <= s.len
        <3>1. j < m => t[j] < t[m]
            BY <2>1, LayingFacts
        <3>2. QED BY <1>0, <2>1, <3>1
    <2>3. Definite(s.pieces[j])
        BY DEF FirstWhole
    <2>4. QED BY <1>0, <2>1, <2>2, <2>3, WrittenTyped
<1> HIDE DEF W
<1>2. ASSUME NEW k \in Nat, k <= m PROVE R(k) \in Seq(Packets) /\ Len(R(k)) = k
    <2>1. \A q \in 1..k : m - k + q \in 1..m
        BY <1>0, <1>2
    <2>2. \A q \in 1..k : W[m - k + q] \in Packets
        BY <1>1, <2>1
    <2>3. QED BY <1>2, <2>2
<1>3. 0 \in P
    <2>1. t[m] \in Nat /\ t[m] >= s.len /\ m - 0 = m
        BY <1>0
    <2>2. f[t[m]] = << >>
        BY <2>1, Zenon DEF WalkBody
    <2>3. R(0) = << >>
        OBVIOUS
    <2> HIDE DEF R
    <2>4. QED BY <2>1, <2>2, <2>3
<1>4. ASSUME NEW k \in Nat, k \in P PROVE k + 1 \in P
    <2> SUFFICES ASSUME k + 1 <= m PROVE f[t[m - (k + 1)]] = R(k + 1)
        OBVIOUS
    <2>1. k <= m /\ m - k \in 1..m /\ m - (k + 1) = (m - k) - 1
        BY <1>0
    <2>2. f[t[m - k]] = R(k)
        BY <1>4, <2>1
    <2>3. R(k) \in Seq(Packets) /\ Len(R(k)) = k /\ \A q \in 1..k : R(k)[q] = W[m - k + q]
        BY <1>2, <2>1
    <2> DEFINE i == t[(m - k) - 1]
               p == W[m - k]
    <2>4. /\ p \in Packets /\ i + p.hdr + p.n = t[m - k] /\ Packet(s, i) = p
          /\ i < s.len /\ i \in Nat
        BY <1>1, <2>1
    <2>5. p # Refused /\ R(k) # Refused
        BY <2>3, <2>4, RefusedAssumption
    <2> DEFINE r == R(k)
    <2> HIDE DEF i, p, r
    <2>6. ~(i >= s.len)
        BY <1>0, <2>4
    <2>7. f[i] = Before(p, f[i + p.hdr + p.n])
        BY <2>4, <2>5, <2>6, Zenon DEF WalkBody
    <2>8. f[i] = << p >> \o r
        BY <2>2, <2>4, <2>5, <2>7, Zenon DEF Before, r
    <2>9. << p >> \o r = R(k + 1)
        <3>1. PICK u : u = << p >>
            OBVIOUS
        <3>2. u \in Seq(Packets) /\ Len(u) = 1 /\ u[1] = p
            BY <2>4, <3>1
        <3>3. r \in Seq(Packets) /\ Len(r) = k /\ \A q \in 1..k : r[q] = W[m - k + q]
            BY <2>3 DEF r
        <3>4. PICK c : c = u \o r
            OBVIOUS
        <3>5. /\ c \in Seq(Packets) /\ Len(c) = Len(u) + Len(r)
              /\ \A q \in 1..(Len(u) + Len(r)) : c[q] = IF q <= Len(u) THEN u[q] ELSE r[q - Len(u)]
            BY <3>2, <3>3, <3>4, ConcatProperties
        <3>6. Len(c) = k + 1
              /\ \A q \in 1..(k + 1) : c[q] = IF q <= 1 THEN u[q] ELSE r[q - 1]
            <4>1. Len(u) + Len(r) = k + 1
                BY <3>2, <3>3
            <4>2. QED BY <3>2, <3>5, <4>1
        <3>7. R(k + 1) \in Seq(Packets) /\ Len(R(k + 1)) = k + 1
            BY <1>2
        <3>8. ASSUME NEW q \in 1..(k + 1) PROVE c[q] = R(k + 1)[q]
            <4>1. R(k + 1)[q] = W[m - (k + 1) + q]
                OBVIOUS
            <4>2. CASE q = 1
                <5>1. m - (k + 1) + q = m - k /\ c[q] = u[1]
                    BY <1>0, <3>6, <4>2
                <5>2. QED BY <3>2, <4>1, <5>1 DEF p
            <4>3. CASE q # 1
                <5>1. q - 1 \in 1..k /\ m - k + (q - 1) = m - (k + 1) + q /\ ~(q <= 1)
                    BY <1>0, <4>3
                <5>2. QED BY <3>3, <3>6, <4>1, <5>1
            <4>4. QED BY <4>2, <4>3
        <3> HIDE DEF R
        <3>9. c = R(k + 1)
            BY <3>5, <3>6, <3>7, <3>8, SeqEqual
        <3>10. QED BY <3>1, <3>4, <3>9
    <2>10. QED BY <2>1, <2>8, <2>9, Zenon DEF i
<1> HIDE DEF P
<1>5. m \in P
    BY <1>0, <1>3, <1>4, NatSetInduction
<1>6. f[t[m - m]] = R(m) /\ m - m = 0
    BY <1>0, <1>5 DEF P
<1>7. R(m) = SubSeq(W, 1, m)
    <2>1. \A q \in 1..m : m - m + q = 1 + q - 1 /\ m - m + q = q
        BY <1>0
    <2>2. SubSeq(W, 1, m) = [q \in 1..m |-> W[q]]
        <3>1. SubSeq(W, 1, m) = [q \in 1..(1 + m - 1) |-> W[1 + q - 1]]
            BY <1>0
        <3>2. 1 + m - 1 = m /\ \A q \in 1..m : 1 + q - 1 = q
            BY <1>0
        <3>3. QED BY <3>1, <3>2
    <2>3. R(m) = [q \in 1..m |-> W[q]]
        BY <2>1
    <2>4. QED BY <2>2, <2>3, Zenon
<1> HIDE DEF R
<1>8. R(m) \in Seq(Packets)
    <2>1. m <= m
        BY <1>0
    <2>2. QED BY <1>0, <1>2, <2>1
<1>9. QED BY <1>0, <1>6, <1>7, <1>8 DEF W

LEMMA WalkOfBroken ==
    ASSUME NEW s, NEW t, Laying(t, s), NEW f, \A i \in Nat : f[i] = WalkBody(s, f, i),
           \A m \in 0..Len(s.pieces) : ~FirstWhole(s, t, m)
    PROVE  f[0] = Refused
<1> DEFINE N == Len(s.pieces)
           Upto(j) == t[j] <= s.len /\ \A q \in 1..j : Definite(s.pieces[q])
           P == {k \in Nat : k <= N /\ Upto(N - k) => f[t[N - k]] = Refused}
<1>0. /\ N \in Nat /\ t[0] = 0 /\ s.len \in Nat /\ s.len <= t[N]
      /\ \A j \in 0..N : t[j] \in Nat
    BY LayingFacts
<1> HIDE DEF Upto
<1>1. ASSUME NEW j \in 0..N, Upto(j) PROVE t[j] < s.len /\ j < N
    <2>1. ~FirstWhole(s, t, j)
        OBVIOUS
    <2>2. s.len # t[j]
        BY <1>1, <2>1 DEF FirstWhole, Upto
    <2>3. t[j] < s.len
        BY <1>0, <1>1, <2>2 DEF Upto
    <2>4. j # N
        BY <1>0, <2>3
    <2>5. QED BY <1>0, <2>3, <2>4
<1>2. 0 \in P
    <2>1. N - 0 = N /\ N \in 0..N
        BY <1>0
    <2>2. ~Upto(N)
        BY <1>0, <1>1, <2>1
    <2>3. QED BY <2>1, <2>2
<1>3. ASSUME NEW k \in Nat, k \in P PROVE k + 1 \in P
    <2> SUFFICES ASSUME k + 1 <= N, Upto(N - (k + 1)) PROVE f[t[N - (k + 1)]] = Refused
        OBVIOUS
    <2>1. PICK j : j = N - k
        OBVIOUS
    <2>2. /\ j \in 1..N /\ N - (k + 1) = j - 1 /\ j - 1 \in 0..N /\ j \in 0..N /\ k <= N
        BY <1>0, <2>1
    <2>3. t[j - 1] < s.len /\ t[j - 1] \in Nat /\ Upto(j - 1)
        BY <1>0, <1>1, <2>2
    <2>4. PICK i \in Nat : i = t[j - 1]
        BY <2>3
    <2>5. ~(i >= s.len)
        BY <1>0, <2>3, <2>4
    <2>6. CASE Definite(s.pieces[j]) /\ t[j] <= s.len
        <3>1. PICK p : p = Written(s)[j]
            OBVIOUS
        <3>2. p \in Packets /\ i + p.hdr + p.n = t[j] /\ Packet(s, i) = p
            BY <2>2, <2>4, <2>6, <3>1, WrittenTyped
        <3>3. p # Refused
            BY <3>2, RefusedAssumption
        <3>4. f[i] = Before(p, f[t[j]])
            BY <2>5, <3>2, <3>3, Zenon DEF WalkBody
        <3>5. Upto(j)
            <4>1. \A q \in 1..j : q \in 1..(j - 1) \/ q = j
                BY <2>2
            <4>2. QED BY <2>3, <2>6, <4>1 DEF Upto
        <3>6. f[t[j]] = Refused
            BY <1>3, <2>1, <2>2, <3>5
        <3>7. f[i] = Refused
            BY <3>4, <3>6, Zenon DEF Before
        <3>8. QED BY <2>2, <2>4, <3>7
    <2>7. CASE ~(Definite(s.pieces[j]) /\ t[j] <= s.len)
        <3>1. Packet(s, i) = Refused
            BY <2>2, <2>3, <2>4, <2>7, PacketOfPiece
        <3>2. f[i] = Refused
            BY <2>5, <3>1, Zenon DEF WalkBody
        <3>3. QED BY <2>2, <2>4, <3>2
    <2>8. QED BY <2>6, <2>7
<1> HIDE DEF P
<1>4. N \in P
    BY <1>0, <1>2, <1>3, NatSetInduction
<1>5. N - N = 0 /\ N <= N
    BY <1>0
<1>6. Upto(0)
    BY <1>0 DEF Upto
<1>7. f[t[0]] = Refused
    BY <1>4, <1>5, <1>6 DEF P
<1>8. QED BY <1>0, <1>7

\* WalkTiles, of any stream.
Found(s) ==
    LET whole == {m \in 0 .. Len(s.pieces) : Whole([s EXCEPT !.pieces = SubSeq(@, 1, m)])}
    IN  IF whole = {} THEN Refused ELSE SubSeq(Written(s), 1, Max(whole))

LEMMA WalkFinds ==
    ASSUME NEW s, IsStream(s)
    PROVE  Walk(s) = Found(s) /\ Walk(s) \in Seq(Packets) \cup {Refused}
<1> DEFINE whole == {m \in 0 .. Len(s.pieces) : Whole([s EXCEPT !.pieces = SubSeq(@, 1, m)])}
<1>1. PICK t : Laying(t, s)
    BY LayingExists
<1>2. PICK f : Walk(s) = f[0] /\ \A i \in Nat : f[i] = WalkBody(s, f, i)
    BY <1>1, WalkEquation
<1>3. ASSUME NEW m \in 0..Len(s.pieces)
      PROVE  Whole([s EXCEPT !.pieces = SubSeq(@, 1, m)]) <=> FirstWhole(s, t, m)
    <2>1. PICK qs : qs = SubSeq(s.pieces, 1, m)
        OBVIOUS
    <2>2. /\ qs \in Seq(Pieces) /\ Len(qs) = m /\ \A j \in 1..m : qs[j] = s.pieces[j]
          /\ Total(qs) = t[m]
        BY <1>1, <2>1, TotalOfFirst DEF Laying
    <2>3. PICK x : x = [s EXCEPT !.pieces = SubSeq(@, 1, m)]
        OBVIOUS
    <2>4. x.len = s.len /\ x.pieces = qs
        <3>1. s = [pieces |-> s.pieces, starts |-> s.starts, len |-> s.len]
            <4>1. s = Stream(s.pieces, s.len)
                BY DEF IsStream
            <4>2. PICK ps : ps = s.pieces
                OBVIOUS
            <4>3. PICK l : l = s.len
                OBVIOUS
            <4>4. PICK st : st = [j \in DOMAIN ps |-> Total(SubSeq(ps, 1, j - 1))]
                OBVIOUS
            <4>5. s = [pieces |-> ps, starts |-> st, len |-> l]
                BY <4>1, <4>2, <4>3, <4>4, Zenon DEF Stream
            <4>6. s.starts = st
                BY <4>5
            <4>7. QED BY <4>2, <4>3, <4>5, <4>6, Zenon
        <3>2. QED BY <2>1, <2>3, <3>1
    <2>5. DOMAIN qs = 1..m
        BY <2>2, LenProperties
    <2>6. Whole(x) <=> s.len = t[m] /\ \A j \in 1..m : Definite(qs[j])
        BY <2>2, <2>4, <2>5, Zenon DEF Whole, Definite
    <2>7. QED BY <2>2, <2>3, <2>6, Zenon DEF FirstWhole
<1>4. Found(s) = IF whole = {} THEN Refused ELSE SubSeq(Written(s), 1, Max(whole))
    BY Zenon DEF Found
<1>5. \A m \in 0..Len(s.pieces) : m \in whole <=> FirstWhole(s, t, m)
    BY <1>3, Zenon
<1>6. whole \subseteq 0..Len(s.pieces)
    OBVIOUS
<1> HIDE DEF whole
<1>7. CASE whole = {}
    <2>1. \A m \in 0..Len(s.pieces) : ~FirstWhole(s, t, m)
        BY <1>5, <1>7
    <2>2. f[0] = Refused
        BY <1>1, <1>2, <2>1, WalkOfBroken
    <2>3. QED BY <1>2, <1>4, <1>7, <2>2
<1>8. CASE whole # {}
    <2>1. PICK m \in 0..Len(s.pieces) : m \in whole /\ FirstWhole(s, t, m)
        BY <1>5, <1>6, <1>8
    <2>2. f[0] = SubSeq(Written(s), 1, m) /\ SubSeq(Written(s), 1, m) \in Seq(Packets)
        BY <1>1, <1>2, <2>1, WalkOfWhole
    <2>3. \A k \in whole : k = m
        <3> SUFFICES ASSUME NEW k \in whole PROVE k = m
            OBVIOUS
        <3>1. k \in 0..Len(s.pieces) /\ FirstWhole(s, t, k)
            BY <1>5, <1>6
        <3>2. t[k] = t[m]
            BY <2>1, <3>1 DEF FirstWhole
        <3>3. /\ Len(s.pieces) \in Nat /\ t[k] \in Nat
              /\ (k < m => t[k] < t[m]) /\ (m < k => t[m] < t[k])
            BY <1>1, <2>1, <3>1, LayingFacts
        <3>4. ~(k < m) /\ ~(m < k)
            BY <3>2, <3>3
        <3>5. QED BY <2>1, <3>1, <3>3, <3>4
    <2>4. m >= m
        <3>1. m \in Nat
            BY <1>1, LayingFacts
        <3>2. QED BY <3>1
    <2>5. Max(whole) = m
        <3>1. whole = {m}
            BY <2>1, <2>3
        <3>2. Max({m}) = m
            BY <2>4 DEF Max
        <3>3. QED BY <3>1, <3>2
    <2>6. QED BY <1>2, <1>4, <1>8, <2>2, <2>5
<1>9. QED BY <1>7, <1>8

-----------------------------------------------------------------------------
(* What a repair keeps.                                                     *)

Contexts == {"primary", "uid", "subkey"}

LEMMA AboutNext ==
    ASSUME NEW ps, NEW j \in Nat \ {0}
    PROVE  About(ps, j + 1) = IF Context(ps[j].tag) # "" THEN Context(ps[j].tag)
                              ELSE About(ps, j)
<1> DEFINE B(n) == {i \in 1..(n - 1) : Context(ps[i].tag) # ""}
           last(n) == CHOOSE i \in B(n) : \A k \in B(n) : k <= i
<1>1. \A n : About(ps, n) = IF B(n) = {} THEN "primary" ELSE Context(ps[last(n)].tag)
    BY Zenon DEF About
<1>2. \A i : i \in 1..((j + 1) - 1) <=> i \in 1..(j - 1) \/ i = j
    OBVIOUS
<1>3. CASE Context(ps[j].tag) # ""
    <2>1. j \in B(j + 1) /\ \A k \in B(j + 1) : k <= j
        <3>1. j \in 1..((j + 1) - 1) /\ \A k \in 1..((j + 1) - 1) : k <= j
            OBVIOUS
        <3>2. QED BY <1>3, <3>1, Zenon
    <2>2. B(j + 1) \subseteq Nat
        <3>1. 1..((j + 1) - 1) \subseteq Nat
            OBVIOUS
        <3>2. QED BY <3>1, Zenon
    <2> HIDE DEF B
    <2>3. last(j + 1) \in B(j + 1) /\ \A k \in B(j + 1) : k <= last(j + 1)
        BY <2>1
    <2> HIDE DEF last
    <2>4. last(j + 1) = j
        BY <2>1, <2>2, <2>3
    <2>5. B(j + 1) # {}
        BY <2>1
    <2>6. QED BY <1>1, <1>3, <2>4, <2>5
<1>4. CASE ~(Context(ps[j].tag) # "")
    <2>1. B(j + 1) = B(j)
        BY <1>2, <1>4
    <2> HIDE DEF B
    <2>2. last(j + 1) = last(j)
        BY <2>1
    <2> HIDE DEF last
    <2>3. About(ps, j + 1) = About(ps, j)
        BY <1>1, <2>1, <2>2, Zenon
    <2>4. QED BY <1>4, <2>3
<1>5. QED BY <1>3, <1>4

LEMMA AboutFirst ==
    ASSUME NEW ps
    PROVE  About(ps, 1) = "primary"
<1>1. {i \in 1..(1 - 1) : Context(ps[i].tag) # ""} = {}
    OBVIOUS
<1>2. QED BY <1>1, Zenon DEF About

LEMMA ContextFacts ==
    ASSUME NEW tag
    PROVE  Context(tag) \in Contexts \cup {""} /\ (tag = Signature => Context(tag) = "")
BY SMT DEF Context, Contexts, PublicKey, SecretKey, UserID, UserAttr, PublicSub, SecretSub, Signature

\* What a packet is about depends on those before it only.
LEMMA AboutSame ==
    ASSUME NEW ps, NEW qs, NEW n \in Nat, \A i \in 1..n : ps[i] = qs[i]
    PROVE  \A j \in 0..n : About(ps, j + 1) = About(qs, j + 1)
<1> DEFINE P == {j \in Nat : j <= n => About(ps, j + 1) = About(qs, j + 1)}
<1>1. 0 \in P
    <2>1. 0 + 1 = 1
        OBVIOUS
    <2>2. QED BY <2>1, AboutFirst
<1>2. ASSUME NEW j \in Nat, j \in P PROVE j + 1 \in P
    <2> SUFFICES ASSUME j + 1 <= n PROVE About(ps, (j + 1) + 1) = About(qs, (j + 1) + 1)
        OBVIOUS
    <2>1. j <= n /\ j + 1 \in 1..n /\ j + 1 \in Nat \ {0}
        OBVIOUS
    <2>2. About(ps, j + 1) = About(qs, j + 1) /\ ps[j + 1] = qs[j + 1]
        BY <1>2, <2>1
    <2>3. /\ About(ps, (j + 1) + 1) = IF Context(ps[j + 1].tag) # "" THEN Context(ps[j + 1].tag)
                                      ELSE About(ps, j + 1)
          /\ About(qs, (j + 1) + 1) = IF Context(qs[j + 1].tag) # "" THEN Context(qs[j + 1].tag)
                                      ELSE About(qs, j + 1)
        BY <2>1, AboutNext
    <2>4. PICK x : x = Context(ps[j + 1].tag)
        OBVIOUS
    <2>5. x = Context(qs[j + 1].tag)
        BY <2>2, <2>4, Zenon
    <2>6. PICK a : a = About(ps, j + 1)
        OBVIOUS
    <2>7. PICK y : y = IF x # "" THEN x ELSE a
        OBVIOUS
    <2>8. About(ps, (j + 1) + 1) = y
        BY <2>3, <2>4, <2>6, <2>7, Zenon
    <2>9. About(qs, (j + 1) + 1) = y
        BY <2>2, <2>3, <2>5, <2>6, <2>7, Zenon
    <2>10. QED BY <2>8, <2>9, Zenon
<1> HIDE DEF P
<1>3. Nat \subseteq P
    BY <1>1, <1>2, NatSetInduction
<1>4. QED BY <1>3 DEF P

States == [context : Contexts, kept : Seq(Packets), changed : BOOLEAN]

\* Nothing is misplaced in what was kept, and context is what it leaves.
Tidy(st) ==
    /\ \A q \in 1..Len(st.kept) : ~Misplaced(st.kept, q)
    /\ About(st.kept, Len(st.kept) + 1) = st.context

\* What one turn makes of st.
IsTurn(ps, j, st, new) ==
    /\ new \in States /\ new.context = About(ps, j + 1) /\ Tidy(new)
    /\ new.kept = IF Misplaced(ps, j) THEN st.kept ELSE Append(st.kept, ps[j])
    /\ new.changed <=> st.changed \/ Misplaced(ps, j)

\* A turn that keeps p.
IsKept(st, p, new) ==
    /\ new.kept = Append(st.kept, p)
    /\ new.context = IF Context(p.tag) # "" THEN Context(p.tag) ELSE st.context
    /\ ~(/\ p.tag = Signature /\ SigType(p) # NoType
         /\ SigType(p) \notin ValidIn(st.context))

LEMMA TidyAppend ==
    ASSUME NEW st, Tidy(st), NEW kept \in Seq(Packets), kept = st.kept, NEW p \in Packets,
           NEW new, IsKept(st, p, new)
    PROVE  Tidy(new)
<1>1. PICK qs : qs = Append(kept, p)
    OBVIOUS
<1>2. PICK n \in Nat : n = Len(kept)
    BY LenProperties
<1>3. /\ qs \in Seq(Packets) /\ Len(qs) = n + 1
      /\ qs[n + 1] = p /\ \A i \in 1..n : qs[i] = kept[i]
    <2>1. /\ qs \in Seq(Packets) /\ Len(qs) = Len(kept) + 1
          /\ qs[Len(kept) + 1] = p /\ \A i \in 1..Len(kept) : qs[i] = kept[i]
        BY <1>1, AppendProperties
    <2>2. QED BY <1>2, <2>1, Zenon
<1>4. \A i \in 0..n : About(qs, i + 1) = About(kept, i + 1)
    BY <1>3, AboutSame
<1>5. (\A q \in 1..n : ~Misplaced(kept, q)) /\ About(kept, n + 1) = st.context
    BY <1>2, Zenon DEF Tidy
<1>6. About(qs, n + 1) = st.context
    <2>1. n \in 0..n
        OBVIOUS
    <2>2. QED BY <1>4, <1>5, <2>1, Zenon
<1>7. ASSUME NEW q \in 1..Len(qs) PROVE ~Misplaced(qs, q)
    <2>1. q \in 1..n \/ q = n + 1
        <3>1. \A k \in 1..(n + 1) : k \in 1..n \/ k = n + 1
            OBVIOUS
        <3>2. QED BY <1>3, <3>1, Zenon
    <2>2. CASE q \in 1..n
        <3>1. q - 1 \in 0..n /\ (q - 1) + 1 = q
            BY <2>2
        <3>2. About(qs, q) = About(kept, q) /\ qs[q] = kept[q]
            <4>1. About(qs, (q - 1) + 1) = About(kept, (q - 1) + 1)
                BY <1>4, <3>1, Zenon
            <4>2. QED BY <1>3, <2>2, <3>1, <4>1
        <3>3. Misplaced(qs, q) <=> Misplaced(kept, q)
            BY <3>2, Zenon DEF Misplaced
        <3>4. QED BY <1>5, <2>2, <3>3
    <2>3. CASE q = n + 1
        BY <1>3, <1>6, <2>3, Zenon DEF Misplaced, IsKept
    <2>4. QED BY <2>1, <2>2, <2>3
<1>8. About(qs, Len(qs) + 1) = new.context
    <2>1. n + 1 \in Nat \ {0}
        OBVIOUS
    <2>2. PICK x : x = Context(p.tag)
        OBVIOUS
    <2>3. PICK y : y = IF x # "" THEN x ELSE st.context
        OBVIOUS
    <2>4. About(qs, (n + 1) + 1) = IF Context(qs[n + 1].tag) # "" THEN Context(qs[n + 1].tag)
                                   ELSE About(qs, n + 1)
        BY <2>1, AboutNext
    <2>5. About(qs, (n + 1) + 1) = y
        BY <1>3, <1>6, <2>2, <2>3, <2>4, Zenon
    <2>6. new.context = y
        BY <2>2, <2>3, Zenon DEF IsKept
    <2>7. QED BY <1>3, <2>5, <2>6, Zenon
<1>9. new.kept = qs
    BY <1>1, Zenon DEF IsKept
<1>10. QED BY <1>7, <1>8, <1>9, Zenon DEF Tidy

LEMMA SanitizeTurn ==
    ASSUME NEW ps \in Seq(Packets), NEW j \in 1..Len(ps), NEW st \in States,
           st.context = About(ps, j), Tidy(st)
    PROVE  IsTurn(ps, j, st, SanitizeOne(st, ps[j]))
<1>1. PICK p : p = ps[j]
    OBVIOUS
<1>2. p \in Packets /\ j \in Nat \ {0}
    BY <1>1, LenProperties
<1>3. PICK x : x = Context(p.tag)
    OBVIOUS
<1>4. x \in Contexts \cup {""} /\ (p.tag = Signature => x = "")
    BY <1>3, ContextFacts
<1>5. PICK cx : cx = IF x # "" THEN x ELSE st.context
    OBVIOUS
<1>6. st.context \in Contexts /\ st.kept \in Seq(Packets) /\ st.changed \in BOOLEAN
    BY DEF States
<1>7. cx = About(ps, j + 1)
    <2>1. About(ps, j + 1) = IF Context(ps[j].tag) # "" THEN Context(ps[j].tag)
                             ELSE About(ps, j)
        BY <1>2, AboutNext
    <2>2. QED BY <1>1, <1>3, <1>5, <2>1, Zenon
<1>8. cx \in Contexts
    BY <1>4, <1>5, <1>6, Zenon
<1>9. p.tag = Signature => cx = st.context
    BY <1>4, <1>5, Zenon
<1> DEFINE Bad == p.tag = Signature /\ SigType(p) # NoType /\ SigType(p) \notin ValidIn(cx)
           new == SanitizeOne(st, ps[j])
<1>10. Bad <=> Misplaced(ps, j)
    BY <1>1, <1>9, Zenon DEF Misplaced
<1>11. new = IF Bad THEN [st EXCEPT !.changed = TRUE]
             ELSE [context |-> cx, kept |-> Append(st.kept, p), changed |-> st.changed]
    BY <1>1, <1>3, <1>5, Zenon DEF SanitizeOne
<1>12. CASE Bad
    <2>1. new = [st EXCEPT !.changed = TRUE] /\ p.tag = Signature
        BY <1>11, <1>12, Zenon
    <2>2. /\ new \in States /\ new.context = st.context /\ new.kept = st.kept
          /\ new.changed = TRUE
        BY <2>1 DEF States
    <2>3. Tidy(new)
        BY <2>2, Zenon DEF Tidy
    <2>4. new.context = About(ps, j + 1)
        BY <1>7, <1>9, <2>1, <2>2, Zenon
    <2> HIDE DEF new, Bad
    <2>5. QED BY <1>10, <1>12, <2>2, <2>3, <2>4, Zenon DEF IsTurn, new
<1>13. CASE ~Bad
    <2>1. new = [context |-> cx, kept |-> Append(st.kept, p), changed |-> st.changed]
        BY <1>11, <1>13, Zenon
    <2>2. new.context = cx /\ new.kept = Append(st.kept, p) /\ new.changed = st.changed
        BY <2>1
    <2>3. Append(st.kept, p) \in Seq(Packets)
        BY <1>2, <1>6, AppendProperties
    <2>4. new \in States
        BY <1>6, <1>8, <2>1, <2>3 DEF States
    <2>5. PICK kept \in Seq(Packets) : kept = st.kept
        BY <1>6
    <2>6. Tidy(new)
        <3>1. new.kept = Append(kept, p)
            BY <2>2, <2>5, Zenon
        <3>2. new.context = IF Context(p.tag) # "" THEN Context(p.tag) ELSE st.context
            BY <1>3, <1>5, <2>2, Zenon
        <3>3. ~(/\ p.tag = Signature /\ SigType(p) # NoType
                /\ SigType(p) \notin ValidIn(st.context))
            BY <1>9, <1>13, Zenon
        <3> HIDE DEF new
        <3>4. IsKept(st, p, new)
            BY <2>5, <3>1, <3>2, <3>3, Zenon DEF IsKept
        <3>5. QED BY <1>2, <2>5, <3>4, TidyAppend
    <2> HIDE DEF new, Bad
    <2>7. new.context = About(ps, j + 1) /\ new.kept = Append(st.kept, ps[j])
        BY <1>1, <1>7, <2>2, Zenon
    <2>8. QED BY <1>10, <1>13, <2>2, <2>4, <2>6, <2>7, Zenon DEF IsTurn, new
<1>14. QED BY <1>12, <1>13

LEMMA SanitizeTyped ==
    ASSUME NEW st \in States, NEW p \in Packets
    PROVE  SanitizeOne(st, p) \in States
<1>1. PICK x : x = Context(p.tag)
    OBVIOUS
<1>2. x \in Contexts \cup {""}
    BY <1>1, ContextFacts
<1>3. PICK cx : cx = IF x # "" THEN x ELSE st.context
    OBVIOUS
<1>4. st.context \in Contexts /\ st.kept \in Seq(Packets) /\ st.changed \in BOOLEAN
    BY DEF States
<1>5. cx \in Contexts
    BY <1>2, <1>3, <1>4, Zenon
<1>6. PICK bad \in BOOLEAN :
        bad <=> p.tag = Signature /\ SigType(p) # NoType /\ SigType(p) \notin ValidIn(cx)
    OBVIOUS
<1>7. SanitizeOne(st, p)
        = IF bad THEN [st EXCEPT !.changed = TRUE]
          ELSE [context |-> cx, kept |-> Append(st.kept, p), changed |-> st.changed]
    BY <1>1, <1>3, <1>6, Zenon DEF SanitizeOne
<1>8. Append(st.kept, p) \in Seq(Packets)
    BY <1>4, AppendProperties
<1>9. [st EXCEPT !.changed = TRUE] \in States
    BY DEF States
<1>10. [context |-> cx, kept |-> Append(st.kept, p), changed |-> st.changed] \in States
    BY <1>4, <1>5, <1>8, Zenon DEF States
<1>11. QED BY <1>7, <1>9, <1>10, Zenon

Begun == [context |-> "primary", kept |-> << >>, changed |-> FALSE]

LEMMA SanitizedLoop ==
    ASSUME NEW ps \in Seq(Packets)
    PROVE  \E u : /\ Sanitized(ps) = u[Len(ps)] /\ u[0] = Begun
                  /\ \A j \in 1..Len(ps) : u[j] = SanitizeOne(u[j - 1], ps[j])
<1> DEFINE N == Len(ps)
           Nx(h, j) == IF j = 0 THEN Begun ELSE SanitizeOne(h[j - 1], ps[j])
           G == CHOOSE f : f = [j \in 0..N |-> Nx(f, j)]
           turn == [j \in 1..N |-> [st \in States |-> SanitizeOne(st, ps[j])]]
<1>1. N \in Nat /\ \A j \in 1..N : ps[j] \in Packets
    BY LenProperties
<1>2. Sanitized(ps) = G[N]
    BY Zenon DEF Sanitized, Begun
<1> HIDE DEF N
<1>3. turn \in [1..N -> [States -> States]]
    <2>1. \A j \in 1..N : \A st \in States : SanitizeOne(st, ps[j]) \in States
        BY <1>1, SanitizeTyped
    <2>2. QED BY <2>1
<1>4. Begun \in States
    BY DEF Begun, States, Contexts
<1>5. PICK u : /\ u \in [0..N -> States] /\ u[0] = Begun
               /\ \A j \in 1..N : u[j] = turn[j][u[j - 1]]
    <2> HIDE DEF turn
    <2>1. \E f : IsLoop(f, States, Begun, N, turn)
        BY <1>1, <1>3, <1>4, IterationExists
    <2>2. QED BY <2>1 DEF IsLoop
<1>6. \A j \in 1..N : j - 1 \in 0..N /\ j \in 0..N /\ j # 0
    BY <1>1
<1>7. \A j \in 1..N : u[j] = SanitizeOne(u[j - 1], ps[j])
    <2> SUFFICES ASSUME NEW j \in 1..N PROVE u[j] = SanitizeOne(u[j - 1], ps[j])
        OBVIOUS
    <2>1. u[j - 1] \in States /\ u[j] = turn[j][u[j - 1]]
        BY <1>5, <1>6
    <2>2. \A st \in States : turn[j][st] = SanitizeOne(st, ps[j])
        OBVIOUS
    <2> HIDE DEF turn
    <2>3. QED BY <2>1, <2>2
<1>8. \A j \in 0..N : u[j] = Nx(u, j)
    <2>1. \A j \in 0..N : j = 0 \/ j \in 1..N
        BY <1>1
    <2>2. QED BY <1>5, <1>6, <1>7, <2>1, Zenon
<1>9. u = [j \in 0..N |-> Nx(u, j)]
    <2> HIDE DEF Nx
    <2>1. u = [j \in 0..N |-> u[j]]
        BY <1>5
    <2>2. [j \in 0..N |-> u[j]] = [j \in 0..N |-> Nx(u, j)]
        BY <1>8
    <2>3. QED BY <2>1, <2>2
<1>10. G = [j \in 0..N |-> Nx(G, j)]
    <2> HIDE DEF Nx
    <2>1. QED BY <1>9
<1> HIDE DEF G
<1>11. \A j \in 0..N : G[j] = Nx(G, j)
    <2> HIDE DEF Nx
    <2>1. QED BY <1>10
<1>12. G[0] = Begun /\ \A j \in 1..N : G[j] = SanitizeOne(G[j - 1], ps[j])
    <2>1. 0 \in 0..N
        BY <1>1
    <2>2. QED BY <1>6, <1>11, <2>1, Zenon
<1>13. QED BY <1>2, <1>12 DEF N

\* The packets of ps that are not misplaced, and the lists they are put together from.
Placed(ps) == [j \in DOMAIN ps |-> IF Misplaced(ps, j) THEN << >> ELSE << ps[j] >>]

LEMMA PlacedLoop ==
    ASSUME NEW ps \in Seq(Packets)
    PROVE  \E f : /\ FlattenSeq(Placed(ps)) = IF Len(ps) = 0 THEN << >> ELSE f[Len(ps)]
                  /\ \A j \in 1..Len(ps) :
                        f[j] = IF j = 1 THEN Placed(ps)[j] ELSE f[j - 1] \o Placed(ps)[j]
<1> DEFINE ss == Placed(ps)
           N == Len(ss)
           Nx(h, j) == IF j = 1 THEN ss[j] ELSE h[j - 1] \o ss[j]
           G == CHOOSE f : f = [j \in 1..N |-> Nx(f, j)]
<1>1. Len(ps) \in Nat /\ DOMAIN ps = 1..Len(ps)
    BY LenProperties
<1>2. N = Len(ps)
    <2>1. DOMAIN ss = 1..Len(ps) /\ ss \in [1..Len(ps) -> {ss[j] : j \in 1..Len(ps)}]
        BY <1>1 DEF Placed
    <2> HIDE DEF ss
    <2>2. ss \in Seq({ss[j] : j \in 1..Len(ps)})
        BY <1>1, <2>1
    <2>3. QED BY <1>1, <2>1, <2>2, LenProperties
<1>3. FlattenSeq(ss) = IF N = 0 THEN ss ELSE G[N]
    BY Zenon DEF FlattenSeq
<1>4. N = 0 => ss = << >>
    <2>1. N = 0 => DOMAIN ps = 1..0
        BY <1>1, <1>2
    <2>2. [j \in 1..0 |-> IF Misplaced(ps, j) THEN << >> ELSE << ps[j] >>] = << >>
        OBVIOUS
    <2>3. QED BY <2>1, <2>2, Zenon DEF Placed
<1> HIDE DEF ss
<1>5. \E f : f = [j \in 1..N |-> Nx(f, j)]
    <2>1. N \in Nat
        BY <1>1, <1>2
    <2> HIDE DEF N
    <2>2. QED BY <2>1, FlattenExists
<1>6. G = [j \in 1..N |-> Nx(G, j)]
    <2> HIDE DEF Nx
    <2>1. QED BY <1>5
<1> HIDE DEF G
<1>7. \A j \in 1..N : G[j] = Nx(G, j)
    <2> HIDE DEF Nx
    <2>1. QED BY <1>6
<1> HIDE DEF N
<1>8. /\ FlattenSeq(ss) = IF Len(ps) = 0 THEN << >> ELSE G[Len(ps)]
      /\ \A j \in 1..Len(ps) : G[j] = IF j = 1 THEN ss[j] ELSE G[j - 1] \o ss[j]
    BY <1>2, <1>3, <1>4, <1>7, Zenon
<1>9. QED BY <1>8, Zenon DEF ss

\* What sanitizeKeyblock leaves of ps.
LEMMA SanitizedIs ==
    ASSUME NEW ps \in Seq(Packets)
    PROVE  /\ Sanitized(ps) \in States /\ Tidy(Sanitized(ps))
           /\ Sanitized(ps).kept = FlattenSeq(Placed(ps))
           /\ Sanitized(ps).changed <=> \E q \in 1..Len(ps) : Misplaced(ps, q)
<1>1. PICK u : /\ Sanitized(ps) = u[Len(ps)] /\ u[0] = Begun
               /\ \A j \in 1..Len(ps) : u[j] = SanitizeOne(u[j - 1], ps[j])
    BY SanitizedLoop
<1>2. PICK f : /\ FlattenSeq(Placed(ps)) = IF Len(ps) = 0 THEN << >> ELSE f[Len(ps)]
               /\ \A j \in 1..Len(ps) :
                     f[j] = IF j = 1 THEN Placed(ps)[j] ELSE f[j - 1] \o Placed(ps)[j]
    BY PlacedLoop
<1>3. PICK N \in Nat : N = Len(ps) /\ DOMAIN ps = 1..N /\ \A j \in 1..N : ps[j] \in Packets
    BY LenProperties
<1> DEFINE To(j) == IF j = 0 THEN << >> ELSE f[j]
           Good(j) == /\ u[j] \in States /\ u[j].context = About(ps, j + 1) /\ Tidy(u[j])
                      /\ u[j].kept = To(j)
                      /\ u[j].changed <=> \E q \in 1..j : Misplaced(ps, q)
           P == {j \in Nat : j <= N => Good(j)}
<1>4. 0 \in P
    <2>1. /\ Begun \in States /\ Begun.context = "primary" /\ Begun.kept = << >>
          /\ Begun.changed = FALSE
        BY DEF Begun, States, Contexts
    <2>2. About(ps, 0 + 1) = "primary" /\ About(<< >>, 0 + 1) = "primary" /\ Len(<< >>) = 0
        <3>1. 0 + 1 = 1 /\ Len(<< >>) = 0
            OBVIOUS
        <3>2. QED BY <3>1, AboutFirst
    <2>3. Tidy(Begun)
        <3>1. \A q : ~(q \in 1..0)
            OBVIOUS
        <3>2. QED BY <2>1, <2>2, <3>1, Zenon DEF Tidy
    <2>4. \A q : ~(q \in 1..0)
        OBVIOUS
    <2>5. Good(0)
        BY <1>1, <2>1, <2>2, <2>3, <2>4, Zenon
    <2> HIDE DEF Good
    <2>6. QED BY <2>5
<1> HIDE DEF To
<1>5. ASSUME NEW j \in Nat, j \in P PROVE j + 1 \in P
    <2> SUFFICES ASSUME j + 1 <= N PROVE Good(j + 1)
        <3> HIDE DEF Good
        <3>1. QED OBVIOUS
    <2>1. j + 1 \in 1..N /\ (j + 1) - 1 = j /\ j <= N /\ j + 1 # 0 /\ (j + 1 = 1 <=> j = 0)
        OBVIOUS
    <2>2. Good(j)
        <3> HIDE DEF Good
        <3>1. QED BY <1>5, <2>1
    <2>3. PICK st : st = u[j]
        OBVIOUS
    <2>4. PICK new : new = u[j + 1]
        OBVIOUS
    <2>5. PICK k : k = j + 1
        OBVIOUS
    <2>6. IsTurn(ps, k, st, new)
        <3>1. st \in States /\ st.context = About(ps, k) /\ Tidy(st)
            BY <2>2, <2>3, <2>5, Zenon
        <3>2. k \in 1..Len(ps) /\ new = SanitizeOne(st, ps[k])
            BY <1>1, <1>3, <2>1, <2>3, <2>4, <2>5, Zenon
        <3>3. IsTurn(ps, k, st, SanitizeOne(st, ps[k]))
            BY <3>1, <3>2, SanitizeTurn
        <3>4. QED BY <3>2, <3>3, Zenon
    <2>7. PICK bad \in BOOLEAN : bad <=> Misplaced(ps, k)
        OBVIOUS
    <2>8. PICK p : p = ps[k]
        OBVIOUS
    <2>9. p \in Packets /\ st.kept \in Seq(Packets) /\ st.kept = To(j)
        <3>1. st \in States
            BY <2>2, <2>3, Zenon
        <3>2. st.kept \in Seq(Packets)
            BY <3>1 DEF States
        <3>3. QED BY <1>3, <2>1, <2>2, <2>3, <2>5, <2>8, <3>2, Zenon
    <2>10. Placed(ps)[k] = IF bad THEN << >> ELSE << p >>
        <3>1. k \in DOMAIN ps
            BY <1>3, <2>1, <2>5, Zenon
        <3>2. Placed(ps)[k] = IF Misplaced(ps, k) THEN << >> ELSE << ps[k] >>
            BY <3>1 DEF Placed
        <3>3. QED BY <2>7, <2>8, <3>2, Zenon
    <2>11. f[k] = st.kept \o Placed(ps)[k]
        <3>1. f[k] = IF k = 1 THEN Placed(ps)[k] ELSE f[j] \o Placed(ps)[k]
            BY <1>2, <1>3, <2>1, <2>5, Zenon
        <3>2. CASE j = 0
            <4>1. st.kept = << >>
                BY <2>9, <3>2, Zenon DEF To
            <4>2. f[k] = Placed(ps)[k]
                BY <2>1, <2>5, <3>1, <3>2, Zenon
            <4>3. Placed(ps)[k] \in Seq(Packets)
                BY <2>9, <2>10
            <4>4. << >> \o Placed(ps)[k] = Placed(ps)[k]
                BY <4>3, ConcatEmptySeq
            <4>5. QED BY <4>1, <4>2, <4>4, Zenon
        <3>3. CASE j # 0
            BY <2>1, <2>5, <2>9, <3>1, <3>3, Zenon DEF To
        <3>4. QED BY <3>2, <3>3
    <2>12. new.kept = f[k]
        <3>1. new.kept = IF bad THEN st.kept ELSE Append(st.kept, p)
            BY <2>6, <2>7, <2>8, Zenon DEF IsTurn
        <3>2. CASE bad
            <4>1. st.kept \o << >> = st.kept
                BY <2>9, ConcatEmptySeq
            <4>2. QED BY <2>10, <2>11, <3>1, <3>2, <4>1, Zenon
        <3>3. CASE ~bad
            <4>1. Append(st.kept, p) = st.kept \o << p >>
                BY <2>9, AppendIsConcat
            <4>2. QED BY <2>10, <2>11, <3>1, <3>3, <4>1, Zenon
        <3>4. QED BY <3>2, <3>3
    <2>13. new.kept = To(j + 1)
        BY <2>1, <2>5, <2>12, Zenon DEF To
    <2>14. new.changed <=> \E q \in 1..k : Misplaced(ps, q)
        <3>1. \A q : q \in 1..(j + 1) <=> q \in 1..j \/ q = j + 1
            OBVIOUS
        <3>2. st.changed <=> \E q \in 1..j : Misplaced(ps, q)
            BY <2>2, <2>3, Zenon
        <3>3. new.changed <=> st.changed \/ Misplaced(ps, k)
            BY <2>6, Zenon DEF IsTurn
        <3>4. QED BY <2>5, <3>1, <3>2, <3>3, Zenon
    <2>15. new \in States /\ new.context = About(ps, k + 1) /\ Tidy(new)
        BY <2>6, Zenon DEF IsTurn
    <2>16. QED BY <2>4, <2>5, <2>13, <2>14, <2>15, Zenon
<1> HIDE DEF P
<1>6. N \in P /\ N <= N
    BY <1>4, <1>5, NatSetInduction
<1> HIDE DEF Good
<1>7. Good(N)
    BY <1>6 DEF P
<1>8. FlattenSeq(Placed(ps)) = To(N)
    BY <1>2, <1>3, Zenon DEF To
<1>9. QED BY <1>1, <1>3, <1>7, <1>8, Zenon DEF Good

-----------------------------------------------------------------------------
(* The specification.                                                       *)

\* What the packets are at each step: first all that Walk found, then those that
\* the repair kept.  Until the retry, and where it failed too, nothing that is
\* misplaced is among them.
BlockInv ==
    /\ import \in Imports
    /\ packets \in Seq(Packets) \cup {Refused}
    /\ pc = "repair" => packets = Walk(import.block)
    /\ pc = "retry" => /\ Walk(import.block) # Refused
                       /\ packets = FlattenSeq(Placed(Walk(import.block)))
    /\ pc \in {"retry", "failed"} /\ packets # Refused
         => \A j \in DOMAIN packets : ~Misplaced(packets, j)

LEMMA BlockInit == Init => BlockInv
<1> SUFFICES ASSUME Init PROVE BlockInv
    OBVIOUS
<1>1. import \in Imports /\ pc = "parse" /\ packets = << >>
    BY Zenon DEF Init
<1>2. packets \in Seq(Packets)
    BY <1>1
<1>3. pc # "repair" /\ pc # "retry" /\ pc # "failed" /\ pc # "parsed"
    BY <1>1
<1>4. QED BY <1>1, <1>2, <1>3, Zenon DEF BlockInv

LEMMA StrictParseInv == BlockInv /\ StrictParse => BlockInv'
<1> SUFFICES ASSUME BlockInv, StrictParse PROVE BlockInv'
    OBVIOUS
<1>1. /\ import \in Imports /\ import' = import /\ packets' = Walk(import.block)
      /\ pc' = "parsed" \/ pc' = "repair"
    BY Zenon DEF BlockInv, StrictParse
<1>2. IsStream(import.block)
    BY <1>1, ImportsAssumption, Zenon
<1>3. packets' \in Seq(Packets) \cup {Refused}
    BY <1>1, <1>2, WalkFinds
<1>4. pc' # "retry" /\ pc' # "failed"
    BY <1>1, Zenon
<1>5. import' \in Imports /\ packets' = Walk(import'.block)
    BY <1>1, Zenon
<1>6. QED BY <1>3, <1>4, <1>5, Zenon DEF BlockInv

LEMMA RepairInv == BlockInv /\ Repair => BlockInv'
<1> SUFFICES ASSUME BlockInv, Repair PROVE BlockInv'
    OBVIOUS
<1>1. /\ import \in Imports /\ import' = import /\ packets = Walk(import.block)
      /\ packets \in Seq(Packets) \cup {Refused}
    BY Zenon DEF BlockInv, Repair
<1>2. CASE packets = Refused \/ ~Sanitized(packets).changed
    <2>1. pc' = "failed" /\ packets' = packets
        BY <1>2, Zenon DEF Repair
    <2>2. packets # Refused => \A j \in DOMAIN packets : ~Misplaced(packets, j)
        <3> SUFFICES ASSUME packets # Refused PROVE \A j \in DOMAIN packets : ~Misplaced(packets, j)
            OBVIOUS
        <3>1. packets \in Seq(Packets)
            BY <1>1
        <3>2. DOMAIN packets = 1..Len(packets)
            BY <3>1, LenProperties
        <3>3. Sanitized(packets).changed <=> \E q \in 1..Len(packets) : Misplaced(packets, q)
            BY <3>1, SanitizedIs
        <3>4. QED BY <1>2, <3>2, <3>3, Zenon
    <2>3. pc' # "repair" /\ pc' # "retry" /\ pc' # "parsed"
        BY <2>1
    <2>4. packets' # Refused => \A j \in DOMAIN packets' : ~Misplaced(packets', j)
        BY <2>1, <2>2, Zenon
    <2>5. import' \in Imports /\ packets' \in Seq(Packets) \cup {Refused}
        BY <1>1, <2>1, Zenon
    <2>6. QED BY <2>3, <2>4, <2>5, Zenon DEF BlockInv
<1>3. CASE ~(packets = Refused \/ ~Sanitized(packets).changed)
    <2>1. pc' = "retry" /\ packets' = Sanitized(packets).kept /\ packets # Refused
        BY <1>3, Zenon DEF Repair
    <2>2. packets \in Seq(Packets)
        BY <1>1, <2>1
    <2>3. PICK st : st = Sanitized(packets)
        OBVIOUS
    <2>4. st \in States /\ Tidy(st) /\ st.kept = FlattenSeq(Placed(packets))
        BY <2>2, <2>3, SanitizedIs
    <2>5. packets' = st.kept /\ packets' \in Seq(Packets)
        <3>1. st.kept \in Seq(Packets)
            BY <2>4 DEF States
        <3>2. QED BY <2>1, <2>3, <3>1, Zenon
    <2>6. \A j \in DOMAIN packets' : ~Misplaced(packets', j)
        <3>1. DOMAIN packets' = 1..Len(packets')
            BY <2>5, LenProperties
        <3>2. \A j \in 1..Len(packets') : ~Misplaced(packets', j)
            BY <2>4, <2>5, Zenon DEF Tidy
        <3>3. QED BY <3>1, <3>2, Zenon
    <2>7. /\ Walk(import'.block) # Refused
          /\ packets' = FlattenSeq(Placed(Walk(import'.block)))
        BY <1>1, <2>1, <2>4, <2>5, Zenon
    <2>8. pc' # "repair" /\ pc' # "parsed"
        BY <2>1
    <2>9. import' \in Imports /\ packets' \in Seq(Packets) \cup {Refused}
        BY <1>1, <2>5, Zenon
    <2>10. QED BY <2>6, <2>7, <2>8, <2>9, Zenon DEF BlockInv
<1>4. QED BY <1>2, <1>3

LEMMA RetryInv == BlockInv /\ Retry => BlockInv'
<1> SUFFICES ASSUME BlockInv, Retry PROVE BlockInv'
    OBVIOUS
<1>1. /\ import' = import /\ packets' = packets /\ pc = "retry"
      /\ pc' = "parsed" \/ pc' = "failed"
    BY Zenon DEF Retry
<1>2. /\ import \in Imports /\ packets \in Seq(Packets) \cup {Refused}
      /\ packets # Refused => \A j \in DOMAIN packets : ~Misplaced(packets, j)
    BY <1>1, Zenon DEF BlockInv
<1>3. pc' # "repair" /\ pc' # "retry"
    BY <1>1, Zenon
<1>4. /\ import' \in Imports /\ packets' \in Seq(Packets) \cup {Refused}
      /\ packets' # Refused => \A j \in DOMAIN packets' : ~Misplaced(packets', j)
    BY <1>1, <1>2, Zenon
<1>5. QED BY <1>3, <1>4, Zenon DEF BlockInv

LEMMA AfterParseInv == BlockInv /\ (Save \/ Open) => BlockInv'
<1> SUFFICES ASSUME BlockInv, Save \/ Open PROVE BlockInv'
    OBVIOUS
<1>1. /\ import' = import /\ packets' = packets
      /\ pc' = "refused" \/ pc' = "saved" \/ pc' = "opened"
    BY Zenon DEF Save, Open
<1>2. pc' # "repair" /\ pc' # "retry" /\ pc' # "failed" /\ pc' # "parsed"
    BY <1>1, Zenon
<1>3. import' \in Imports /\ packets' \in Seq(Packets) \cup {Refused}
    BY <1>1, Zenon DEF BlockInv
<1>4. QED BY <1>2, <1>3, Zenon DEF BlockInv

LEMMA BlockNext == BlockInv /\ [Next]_vars => BlockInv'
<1> SUFFICES ASSUME BlockInv, [Next]_vars PROVE BlockInv'
    OBVIOUS
<1>1. CASE StrictParse
    BY <1>1, StrictParseInv
<1>2. CASE Repair
    BY <1>2, RepairInv
<1>3. CASE Retry
    BY <1>3, RetryInv
<1>4. CASE Save \/ Open
    BY <1>4, AfterParseInv
<1>5. CASE UNCHANGED vars
    <2>1. import' = import /\ pc' = pc /\ packets' = packets
        BY <1>5 DEF vars
    <2>2. QED BY <2>1, Zenon DEF BlockInv
<1>6. QED BY <1>1, <1>2, <1>3, <1>4, <1>5, Zenon DEF Next

LEMMA BlockInvariant == Spec => []BlockInv
<1>1. Init => BlockInv
    BY BlockInit
<1>2. BlockInv /\ [Next]_vars => BlockInv'
    BY BlockNext
<1>3. QED BY <1>1, <1>2, PTL DEF Spec

\* Whatever stream of packets ParseKeys is given, of any length and cut off anywhere,
\* Walk finds the packets that were written, each where it is and as long as it
\* is, if all of them are whole and have a definite length, and refuses the
\* stream if not.
THEOREM WalkReadsAll == Spec => []WalkTiles
<1>1. BlockInv => WalkTiles
    <2> SUFFICES ASSUME BlockInv, pc = "repair" PROVE packets = Found(import.block)
        BY Zenon DEF WalkTiles, Found
    <2>1. import \in Imports /\ packets = Walk(import.block)
        BY Zenon DEF BlockInv
    <2>2. IsStream(import.block)
        BY <2>1, ImportsAssumption, Zenon
    <2>3. QED BY <2>1, <2>2, WalkFinds
<1>2. QED BY <1>1, BlockInvariant, PTL

\* sanitizeKeyblock takes away exactly the signatures that have no place where they
\* stand, and leaves none that a second repair would take away: what a
\* signature is about does not change when others before it go.  ParseKeys
\* gives a block up only when there is nothing to repair.
THEOREM RepairsExactly == Spec => []RepairExact
<1>1. BlockInv => RepairExact
    <2> SUFFICES ASSUME BlockInv PROVE RepairExact
        OBVIOUS
    <2>1. pc = "retry" => packets = FlattenSeq(Placed(Walk(import.block)))
        BY Zenon DEF BlockInv
    <2>2. pc \in {"retry", "failed"} /\ packets # Refused
            => \A j \in DOMAIN packets : ~Misplaced(packets, j)
        BY Zenon DEF BlockInv
    <2>3. QED BY <2>1, <2>2, Zenon DEF RepairExact, Placed
<1>2. QED BY <1>1, BlockInvariant, PTL

-----------------------------------------------------------------------------
(* Fields, one after the other.                                             *)

Sized(X) == \A f \in X : f.size \in Nat \ {0}

\* e[j] is where the first j fields end.
Run(e, fs) ==
    /\ e \in [0..Len(fs) -> Nat] /\ e[0] = 0
    /\ \A j \in 1..Len(fs) : e[j - 1] \in Nat /\ e[j] \in Nat /\ e[j] = e[j - 1] + fs[j].size

LEMMA EndsIs ==
    ASSUME NEW X, Sized(X), NEW fs \in Seq(X)
    PROVE  Run(Ends(fs), fs)
<1> DEFINE N == Len(fs)
           Nx(h, j) == IF j = 0 THEN 0 ELSE h[j - 1] + fs[j].size
           G == CHOOSE f : f = [j \in 0..N |-> Nx(f, j)]
           add == [j \in 1..N |-> [x \in Nat |-> x + fs[j].size]]
<1>1. N \in Nat /\ \A j \in 1..N : fs[j].size \in Nat
    <2>1. N \in Nat /\ \A j \in 1..N : fs[j] \in X
        BY LenProperties
    <2>2. QED BY <2>1 DEF Sized
<1>2. Ends(fs) = G
    BY Zenon DEF Ends
<1> HIDE DEF N
<1>3. add \in [1..N -> [Nat -> Nat]]
    BY <1>1
<1>4. PICK t : /\ t \in [0..N -> Nat] /\ t[0] = 0
               /\ \A j \in 1..N : t[j] = add[j][t[j - 1]]
    <2> HIDE DEF add
    <2>1. 0 \in Nat
        OBVIOUS
    <2>2. \E f : IsLoop(f, Nat, 0, N, add)
        BY <1>1, <1>3, <2>1, IterationExists
    <2>3. QED BY <2>2 DEF IsLoop
<1>5. \A j \in 1..N : j - 1 \in 0..N /\ j \in 0..N /\ t[j - 1] \in Nat /\ t[j] \in Nat
                     /\ t[j] = t[j - 1] + fs[j].size
    <2> SUFFICES ASSUME NEW j \in 1..N
                 PROVE  /\ j - 1 \in 0..N /\ j \in 0..N /\ t[j - 1] \in Nat /\ t[j] \in Nat
                        /\ t[j] = t[j - 1] + fs[j].size
        OBVIOUS
    <2>1. j - 1 \in 0..N /\ j \in 0..N
        BY <1>1
    <2>2. t[j - 1] \in Nat /\ t[j] \in Nat /\ t[j] = add[j][t[j - 1]]
        BY <1>4, <2>1
    <2>3. \A x \in Nat : add[j][x] = x + fs[j].size
        OBVIOUS
    <2>4. QED BY <2>1, <2>2, <2>3
<1>6. \A j \in 0..N : t[j] = Nx(t, j)
    <2>1. \A j \in 0..N : j = 0 \/ j \in 1..N
        BY <1>1
    <2>2. QED BY <1>4, <1>5, <2>1
<1>7. t = [j \in 0..N |-> Nx(t, j)]
    <2> HIDE DEF Nx
    <2>1. t = [j \in 0..N |-> t[j]]
        BY <1>4
    <2>2. [j \in 0..N |-> t[j]] = [j \in 0..N |-> Nx(t, j)]
        BY <1>6
    <2>3. QED BY <2>1, <2>2
<1>8. G = [j \in 0..N |-> Nx(G, j)]
    <2> HIDE DEF Nx
    <2>1. QED BY <1>7
<1> HIDE DEF G
<1> DEFINE P == {j \in Nat : j <= N => G[j] = t[j]}
<1>9. 0 \in P
    BY <1>1, <1>4, <1>8
<1>10. ASSUME NEW j \in Nat, j \in P PROVE j + 1 \in P
    <2> SUFFICES ASSUME j + 1 <= N PROVE G[j + 1] = t[j + 1]
        OBVIOUS
    <2>1. j + 1 \in 0..N /\ j + 1 \in 1..N /\ (j + 1) - 1 = j /\ j + 1 # 0 /\ j <= N
        BY <1>1
    <2>2. G[j + 1] = G[j] + fs[j + 1].size
        BY <1>8, <2>1
    <2>3. t[j + 1] = t[j] + fs[j + 1].size
        BY <1>5, <2>1
    <2>4. QED BY <1>10, <2>1, <2>2, <2>3
<1> HIDE DEF P
<1>11. \A j \in 0..N : G[j] = t[j]
    <2>1. Nat \subseteq P
        BY <1>9, <1>10, NatSetInduction
    <2>2. QED BY <1>1, <2>1 DEF P
<1>12. DOMAIN G = 0..N
    BY <1>8
<1>13. G = t
    <2>1. G = [j \in 0..N |-> G[j]]
        <3>1. G = [j \in DOMAIN G |-> G[j]]
            <4> HIDE DEF Nx
            <4>1. QED BY <1>8
        <3>2. QED BY <1>12, <3>1
    <2>2. t = [j \in 0..N |-> t[j]]
        BY <1>4
    <2>3. [j \in 0..N |-> G[j]] = [j \in 0..N |-> t[j]]
        BY <1>11
    <2>4. QED BY <2>1, <2>2, <2>3
<1>14. QED BY <1>2, <1>4, <1>5, <1>13 DEF N, Run

LEMMA RunGrows ==
    ASSUME NEW X, Sized(X), NEW fs \in Seq(X), NEW e, Run(e, fs)
    PROVE  /\ Len(fs) \in Nat /\ \A j \in 0..Len(fs) : e[j] \in Nat
           /\ \A j, k \in 0..Len(fs) : j < k => e[j] < e[k]
<1>0. Len(fs) \in Nat /\ \A j \in 1..Len(fs) : fs[j].size \in Nat /\ fs[j].size >= 1
    <2>1. Len(fs) \in Nat /\ \A j \in 1..Len(fs) : fs[j] \in X
        BY LenProperties
    <2>2. QED BY <2>1 DEF Sized
<1> DEFINE P == {k \in Nat : k <= Len(fs) => \A j \in 0..Len(fs) : j < k => e[j] < e[k]}
<1>1. 0 \in P
    OBVIOUS
<1>2. ASSUME NEW k \in Nat, k \in P PROVE k + 1 \in P
    <2> SUFFICES ASSUME k + 1 <= Len(fs), NEW j \in 0..Len(fs), j < k + 1 PROVE e[j] < e[k + 1]
        OBVIOUS
    <2>1. k + 1 \in 1..Len(fs) /\ (k + 1) - 1 = k /\ k <= Len(fs)
        BY <1>0
    <2>2. e[k] \in Nat /\ e[k + 1] = e[k] + fs[k + 1].size
        BY <2>1 DEF Run
    <2>3. j = k \/ e[j] < e[k]
        BY <1>2, <2>1
    <2>4. e[j] \in Nat
        BY DEF Run
    <2>5. e[k] < e[k + 1]
        BY <1>0, <2>1, <2>2
    <2>6. QED BY <1>0, <2>1, <2>2, <2>3, <2>4, <2>5
<1> HIDE DEF P
<1>3. Nat \subseteq P
    BY <1>1, <1>2, NatSetInduction
<1>4. \A j \in 0..Len(fs) : e[j] \in Nat
    BY DEF Run
<1>5. QED BY <1>0, <1>3, <1>4 DEF P

\* Fields of the same sizes end at the same places.
LEMMA SameEnds ==
    ASSUME NEW fs, Len(fs) \in Nat, NEW e, Run(e, fs),
           NEW gs, Len(gs) \in 0..Len(fs), NEW u, Run(u, gs),
           \A j \in 1..Len(gs) : gs[j].size = fs[j].size
    PROVE  \A j \in 0..Len(gs) : u[j] = e[j]
<1> DEFINE P == {j \in Nat : j <= Len(gs) => u[j] = e[j]}
<1>1. 0 \in P
    BY DEF Run
<1>2. ASSUME NEW j \in Nat, j \in P PROVE j + 1 \in P
    <2> SUFFICES ASSUME j + 1 <= Len(gs) PROVE u[j + 1] = e[j + 1]
        OBVIOUS
    <2>1. j + 1 \in 1..Len(gs) /\ j + 1 \in 1..Len(fs) /\ (j + 1) - 1 = j /\ j <= Len(gs)
        OBVIOUS
    <2>2. u[j + 1] = u[j] + gs[j + 1].size
        BY <2>1 DEF Run
    <2>3. e[j + 1] = e[j] + fs[j + 1].size
        BY <2>1 DEF Run
    <2>4. QED BY <1>2, <2>1, <2>2, <2>3
<1> HIDE DEF P
<1>3. Nat \subseteq P
    BY <1>1, <1>2, NatSetInduction
<1>4. QED BY <1>3 DEF P

-----------------------------------------------------------------------------
(* Reading fields at their offsets.                                         *)

\* The fields of file are laid out as e says.
Spaced(file, e) ==
    /\ Len(file) \in Nat /\ DOMAIN file = 1..Len(file) /\ file = [j \in 1..Len(file) |-> file[j]]
    /\ e[0] = 0 /\ \A j \in 0..Len(file) : e[j] \in Nat
    /\ \A j, k \in 0..Len(file) : j < k => e[j] < e[k]
    /\ \A j \in 1..Len(file) :
          /\ j - 1 \in 0..Len(file) /\ j \in 0..Len(file)
          /\ file[j] = [at |-> e[j - 1], size |-> e[j] - e[j - 1], val |-> file[j].val]

LEMMA LaidSpaced ==
    ASSUME NEW X, Sized(X), NEW fs \in Seq(X)
    PROVE  /\ Spaced(Laid(fs).fields, Ends(fs)) /\ Len(Laid(fs).fields) = Len(fs)
           /\ Laid(fs).to = Ends(fs)[Len(fs)] /\ Bytesize(fs) = Ends(fs)[Len(fs)]
           /\ \A j \in 1..Len(fs) : /\ Laid(fs).fields[j].val = fs[j].val
                                     /\ Laid(fs).fields[j].size = fs[j].size
<1>1. PICK e : e = Ends(fs)
    OBVIOUS
<1>2. Run(e, fs)
    BY <1>1, EndsIs
<1>3. /\ Len(fs) \in Nat /\ DOMAIN fs = 1..Len(fs)
      /\ \A j \in 0..Len(fs) : e[j] \in Nat
      /\ \A j, k \in 0..Len(fs) : j < k => e[j] < e[k]
    BY <1>2, RunGrows
<1>4. PICK l : l = Laid(fs)
    OBVIOUS
<1> DEFINE fields == [j \in DOMAIN fs |-> [at |-> e[j - 1], size |-> fs[j].size, val |-> fs[j].val]]
<1>5. l = [to |-> e[Len(fs)], fields |-> fields]
    BY <1>1, <1>4, Zenon DEF Laid
<1>6. l.fields = fields /\ l.to = e[Len(fs)]
    <2> HIDE DEF fields
    <2>1. QED BY <1>5
<1>7. Bytesize(fs) = e[Len(fs)]
    BY <1>1, Zenon DEF Bytesize
<1>8. \A j \in 1..Len(fs) : fields[j] = [at |-> e[j - 1], size |-> fs[j].size, val |-> fs[j].val]
    BY <1>3, Zenon
<1>9. \A j \in 1..Len(fs) : fields[j].val = fs[j].val /\ fields[j].size = fs[j].size
    <2> SUFFICES ASSUME NEW j \in 1..Len(fs)
                 PROVE  fields[j].val = fs[j].val /\ fields[j].size = fs[j].size
        OBVIOUS
    <2>1. PICK x, y, z : x = e[j - 1] /\ y = fs[j].size /\ z = fs[j].val
        OBVIOUS
    <2> HIDE DEF fields
    <2>2. fields[j] = [at |-> x, size |-> y, val |-> z]
        BY <1>8, <2>1, Zenon
    <2>3. fields[j].val = z /\ fields[j].size = y
        BY <2>2
    <2>4. QED BY <2>1, <2>3, Zenon
<1>10. DOMAIN fields = 1..Len(fs) /\ Len(fields) = Len(fs) /\ fields = [j \in 1..Len(fs) |-> fields[j]]
    BY <1>3
<1> HIDE DEF fields
<1>11. ASSUME NEW j \in 1..Len(fs)
       PROVE  /\ j - 1 \in 0..Len(fs) /\ j \in 0..Len(fs)
              /\ fields[j] = [at |-> e[j - 1], size |-> e[j] - e[j - 1], val |-> fields[j].val]
    <2>1. j - 1 \in 0..Len(fs) /\ j \in 0..Len(fs)
        BY <1>3
    <2>2. e[j] = e[j - 1] + fs[j].size /\ e[j] \in Nat /\ e[j - 1] \in Nat
        BY <1>2 DEF Run
    <2>3. fs[j].size \in Nat
        <3>1. fs[j] \in X
            BY <1>3, LenProperties
        <3>2. QED BY <3>1 DEF Sized
    <2>4. fs[j].size = e[j] - e[j - 1]
        BY <2>2, <2>3
    <2>5. QED BY <1>8, <1>9, <2>1, <2>4, Zenon
<1>12. e[0] = 0
    BY <1>2 DEF Run
<1>13. Spaced(fields, e)
    BY <1>3, <1>10, <1>11, <1>12, Zenon DEF Spaced
<1>14. QED BY <1>1, <1>4, <1>6, <1>7, <1>9, <1>10, <1>13, Zenon

\* A field that is read where it is, and as long as it is, is that field.
LEMMA AtIs ==
    ASSUME NEW file, NEW e, Spaced(file, e), NEW len \in Nat, NEW j \in 1..Len(file),
           NEW i, i = e[j - 1], NEW size, size = e[j] - e[j - 1]
    PROVE  At(file, len, i, size) = IF e[j] > len THEN Garbage ELSE file[j].val
<1>0. /\ Len(file) \in Nat /\ DOMAIN file = 1..Len(file)
      /\ j - 1 \in 0..Len(file) /\ j \in 0..Len(file) /\ e[j] \in Nat /\ e[j - 1] \in Nat
    BY Zenon DEF Spaced
<1>1. \A k \in 1..Len(file) : file[k].at = e[k - 1] /\ file[k].size = e[k] - e[k - 1]
    <2> SUFFICES ASSUME NEW k \in 1..Len(file) PROVE file[k].at = e[k - 1] /\ file[k].size = e[k] - e[k - 1]
        OBVIOUS
    <2>1. PICK f : f = file[k]
        OBVIOUS
    <2>2. f = [at |-> e[k - 1], size |-> e[k] - e[k - 1], val |-> f.val]
        BY <2>1, Zenon DEF Spaced
    <2>3. f.at = e[k - 1] /\ f.size = e[k] - e[k - 1]
        BY <2>2
    <2>4. QED BY <2>1, <2>3, Zenon
<1> DEFINE here == {k \in DOMAIN file : file[k].at = i /\ file[k].size = size}
<1>2. \A k \in 1..Len(file) : e[k - 1] = e[j - 1] => k = j
    <2> SUFFICES ASSUME NEW k \in 1..Len(file), e[k - 1] = e[j - 1] PROVE k = j
        OBVIOUS
    <2>1. /\ k - 1 \in 0..Len(file) /\ e[k - 1] \in Nat
          /\ k - 1 < j - 1 => e[k - 1] < e[j - 1]
          /\ j - 1 < k - 1 => e[j - 1] < e[k - 1]
        BY <1>0, Zenon DEF Spaced
    <2>2. QED BY <1>0, <2>1
<1>3. here = {j}
    <2>1. \A k : k \in here <=> k \in 1..Len(file) /\ e[k - 1] = e[j - 1] /\ e[k] - e[k - 1] = size
        BY <1>0, <1>1, Zenon
    <2>2. \A k : k \in here <=> k = j
        BY <1>2, <2>1, Zenon
    <2> HIDE DEF here
    <2>3. QED BY <2>2
<1>4. Min({j}) = j
    <2>1. j \in Nat /\ j <= j
        BY <1>0
    <2>2. QED BY <2>1 DEF Min
<1>5. At(file, len, i, size) = IF here = {} \/ i + size > len THEN Garbage ELSE file[Min(here)].val
    BY Zenon DEF At
<1> HIDE DEF here
<1>6. here # {} /\ Min(here) = j
    BY <1>3, <1>4
<1>7. i + size = e[j]
    BY <1>0
<1>8. QED BY <1>5, <1>6, <1>7, Zenon

LEMMA MinIs ==
    ASSUME NEW S, NEW m \in S, \A x \in S : m <= x /\ (x <= m => x = m)
    PROVE  Min(S) = m
<1>1. \A x \in S : (\A y \in S : x <= y) => x = m
    OBVIOUS
<1>2. \A y \in S : m <= y
    OBVIOUS
<1>3. Min(S) \in S /\ \A y \in S : Min(S) <= y
    BY <1>2 DEF Min
<1>4. QED BY <1>1, <1>3

LEMMA MaxIs ==
    ASSUME NEW S, NEW m \in S, \A x \in S : m >= x /\ (x >= m => x = m)
    PROVE  Max(S) = m
<1>1. \A x \in S : (\A y \in S : x >= y) => x = m
    OBVIOUS
<1>2. \A y \in S : m >= y
    OBVIOUS
<1>3. Max(S) \in S /\ \A y \in S : Max(S) >= y
    BY <1>2 DEF Max
<1>4. QED BY <1>1, <1>3

Fragment(file, e, a, b) ==
    [q \in 1..(b - a) |-> [at |-> e[a + q - 1] - e[a], size |-> e[a + q] - e[a + q - 1],
                           val |-> file[a + q].val]]

\* A part that begins and ends where fields do has these fields.
LEMMA CutoutIs ==
    ASSUME NEW file, NEW e, Spaced(file, e), NEW a \in 0..Len(file), NEW b \in 0..Len(file), a < b,
           NEW from, from = e[a], NEW to, to = e[b]
    PROVE  Cutout(file, from, to) = Fragment(file, e, a, b)
<1>0. /\ Len(file) \in Nat /\ DOMAIN file = 1..Len(file) /\ a \in Nat /\ b \in Nat
      /\ \A j \in 0..Len(file) : e[j] \in Nat
    <2>1. Len(file) \in Nat /\ DOMAIN file = 1..Len(file) /\ \A j \in 0..Len(file) : e[j] \in Nat
        BY Zenon DEF Spaced
    <2>2. QED BY <2>1
<1> DEFINE in == {j \in DOMAIN file : file[j].at >= from /\ file[j].at < to}
           part == IF in = {} THEN << >> ELSE SubSeq(file, Min(in), Max(in))
<1>1. ASSUME NEW j \in 1..Len(file)
      PROVE  file[j] = [at |-> e[j - 1], size |-> e[j] - e[j - 1], val |-> file[j].val]
             /\ file[j].at = e[j - 1] /\ j - 1 \in 0..Len(file)
    <2>1. PICK f : f = file[j]
        OBVIOUS
    <2>2. f = [at |-> e[j - 1], size |-> e[j] - e[j - 1], val |-> f.val] /\ j - 1 \in 0..Len(file)
        BY <2>1, Zenon DEF Spaced
    <2>3. f.at = e[j - 1]
        BY <2>2
    <2>4. QED BY <2>1, <2>2, <2>3, Zenon
<1>2. \A j \in 1..Len(file) : j \in in <=> j \in (a + 1)..b
    <2> SUFFICES ASSUME NEW j \in 1..Len(file) PROVE j \in in <=> j \in (a + 1)..b
        OBVIOUS
    <2>1. j \in in <=> e[j - 1] >= e[a] /\ e[j - 1] < e[b]
        BY <1>0, <1>1, Zenon
    <2>2. PICK k \in 0..Len(file) : k = j - 1
        BY <1>1
    <2>3. /\ e[k] \in Nat /\ e[a] \in Nat /\ e[b] \in Nat
          /\ (k < a => e[k] < e[a]) /\ (a < k => e[a] < e[k])
          /\ (k < b => e[k] < e[b]) /\ (b < k => e[b] < e[k])
        BY <1>0, Zenon DEF Spaced
    <2>4. (e[k] >= e[a] /\ e[k] < e[b]) <=> (k >= a /\ k < b)
        <3>1. CASE k < a
            BY <1>0, <2>3, <3>1
        <3>2. CASE k > b \/ k = b
            BY <1>0, <2>3, <3>2
        <3>3. CASE k >= a /\ k < b
            BY <1>0, <2>3, <3>3
        <3>4. QED BY <1>0, <3>1, <3>2, <3>3
    <2>5. (k >= a /\ k < b) <=> j \in (a + 1)..b
        BY <1>0, <2>2
    <2>6. QED BY <2>1, <2>2, <2>4, <2>5, Zenon
<1>3. \A j : j \in in <=> j \in (a + 1)..b
    <2>1. \A j : j \in in => j \in 1..Len(file)
        BY <1>0
    <2>2. \A j \in (a + 1)..b : j \in 1..Len(file)
        BY <1>0
    <2> HIDE DEF in
    <2>3. QED BY <1>2, <2>1, <2>2
<1>4. Cutout(file, from, to) = [j \in DOMAIN part |-> [part[j] EXCEPT !.at = @ - from]]
    BY Zenon DEF Cutout
<1> HIDE DEF in
<1>5. in # {} /\ Min(in) = a + 1 /\ Max(in) = b
    <2>1. a + 1 \in in /\ b \in in
        BY <1>0, <1>3
    <2>2. \A x \in in : a + 1 <= x /\ (x <= a + 1 => x = a + 1) /\ b >= x /\ (x >= b => x = b)
        BY <1>0, <1>3
    <2>3. QED BY <2>1, <2>2, MinIs, MaxIs
<1>6. part = SubSeq(file, a + 1, b)
    BY <1>5, Zenon
<1> HIDE DEF part
<1>7. Len(part) = b - a /\ DOMAIN part = 1..(b - a) /\ \A q \in 1..(b - a) : part[q] = file[a + q]
    <2>1. PICK S : file \in Seq(S)
        <3> DEFINE S == {file[j] : j \in 1..Len(file)}
        <3>1. file = [j \in 1..Len(file) |-> file[j]] /\ \A j \in 1..Len(file) : file[j] \in S
            BY Zenon DEF Spaced
        <3> HIDE DEF S
        <3>2. file \in [1..Len(file) -> S]
            BY <3>1
        <3>3. file \in Seq(S)
            BY <1>0, <3>2
        <3>4. QED BY <3>3
    <2>2. a + 1 \in 1..(Len(file) + 1) /\ b \in ((a + 1) - 1)..Len(file)
        BY <1>0
    <2>3. /\ SubSeq(file, a + 1, b) \in Seq(S) /\ Len(SubSeq(file, a + 1, b)) = b - (a + 1) + 1
          /\ \A q \in 1..(b - (a + 1) + 1) : SubSeq(file, a + 1, b)[q] = file[(a + 1) + q - 1]
        BY <2>1, <2>2, SubSeqProperties
    <2>4. b - (a + 1) + 1 = b - a /\ \A q \in 1..(b - a) : (a + 1) + q - 1 = a + q
        BY <1>0
    <2>5. part \in Seq(S)
        BY <1>6, <2>3
    <2>6. DOMAIN part = 1..Len(part)
        BY <2>5
    <2>7. QED BY <1>6, <2>3, <2>4, <2>6
<1>8. ASSUME NEW q \in 1..(b - a)
      PROVE  [part[q] EXCEPT !.at = @ - from]
               = [at |-> e[a + q - 1] - e[a], size |-> e[a + q] - e[a + q - 1], val |-> file[a + q].val]
    <2>1. a + q \in 1..Len(file)
        BY <1>0
    <2>2. PICK x, y, z : x = e[a + q - 1] /\ y = e[a + q] - e[a + q - 1] /\ z = file[a + q].val
        OBVIOUS
    <2>3. part[q] = [at |-> x, size |-> y, val |-> z]
        <3>1. PICK j \in 1..Len(file) : j = a + q
            BY <2>1
        <3>2. file[j] = [at |-> e[j - 1], size |-> e[j] - e[j - 1], val |-> file[j].val]
            BY <1>1
        <3>3. part[q] = file[j]
            BY <1>7, <3>1, Zenon
        <3>4. x = e[j - 1] /\ y = e[j] - e[j - 1] /\ z = file[j].val
            BY <2>2, <3>1
        <3>5. QED BY <3>2, <3>3, <3>4, Zenon
    <2>4. [part[q] EXCEPT !.at = @ - from] = [at |-> x - from, size |-> y, val |-> z]
        BY <2>3
    <2>5. QED BY <2>2, <2>4, Zenon
<1>9. Cutout(file, from, to)
        = [q \in 1..(b - a) |-> [at |-> e[a + q - 1] - e[a], size |-> e[a + q] - e[a + q - 1],
                                val |-> file[a + q].val]]
    BY <1>4, <1>7, <1>8
<1>10. QED BY <1>9, Zenon DEF Fragment

-----------------------------------------------------------------------------
(* A list of lists put together: where its elements go.                     *)

Places(n, ss) ==
    /\ n[0] = 0
    /\ \A m \in 0..Len(ss) : n[m] \in Nat
    /\ \A m \in 1..Len(ss) : m - 1 \in 0..Len(ss) /\ m \in 0..Len(ss)
                             /\ Len(ss[m]) \in Nat /\ n[m] = n[m - 1] + Len(ss[m])
    /\ Len(FlattenSeq(ss)) = n[Len(ss)]
    /\ \A m \in 1..Len(ss) : \A j \in 1..Len(ss[m]) :
          n[m - 1] + j \in 1..n[Len(ss)] /\ FlattenSeq(ss)[n[m - 1] + j] = ss[m][j]
    /\ \A i \in 1..n[Len(ss)] : \E m \in 1..Len(ss) : \E j \in 1..Len(ss[m]) : i = n[m - 1] + j

\* f is what is put together of a list and s.
Joins(f, h, s) ==
    /\ Len(f) = Len(h) + Len(s)
    /\ \A j \in 1..Len(h) : f[j] = h[j]
    /\ \A j \in 1..Len(s) : f[Len(h) + j] = s[j]

LEMMA ConcatJoins ==
    ASSUME NEW S, NEW h \in Seq(S), NEW s \in Seq(S)
    PROVE  h \o s \in Seq(S) /\ Joins(h \o s, h, s) /\ Len(h) \in Nat /\ Len(s) \in Nat
<1>1. PICK f : f = h \o s
    OBVIOUS
<1>2. /\ f \in Seq(S) /\ Len(f) = Len(h) + Len(s) /\ Len(h) \in Nat /\ Len(s) \in Nat
      /\ \A i \in 1..(Len(h) + Len(s)) : f[i] = IF i <= Len(h) THEN h[i] ELSE s[i - Len(h)]
    <2>1. Len(h) \in Nat /\ Len(s) \in Nat
        BY LenProperties
    <2>2. QED BY <1>1, <2>1, ConcatProperties
<1>3. \A j \in 1..Len(h) : f[j] = h[j]
    BY <1>2
<1>4. ASSUME NEW j \in 1..Len(s) PROVE f[Len(h) + j] = s[j]
    <2>1. Len(h) + j \in 1..(Len(h) + Len(s)) /\ ~(Len(h) + j <= Len(h)) /\ Len(h) + j - Len(h) = j
        BY <1>2
    <2>2. QED BY <1>2, <2>1
<1>5. Joins(f, h, s)
    BY <1>2, <1>3, <1>4, Zenon DEF Joins
<1>6. QED BY <1>1, <1>2, <1>5, Zenon

LEMMA FlattenPlaces ==
    ASSUME NEW S, NEW ss \in Seq(Seq(S))
    PROVE  FlattenSeq(ss) \in Seq(S) /\ \E n : Places(n, ss)
<1> DEFINE N == Len(ss)
           Is(f) == f = [i \in 1..N |-> IF i = 1 THEN ss[i] ELSE f[i - 1] \o ss[i]]
           G == CHOOSE f : Is(f)
<1>1. N \in Nat /\ \A i \in 1..N : ss[i] \in Seq(S) /\ Len(ss[i]) \in Nat
    BY LenProperties
<1>2. FlattenSeq(ss) = IF N = 0 THEN ss ELSE G[N]
    BY DEF FlattenSeq
<1>3. \E f : Is(f)
    BY <1>1, FlattenExists
<1>4. Is(G)
    BY <1>3
<1> HIDE DEF G
<1>5. \A i \in 1..N : G[i] = IF i = 1 THEN ss[i] ELSE G[i - 1] \o ss[i]
    BY <1>4
<1> HIDE DEF N
<1> DEFINE H(k) == IF k = 0 THEN << >> ELSE G[k]
<1>6. ASSUME NEW k \in Nat, k + 1 \in 1..N PROVE H(k + 1) = H(k) \o ss[k + 1]
    <2>1. k + 1 # 0 /\ (k + 1) - 1 = k /\ ss[k + 1] \in Seq(S)
        BY <1>1, <1>6
    <2>2. H(k + 1) = IF k + 1 = 1 THEN ss[k + 1] ELSE G[k] \o ss[k + 1]
        BY <1>5, <1>6, <2>1, Zenon
    <2>3. CASE k = 0
        <3>1. H(k + 1) = ss[k + 1] /\ H(k) = << >>
            BY <2>2, <2>3
        <3>2. << >> \o ss[k + 1] = ss[k + 1]
            BY <2>1, ConcatEmptySeq
        <3>3. QED BY <3>1, <3>2, Zenon
    <2>4. CASE k # 0
        <3>1. k + 1 # 1
            BY <2>4
        <3>2. QED BY <2>2, <2>4, <3>1, Zenon
    <2>5. QED BY <2>3, <2>4
<1> HIDE DEF H
<1> DEFINE n == [k \in 0..N |-> Len(H(k))]
           Good(k) == /\ H(k) \in Seq(S) /\ Len(H(k)) \in Nat
                      /\ \A m \in 1..k : /\ Len(H(m)) = Len(H(m - 1)) + Len(ss[m]) /\ Len(H(m - 1)) \in Nat
                                         /\ Len(H(m)) <= Len(H(k))
                                         /\ \A j \in 1..Len(ss[m]) : H(k)[Len(H(m - 1)) + j] = ss[m][j]
                      /\ \A i \in 1..Len(H(k)) :
                            \E m \in 1..k : \E j \in 1..Len(ss[m]) : i = Len(H(m - 1)) + j
           P == {k \in Nat : k <= N => Good(k)}
<1>7. H(0) = << >> /\ Len(H(0)) = 0 /\ H(0) \in Seq(S)
    <2>1. H(0) = << >>
        BY DEF H
    <2>2. << >> \in Seq(S) /\ Len(<< >>) = 0
        OBVIOUS
    <2>3. QED BY <2>1, <2>2, Zenon
<1>8. 0 \in P
    <2>1. H(0) \in Seq(S)
        BY <1>7
    <2>2. Good(0)
        BY <1>7, <2>1
    <2> HIDE DEF Good
    <2>3. QED BY <2>2
<1>9. ASSUME NEW k \in Nat, k \in P PROVE k + 1 \in P
    <2> SUFFICES ASSUME k + 1 <= N PROVE Good(k + 1)
        <3> HIDE DEF Good
        <3>1. QED OBVIOUS
    <2>1. k + 1 \in 1..N /\ k <= N /\ (k + 1) - 1 = k
        BY <1>1
    <2>2. Good(k)
        <3> HIDE DEF Good
        <3>1. QED BY <1>9, <2>1
    <2>3. PICK s : s = ss[k + 1]
        OBVIOUS
    <2>4. s \in Seq(S) /\ H(k) \in Seq(S) /\ H(k + 1) = H(k) \o s
        BY <1>1, <1>6, <2>1, <2>2, <2>3, Zenon
    <2>5. /\ H(k + 1) \in Seq(S) /\ Joins(H(k + 1), H(k), s) /\ Len(H(k)) \in Nat /\ Len(s) \in Nat
        BY <2>4, ConcatJoins
    <2>6. /\ Len(H(k + 1)) = Len(H(k)) + Len(s)
          /\ \A j \in 1..Len(H(k)) : H(k + 1)[j] = H(k)[j]
          /\ \A j \in 1..Len(s) : H(k + 1)[Len(H(k)) + j] = s[j]
        BY <2>5, Zenon DEF Joins
    <2>7. ASSUME NEW m \in 1..(k + 1)
          PROVE  /\ Len(H(m)) = Len(H(m - 1)) + Len(ss[m]) /\ Len(H(m - 1)) \in Nat
                 /\ Len(H(m)) <= Len(H(k + 1))
                 /\ \A j \in 1..Len(ss[m]) : H(k + 1)[Len(H(m - 1)) + j] = ss[m][j]
        <3>1. CASE m = k + 1
            <4>1. m - 1 = k /\ ss[m] = s
                BY <2>3, <3>1
            <4>2. Len(H(k + 1)) <= Len(H(k + 1))
                BY <2>5, <2>6
            <4>3. QED BY <2>5, <2>6, <3>1, <4>1, <4>2, Zenon
        <3>2. CASE m # k + 1
            <4>1. m \in 1..k /\ m \in 1..N
                <5>1. k \in Nat /\ N \in Nat /\ k <= N /\ m \in 1..(k + 1)
                    BY <1>1, <2>1
                <5>2. QED BY <3>2, <5>1
            <4>2. PICK l, p : l = Len(H(m - 1)) /\ p = Len(ss[m])
                OBVIOUS
            <4>3. l \in Nat /\ p \in Nat /\ Len(H(m)) = l + p /\ l + p <= Len(H(k))
                  /\ \A j \in 1..p : H(k)[l + j] = ss[m][j]
                BY <1>1, <2>2, <4>1, <4>2, Zenon
            <4>4. \A j \in 1..p : l + j \in 1..Len(H(k))
                BY <2>5, <4>3
            <4>5. Len(H(m)) <= Len(H(k + 1))
                BY <2>5, <2>6, <4>3
            <4>6. \A j \in 1..p : H(k + 1)[l + j] = ss[m][j]
                BY <2>6, <4>3, <4>4, Zenon
            <4>7. QED BY <4>2, <4>3, <4>5, <4>6, Zenon
        <3>3. QED BY <3>1, <3>2
    <2>8. ASSUME NEW i \in 1..Len(H(k + 1))
          PROVE  \E m \in 1..(k + 1) : \E j \in 1..Len(ss[m]) : i = Len(H(m - 1)) + j
        <3>1. CASE i <= Len(H(k))
            <4>1. i \in 1..Len(H(k))
                BY <2>5, <2>6, <3>1
            <4>2. PICK m \in 1..k : \E j \in 1..Len(ss[m]) : i = Len(H(m - 1)) + j
                BY <2>2, <4>1, Zenon
            <4>3. m \in 1..(k + 1)
                OBVIOUS
            <4>4. QED BY <4>2, <4>3, Zenon
        <3>2. CASE ~(i <= Len(H(k)))
            <4>1. PICK j \in 1..Len(s) : i = Len(H(k)) + j
                <5>1. i - Len(H(k)) \in 1..Len(s) /\ i = Len(H(k)) + (i - Len(H(k)))
                    BY <2>5, <2>6, <3>2
                <5>2. QED BY <5>1
            <4>2. k + 1 \in 1..(k + 1)
                OBVIOUS
            <4>3. \E m \in 1..(k + 1) : m = k + 1 /\ m - 1 = k
                BY <2>1, <4>2
            <4>4. QED BY <2>3, <4>1, <4>3, Zenon
        <3>3. QED BY <3>1, <3>2
    <2>9. Len(H(k + 1)) \in Nat
        BY <2>5, <2>6
    <2>10. QED BY <2>5, <2>7, <2>8, <2>9, Zenon
<1> HIDE DEF P
<1>10. N \in P
    BY <1>1, <1>8, <1>9, NatSetInduction
<1> HIDE DEF Good
<1>11. Good(N)
    BY <1>1, <1>10 DEF P
<1>12. H(N) \in Seq(S) /\ FlattenSeq(ss) = H(N)
    <2>1. H(N) \in Seq(S)
        BY <1>11, Zenon DEF Good
    <2>2. CASE N = 0
        <3>1. ss = << >>
            BY <2>2, EmptySeq DEF N
        <3>2. QED BY <1>2, <1>7, <2>1, <2>2, <3>1
    <2>3. CASE N # 0
        BY <1>2, <2>1, <2>3, Zenon DEF H
    <2>4. QED BY <2>2, <2>3
<1>13. /\ Len(H(N)) \in Nat
       /\ \A m \in 1..N : /\ Len(H(m)) = Len(H(m - 1)) + Len(ss[m]) /\ Len(H(m - 1)) \in Nat
                          /\ Len(H(m)) <= Len(H(N))
                          /\ \A j \in 1..Len(ss[m]) : H(N)[Len(H(m - 1)) + j] = ss[m][j]
       /\ \A i \in 1..Len(H(N)) : \E m \in 1..N : \E j \in 1..Len(ss[m]) : i = Len(H(m - 1)) + j
    BY <1>11, Zenon DEF Good
<1>14. \A m \in 0..N : n[m] = Len(H(m))
    BY Zenon
<1>15. 0 \in 0..N /\ N \in 0..N
       /\ \A m \in 1..N : m - 1 \in 0..N /\ m \in 0..N /\ ((m - 1) + 1 = m)
    BY <1>1
<1> HIDE DEF n
<1>16. n[0] = 0 /\ n[N] = Len(H(N))
    BY <1>7, <1>14, <1>15, Zenon
<1>17. \A m \in 1..N : n[m] = n[m - 1] + Len(ss[m]) /\ n[m - 1] \in Nat /\ n[m] <= n[N]
    BY <1>13, <1>14, <1>15, <1>16, Zenon
<1>18. \A m \in 0..N : n[m] \in Nat
    <2>1. \A m \in 1..N : n[m] \in Nat
        <3>1. \A x, y \in Nat : x + y \in Nat
            OBVIOUS
        <3>2. \A m \in 1..N : Len(ss[m]) \in Nat
            BY <1>1
        <3>3. QED BY <1>17, <3>1, <3>2, Zenon
    <2>2. \A m \in 0..N : m = 0 \/ m \in 1..N
        BY <1>1
    <2>3. QED BY <1>16, <2>1, <2>2
<1>19. ASSUME NEW m \in 1..N, NEW j \in 1..Len(ss[m])
       PROVE  n[m - 1] + j \in 1..n[N] /\ H(N)[n[m - 1] + j] = ss[m][j]
    <2>1. PICK l, p : l = n[m - 1] /\ p = Len(ss[m])
        OBVIOUS
    <2>2. l \in Nat /\ p \in Nat /\ l + p <= n[N] /\ n[N] \in Nat /\ j \in 1..p
        BY <1>1, <1>15, <1>17, <1>18, <2>1, Zenon
    <2>3. l + j \in 1..n[N]
        BY <2>2
    <2>4. H(N)[l + j] = ss[m][j]
        <3>1. H(N)[Len(H(m - 1)) + j] = ss[m][j]
            BY <1>13, Zenon
        <3>2. l = Len(H(m - 1))
            BY <1>14, <1>15, <2>1, Zenon
        <3>3. QED BY <3>1, <3>2, Zenon
    <2>5. QED BY <2>1, <2>3, <2>4, Zenon
<1>20. \A i \in 1..n[N] : \E m \in 1..N : \E j \in 1..Len(ss[m]) : i = n[m - 1] + j
    <2> SUFFICES ASSUME NEW i \in 1..n[N] PROVE \E m \in 1..N : \E j \in 1..Len(ss[m]) : i = n[m - 1] + j
        OBVIOUS
    <2>1. i \in 1..Len(H(N))
        BY <1>16, Zenon
    <2>2. PICK m \in 1..N : \E j \in 1..Len(ss[m]) : i = Len(H(m - 1)) + j
        BY <1>13, <2>1, Zenon
    <2>3. Len(H(m - 1)) = n[m - 1]
        BY <1>14, <1>15, Zenon
    <2>4. QED BY <2>2, <2>3, Zenon
<1>21. Places(n, ss)
    <2>1. Len(FlattenSeq(ss)) = n[N]
        BY <1>12, <1>16, Zenon
    <2>2. \A m \in 1..N : m - 1 \in 0..N /\ m \in 0..N /\ Len(ss[m]) \in Nat /\ n[m] = n[m - 1] + Len(ss[m])
        BY <1>1, <1>15, <1>17, Zenon
    <2>3. \A m \in 1..N : \A j \in 1..Len(ss[m]) :
             n[m - 1] + j \in 1..n[N] /\ FlattenSeq(ss)[n[m - 1] + j] = ss[m][j]
        BY <1>12, <1>19, Zenon
    <2>4. N = Len(ss)
        BY DEF N
    <2> HIDE DEF N
    <2>5. QED BY <1>16, <1>18, <1>20, <2>1, <2>2, <2>3, <2>4, Zenon DEF Places
<1>22. QED BY <1>12, <1>21, Zenon

\* The first lists put together are the first part.
LEMMA FlattenPrefix ==
    ASSUME NEW S, NEW ss \in Seq(Seq(S)), NEW n, Places(n, ss), NEW m \in 0..Len(ss),
           NEW p, p = FlattenSeq(SubSeq(ss, 1, m))
    PROVE  /\ p \in Seq(S) /\ Len(p) = n[m] /\ n[m] <= n[Len(ss)]
           /\ \A i \in 1..n[m] : i \in 1..n[Len(ss)] /\ p[i] = FlattenSeq(ss)[i]
<1>0. Len(ss) \in Nat /\ m \in Nat /\ m <= Len(ss)
    BY LenProperties
<1>1. PICK qs : qs = SubSeq(ss, 1, m)
    OBVIOUS
<1>2. qs \in Seq(Seq(S)) /\ Len(qs) = m /\ \A j \in 1..m : qs[j] = ss[j]
    <2>1. 1 \in 1..(Len(ss) + 1) /\ m \in (1 - 1)..Len(ss)
        BY <1>0
    <2>2. qs \in Seq(Seq(S)) /\ Len(qs) = m - 1 + 1 /\ \A j \in 1..(m - 1 + 1) : qs[j] = ss[1 + j - 1]
        BY <1>1, <2>1, SubSeqProperties
    <2>3. m - 1 + 1 = m /\ \A j \in 1..m : 1 + j - 1 = j
        BY <1>0
    <2>4. QED BY <2>2, <2>3
<1>3. PICK l : Places(l, qs)
    BY <1>2, FlattenPlaces
<1>4. p \in Seq(S) /\ p = FlattenSeq(qs)
    BY <1>1, <1>2, FlattenPlaces
<1> DEFINE P == {k \in Nat : k <= m => l[k] = n[k]}
<1>5. 0 \in P
    <2>1. l[0] = 0 /\ n[0] = 0
        BY <1>3, Zenon DEF Places
    <2>2. QED BY <2>1
<1>6. ASSUME NEW k \in Nat, k \in P PROVE k + 1 \in P
    <2> SUFFICES ASSUME k + 1 <= m PROVE l[k + 1] = n[k + 1]
        OBVIOUS
    <2>1. k + 1 \in 1..m /\ k + 1 \in 1..Len(ss) /\ (k + 1) - 1 = k /\ k <= m
        BY <1>0
    <2>2. l[k] = n[k]
        BY <1>6, <2>1
    <2>3. l[k + 1] = l[k] + Len(qs[k + 1])
        BY <1>2, <1>3, <2>1, Zenon DEF Places
    <2>4. n[k + 1] = n[k] + Len(ss[k + 1])
        BY <2>1, Zenon DEF Places
    <2>5. QED BY <1>2, <2>1, <2>2, <2>3, <2>4, Zenon
<1> HIDE DEF P
<1>7. \A k \in 0..m : l[k] = n[k]
    <2>1. Nat \subseteq P
        BY <1>5, <1>6, NatSetInduction
    <2>2. QED BY <1>0, <2>1 DEF P
<1> DEFINE Q == {k \in Nat : m + k <= Len(ss) => n[m] <= n[m + k]}
<1>8. 0 \in Q
    <2>1. n[m] \in Nat
        BY Zenon DEF Places
    <2>2. m + 0 = m /\ n[m] <= n[m]
        BY <1>0, <2>1
    <2>3. QED BY <2>2
<1>9. ASSUME NEW k \in Nat, k \in Q PROVE k + 1 \in Q
    <2> SUFFICES ASSUME m + (k + 1) <= Len(ss) PROVE n[m] <= n[m + (k + 1)]
        OBVIOUS
    <2>1. PICK x : x = m + (k + 1)
        OBVIOUS
    <2>2. x \in 1..Len(ss) /\ x - 1 = m + k /\ m + k <= Len(ss)
        BY <1>0, <2>1
    <2>3. n[x] = n[x - 1] + Len(ss[x]) /\ Len(ss[x]) \in Nat /\ n[m] \in Nat /\ n[x - 1] \in Nat
        BY <2>2, Zenon DEF Places
    <2>4. n[m] <= n[x - 1]
        BY <1>9, <2>2
    <2>5. n[m] <= n[x]
        BY <2>3, <2>4
    <2>6. QED BY <2>1, <2>5
<1> HIDE DEF Q
<1>10. n[m] <= n[Len(ss)] /\ n[m] \in Nat /\ n[Len(ss)] \in Nat
    <2>1. Len(ss) - m \in Nat /\ m + (Len(ss) - m) = Len(ss)
        BY <1>0
    <2>2. Len(ss) - m \in Q
        BY <1>8, <1>9, <2>1, NatSetInduction
    <2>3. n[m] <= n[m + (Len(ss) - m)]
        BY <1>0, <2>1, <2>2 DEF Q
    <2>4. n[m] \in Nat /\ n[Len(ss)] \in Nat
        <3>1. Len(ss) \in 0..Len(ss)
            BY <1>0
        <3>2. QED BY <3>1, Zenon DEF Places
    <2>5. QED BY <2>1, <2>3, <2>4
<1>11. Len(p) = n[m]
    <2>1. m \in 0..m
        BY <1>0
    <2>2. Len(p) = l[m]
        BY <1>2, <1>3, <1>4, Zenon DEF Places
    <2>3. QED BY <1>7, <2>1, <2>2
<1>12. ASSUME NEW i \in 1..n[m] PROVE i \in 1..n[Len(ss)] /\ p[i] = FlattenSeq(ss)[i]
    <2>1. i \in 1..n[Len(ss)]
        BY <1>10
    <2>2. i \in 1..l[Len(qs)]
        <3>1. m \in 0..m
            BY <1>0
        <3>2. QED BY <1>2, <1>7, <3>1
    <2>3a. PICK q \in 1..m : \E j \in 1..Len(qs[q]) : i = l[q - 1] + j
        BY <1>2, <1>3, <2>2, Zenon DEF Places
    <2>3. PICK j \in 1..Len(qs[q]) : i = l[q - 1] + j
        BY <2>3a
    <2>4. q \in 1..Len(ss) /\ q - 1 \in 0..m /\ qs[q] = ss[q]
        <3>1. PICK M : M = Len(ss)
            OBVIOUS
        <3>2. M \in Nat /\ m \in 0..M
            BY <1>0, <3>1
        <3>3. q \in 1..M /\ q - 1 \in 0..m
            BY <3>2
        <3>4. QED BY <1>2, <3>1, <3>3, Zenon
    <2>5. p[i] = qs[q][j]
        <3>1. \A k \in 1..Len(qs) : \A r \in 1..Len(qs[k]) : FlattenSeq(qs)[l[k - 1] + r] = qs[k][r]
            BY <1>3, Zenon DEF Places
        <3>2. q \in 1..Len(qs)
            BY <1>2
        <3>3. FlattenSeq(qs)[l[q - 1] + j] = qs[q][j]
            BY <3>1, <3>2, Zenon
        <3>4. QED BY <1>4, <2>3, <3>3, Zenon
    <2>6. i = n[q - 1] + j /\ j \in 1..Len(ss[q])
        BY <1>7, <2>3, <2>4, Zenon
    <2>7. FlattenSeq(ss)[i] = ss[q][j]
        BY <2>4, <2>6, Zenon DEF Places
    <2>8. QED BY <2>1, <2>4, <2>5, <2>7, Zenon
<1>13. QED BY <1>4, <1>10, <1>11, <1>12

\* The fields of raw come after the first a, up to the first b.
Holds(file, a, b, raw) ==
    /\ a \in Nat /\ b = a + Len(raw) /\ b <= Len(file)
    /\ \A q \in 1..Len(raw) : file[a + q].size = raw[q].size /\ file[a + q].val = raw[q].val

HeldAt(file, e, a, b, raw, u) ==
    /\ \A q \in 0..Len(raw) : e[a + q] = e[a] + u[q]
    /\ a \in 0..Len(file) /\ b \in 0..Len(file) /\ e[b] = e[a] + u[Len(raw)]
    /\ Cutout(file, e[a], e[b]) = raw

\* They are cut out as they were.
LEMMA CutoutOf ==
    ASSUME NEW file, NEW e, Spaced(file, e), NEW raw, NEW u, Spaced(raw, u), Len(raw) > 0,
           NEW a, NEW b, Holds(file, a, b, raw)
    PROVE  HeldAt(file, e, a, b, raw, u)
<1>00. /\ a \in Nat /\ b = a + Len(raw) /\ b <= Len(file)
       /\ \A q \in 1..Len(raw) : file[a + q].size = raw[q].size /\ file[a + q].val = raw[q].val
    BY Zenon DEF Holds
<1>0. /\ Len(file) \in Nat /\ Len(raw) \in Nat /\ a \in 0..Len(file) /\ b \in 0..Len(file) /\ a < b
      /\ b \in Nat /\ b - a = Len(raw)
    <2>1. Len(file) \in Nat /\ Len(raw) \in Nat
        BY Zenon DEF Spaced
    <2>2. QED BY <1>00, <2>1
<1>1. ASSUME NEW q \in 1..Len(raw)
      PROVE  /\ a + q \in 1..Len(file) /\ a + q - 1 \in 0..Len(file) /\ a + q \in 0..Len(file)
             /\ e[a + q] - e[a + q - 1] = u[q] - u[q - 1]
             /\ raw[q] = [at |-> u[q - 1], size |-> u[q] - u[q - 1], val |-> raw[q].val]
    <2>1. PICK j : j = a + q
        OBVIOUS
    <2>2. j \in 1..Len(file) /\ j - 1 \in 0..Len(file) /\ j \in 0..Len(file) /\ a + q - 1 = j - 1
        BY <1>0, <2>1
    <2>3. PICK f, g : f = file[j] /\ g = raw[q]
        OBVIOUS
    <2>4. f = [at |-> e[j - 1], size |-> e[j] - e[j - 1], val |-> f.val]
        BY <2>2, <2>3, Zenon DEF Spaced
    <2>5. g = [at |-> u[q - 1], size |-> u[q] - u[q - 1], val |-> g.val]
        BY <2>3, Zenon DEF Spaced
    <2>6. f.size = e[j] - e[j - 1]
        BY <2>4
    <2>7. g.size = u[q] - u[q - 1]
        BY <2>5
    <2>8. f.size = g.size
        BY <1>00, <2>1, <2>3, Zenon
    <2>9. QED BY <2>1, <2>2, <2>3, <2>5, <2>6, <2>7, <2>8, Zenon
<1> DEFINE P == {q \in Nat : q <= Len(raw) => e[a + q] = e[a] + u[q]}
<1>2. 0 \in P
    <2>1. a + 0 = a /\ u[0] = 0 /\ e[a] \in Nat
        <3>1. u[0] = 0 /\ e[a] \in Nat
            BY <1>0, Zenon DEF Spaced
        <3>2. QED BY <1>0, <3>1
    <2>2. QED BY <2>1
<1>3. ASSUME NEW q \in Nat, q \in P PROVE q + 1 \in P
    <2> SUFFICES ASSUME q + 1 <= Len(raw) PROVE e[a + (q + 1)] = e[a] + u[q + 1]
        OBVIOUS
    <2>1. q + 1 \in 1..Len(raw) /\ (q + 1) - 1 = q /\ a + (q + 1) - 1 = a + q /\ q <= Len(raw)
        BY <1>0
    <2>2. PICK x, y : x = a + (q + 1) /\ y = a + q
        OBVIOUS
    <2>3. e[x] - e[y] = u[q + 1] - u[q] /\ x \in 0..Len(file) /\ y \in 0..Len(file)
        BY <1>1, <2>1, <2>2, Zenon
    <2>4. e[x] \in Nat /\ e[y] \in Nat /\ e[a] \in Nat /\ u[q + 1] \in Nat /\ u[q] \in Nat
        <3>1. q + 1 \in 0..Len(raw) /\ q \in 0..Len(raw)
            BY <1>0, <2>1
        <3>2. QED BY <1>0, <2>3, <3>1, Zenon DEF Spaced
    <2>5. e[y] = e[a] + u[q]
        BY <1>3, <2>1, <2>2
    <2>6. e[x] = e[a] + u[q + 1]
        <3>1. PICK ex, ey, ea, v, w : ex = e[x] /\ ey = e[y] /\ ea = e[a] /\ v = u[q + 1] /\ w = u[q]
            OBVIOUS
        <3>2. ex - ey = v - w /\ ey = ea + w
            BY <2>3, <2>5, <3>1, Zenon
        <3>3. ex \in Nat /\ ey \in Nat /\ ea \in Nat /\ v \in Nat /\ w \in Nat
            BY <2>4, <3>1, Zenon
        <3>4. ex = ea + v
            BY <3>2, <3>3
        <3>5. QED BY <3>1, <3>4, Zenon
    <2>7. QED BY <2>2, <2>6, Zenon
<1> HIDE DEF P
<1>4. \A q \in 0..Len(raw) : e[a + q] = e[a] + u[q]
    <2>1. Nat \subseteq P
        BY <1>2, <1>3, NatSetInduction
    <2>2. QED BY <1>0, <2>1 DEF P
<1>5. e[b] = e[a] + u[Len(raw)]
    <2>1. Len(raw) \in 0..Len(raw)
        BY <1>0
    <2>2. QED BY <1>00, <1>4, <2>1, Zenon
<1>6. Cutout(file, e[a], e[b])
        = [q \in 1..(b - a) |-> [at |-> e[a + q - 1] - e[a], size |-> e[a + q] - e[a + q - 1],
                                val |-> file[a + q].val]]
    <2>1. PICK from, to : from = e[a] /\ to = e[b]
        OBVIOUS
    <2>2. Cutout(file, from, to) = Fragment(file, e, a, b)
        BY <1>0, <2>1, CutoutIs
    <2>3. QED BY <2>1, <2>2, Zenon DEF Fragment
<1>7. ASSUME NEW q \in 1..Len(raw)
      PROVE  [at |-> e[a + q - 1] - e[a], size |-> e[a + q] - e[a + q - 1], val |-> file[a + q].val]
               = raw[q]
    <2>1. PICK x, y, z : x = e[a + q - 1] - e[a] /\ y = e[a + q] - e[a + q - 1] /\ z = file[a + q].val
        OBVIOUS
    <2>2. q - 1 \in 0..Len(raw) /\ a + q - 1 = a + (q - 1)
        BY <1>0
    <2>3. x = u[q - 1]
        <3>1. e[a + (q - 1)] = e[a] + u[q - 1]
            BY <1>4, <2>2
        <3>2. e[a] \in Nat /\ u[q - 1] \in Nat
            BY <1>0, <2>2, Zenon DEF Spaced
        <3>3. QED BY <2>1, <2>2, <3>1, <3>2
    <2>4. y = u[q] - u[q - 1] /\ z = raw[q].val
        BY <1>00, <1>1, <2>1, Zenon
    <2>5. [at |-> x, size |-> y, val |-> z] = raw[q]
        BY <1>1, <2>3, <2>4, Zenon
    <2>6. QED BY <2>1, <2>5, Zenon
<1>8. raw = [q \in 1..Len(raw) |-> raw[q]]
    BY Zenon DEF Spaced
<1>9. Cutout(file, e[a], e[b]) = raw
    <2>1. Cutout(file, e[a], e[b]) = [q \in 1..Len(raw) |-> raw[q]]
        BY <1>0, <1>6, <1>7
    <2>2. QED BY <1>8, <2>1, Zenon
<1>10. QED BY <1>0, <1>4, <1>5, <1>9, Zenon DEF HeldAt

-----------------------------------------------------------------------------
(* Reading blob after blob.                                                 *)

\* What a blob has in a keybox: its length, its type, and room for what an OpenPGP blob is to have.
IsRaw(raw, u) ==
    /\ Spaced(raw, u) /\ Len(raw) > 1 /\ u[1] = 4 /\ u[2] = 5
    /\ raw[1].val = u[Len(raw)] /\ u[Len(raw)] > 5
    /\ raw[2].val = OpenPGP => ~Malformed(raw, u[Len(raw)])

ReadAs(raw, b) == ParseRaw(raw, raw[1].val) = << b >> /\ b.raw = raw

LEMMA RawReads ==
    ASSUME NEW raw, NEW u, IsRaw(raw, u)
    PROVE  \E b : ReadAs(raw, b)
<1> DEFINE L == Len(raw)
<1>1. /\ Spaced(raw, u) /\ L > 1 /\ u[1] = 4 /\ u[2] = 5 /\ raw[1].val = u[L] /\ u[L] > 5
      /\ raw[2].val = OpenPGP => ~Malformed(raw, u[L])
    BY Zenon DEF IsRaw
<1>2. L \in Nat /\ \A j \in 0..L : u[j] \in Nat
    BY <1>1, Zenon DEF Spaced
<1>3. u[L] \in Nat /\ ~(u[2] > u[L]) /\ 2 \in 1..L
    <2>1. L \in 0..L /\ 2 \in 1..L
        BY <1>1, <1>2
    <2>2. u[L] \in Nat
        BY <1>2, <2>1
    <2>3. QED BY <1>1, <2>1, <2>2
<1>4. At(raw, u[L], 4, 1) = raw[2].val
    <2>1. PICK len, j : len = u[L] /\ j = 2
        OBVIOUS
    <2>2. len \in Nat /\ j \in 1..Len(raw) /\ 4 = u[j - 1] /\ 1 = u[j] - u[j - 1] /\ ~(u[j] > len)
        BY <1>1, <1>3, <2>1
    <2>3. At(raw, len, 4, 1) = IF u[j] > len THEN Garbage ELSE raw[j].val
        BY <1>1, <2>2, AtIs
    <2>4. QED BY <2>1, <2>2, <2>3, Zenon
<1>5. CASE raw[2].val # OpenPGP
    <2>1. ParseRaw(raw, u[L]) = << Opaque(raw[2].val, raw) >>
        BY <1>4, <1>5, Zenon DEF ParseRaw
    <2>2. Opaque(raw[2].val, raw).raw = raw
        BY DEF Opaque
    <2>3. QED BY <1>1, <2>1, <2>2, Zenon DEF ReadAs
<1>6. CASE raw[2].val = OpenPGP
    <2>1. ParseRaw(raw, u[L]) = << ParseOpenPGP(raw, u[L]) >>
        BY <1>1, <1>4, <1>6, Zenon DEF ParseRaw
    <2>2. ParseOpenPGP(raw, u[L]).raw = raw
        BY DEF ParseOpenPGP
    <2>3. QED BY <1>1, <2>1, <2>2, Zenon DEF ReadAs
<1>7. QED BY <1>5, <1>6

ReadThere(file, len, x, y, raw) ==
    /\ x \in Nat /\ y \in Nat /\ x < y /\ y = x + raw[1].val
    /\ y <= len => /\ At(file, len, x, 4) = raw[1].val /\ raw[1].val # 0
                   /\ ParseBlob(file, len, x) = ParseRaw(raw, raw[1].val)
    /\ ~(y <= len) => At(file, len, x, 4) # 0 /\ ParseBlob(file, len, x) = << >>

\* A blob that is there is read; one that is cut off is not.
LEMMA BlobRead ==
    ASSUME NEW file, NEW e, Spaced(file, e), NEW raw, NEW u, IsRaw(raw, u),
           NEW a, NEW b, Holds(file, a, b, raw), NEW len \in Nat
    PROVE  ReadThere(file, len, e[a], e[b], raw)
<1> DEFINE L == Len(raw)
<1>1. /\ Spaced(raw, u) /\ L > 1 /\ u[1] = 4 /\ u[2] = 5 /\ raw[1].val = u[L] /\ u[L] > 5
      /\ u[0] = 0
    <2>1. Spaced(raw, u) /\ L > 1 /\ u[1] = 4 /\ u[2] = 5 /\ raw[1].val = u[L] /\ u[L] > 5
        BY Zenon DEF IsRaw
    <2>2. QED BY <2>1, Zenon DEF Spaced
<1>2. L \in Nat /\ \A j \in 0..L : u[j] \in Nat
    BY <1>1, Zenon DEF Spaced
<1>0. a \in Nat /\ b = a + L /\ b <= Len(file) /\ \A q \in 1..L : file[a + q].val = raw[q].val
    BY Zenon DEF Holds
<1>3. /\ \A q \in 0..L : e[a + q] = e[a] + u[q]
      /\ a \in 0..Len(file) /\ b \in 0..Len(file) /\ e[b] = e[a] + u[L]
      /\ Cutout(file, e[a], e[b]) = raw
    <2>1. L > 0
        BY <1>1, <1>2
    <2>2. HeldAt(file, e, a, b, raw, u)
        BY <1>1, <2>1, CutoutOf, Zenon
    <2>3. QED BY <2>2, Zenon DEF HeldAt
<1>4. e[a] \in Nat /\ e[b] \in Nat
    BY <1>3, Zenon DEF Spaced
<1>5. PICK n : n = u[L]
    OBVIOUS
<1>6. n \in Nat /\ n > 5 /\ e[b] = e[a] + n /\ raw[1].val = n
    <2>1. L \in 0..L
        BY <1>2
    <2>2. QED BY <1>1, <1>2, <1>3, <1>5, <2>1, Zenon
<1>7. At(file, len, e[a], 4) = IF e[a] + 4 > len THEN Garbage ELSE n
    <2>1. PICK j : j = a + 1
        OBVIOUS
    <2>2. j \in 1..Len(file) /\ j - 1 = a
        <3>1. Len(file) \in Nat
            BY Zenon DEF Spaced
        <3>2. QED BY <1>0, <1>1, <1>2, <2>1, <3>1
    <2>3. e[j] = e[a] + 4
        <3>1. 1 \in 0..L
            BY <1>1, <1>2
        <3>2. QED BY <1>1, <1>3, <2>1, <3>1
    <2>4. file[j].val = n
        <3>1. 1 \in 1..L
            BY <1>1, <1>2
        <3>2. QED BY <1>0, <1>6, <2>1, <3>1, Zenon
    <2>5. PICK i : i = e[a]
        OBVIOUS
    <2>6. i = e[j - 1] /\ 4 = e[j] - e[j - 1]
        BY <1>4, <2>2, <2>3, <2>5
    <2>7. At(file, len, i, 4) = IF e[j] > len THEN Garbage ELSE file[j].val
        BY <2>2, <2>6, AtIs
    <2>8. QED BY <2>3, <2>4, <2>5, <2>7, Zenon
<1>8. PICK x, y : x = e[a] /\ y = e[b]
    OBVIOUS
<1>9. x \in Nat /\ y \in Nat /\ y = x + n /\ x < y
    BY <1>4, <1>6, <1>8
<1>10. ASSUME y <= len PROVE ReadThere(file, len, x, y, raw)
    <2>1. ~(x + 4 > len) /\ ~(x + n > len) /\ ~(n <= 5) /\ n # 0 /\ ~(y > len)
        BY <1>6, <1>9, <1>10
    <2>2. At(file, len, x, 4) = n
        BY <1>7, <1>8, <2>1, Zenon
    <2>3. ParseBlob(file, len, x) = ParseRaw(Cutout(file, x, x + n), n)
        BY <2>1, <2>2, Zenon DEF ParseBlob
    <2>4. ParseBlob(file, len, x) = ParseRaw(raw, n)
        BY <1>3, <1>8, <1>9, <2>3, Zenon
    <2>5. QED BY <1>6, <1>9, <1>10, <2>1, <2>2, <2>4, Zenon DEF ReadThere
<1>11. ASSUME ~(y <= len) PROVE ReadThere(file, len, x, y, raw)
    <2>1. /\ x + 4 > len \/ (At(file, len, x, 4) = n /\ x + n > len)
          /\ At(file, len, x, 4) # 0
        <3>1. n # 0 /\ x + n > len
            BY <1>6, <1>9, <1>11
        <3>2. QED BY <1>7, <1>8, <3>1, GarbageAssumption, Zenon
    <2>2. ParseBlob(file, len, x) = << >>
        BY <2>1, Zenon DEF ParseBlob
    <2>3. QED BY <1>6, <1>9, <1>11, <2>1, <2>2, Zenon DEF ReadThere
<1>12. QED
    <2>1. ReadThere(file, len, x, y, raw)
        BY <1>10, <1>11, Zenon
    <2>2. QED BY <1>8, <2>1, Zenon

\* The loop, once it is known what it does in every turn.
Start == [at |-> 0, blobs |-> << >>, failed |-> FALSE]

IsReading(w, file, len) ==
    w[0] = Start /\ \A k \in 1..Len(file) : w[k] = ParseNext(file, len, w[k - 1])

EndsAs(end, file, len) == Parse(file, len) = IF end.failed THEN Refused ELSE end.blobs

LEMMA ParseRuns ==
    ASSUME NEW file, Len(file) \in Nat, NEW len, NEW w, IsReading(w, file, len),
           NEW end, end = w[Len(file)]
    PROVE  EndsAs(end, file, len)
<1>0. w[0] = Start /\ \A k \in 1..Len(file) : w[k] = ParseNext(file, len, w[k - 1])
    BY Zenon DEF IsReading
<1> DEFINE N == Len(file)
           Nx(f, k) == IF k = 0 THEN Start ELSE ParseNext(file, len, f[k - 1])
           turn == CHOOSE f : f = [k \in 0..N |-> Nx(f, k)]
           W == [k \in 0..N |-> w[k]]
<1>1. Parse(file, len) = IF turn[N].failed THEN Refused ELSE turn[N].blobs
    BY Zenon DEF Parse, Start
<1>9. \A k \in 1..N : w[k] = ParseNext(file, len, w[k - 1])
    BY <1>0
<1> HIDE DEF N
<1>2. N \in Nat
    BY DEF N
<1>3. W = [k \in 0..N |-> Nx(W, k)]
    <2>1. ASSUME NEW k \in 0..N PROVE w[k] = Nx(W, k)
        <3>1. CASE k = 0
            BY <1>0, <3>1
        <3>2. CASE k # 0
            <4>1. k \in 1..N /\ k - 1 \in 0..N
                BY <1>2, <3>2
            <4>2. W[k - 1] = w[k - 1]
                BY <4>1
            <4>3. w[k] = ParseNext(file, len, w[k - 1])
                BY <1>9, <4>1, Zenon
            <4>4. QED BY <3>2, <4>2, <4>3, Zenon
        <3>3. QED BY <3>1, <3>2
    <2> HIDE DEF Nx
    <2>2. [k \in 0..N |-> w[k]] = [k \in 0..N |-> Nx(W, k)]
        BY <2>1, Zenon
    <2>3. QED BY <2>2, Zenon
<1> HIDE DEF W
<1>4. turn = [k \in 0..N |-> Nx(turn, k)]
    <2> HIDE DEF Nx
    <2>1. QED BY <1>3, Zenon
<1> HIDE DEF turn
<1> DEFINE P == {k \in Nat : k \in 0..N => turn[k] = w[k]}
<1>5. 0 \in P
    <2>1. 0 \in 0..N
        BY <1>2
    <2>2. turn[0] = Nx(turn, 0)
        <3> HIDE DEF Nx
        <3>1. QED BY <1>4, <2>1, Zenon
    <2>3. Nx(turn, 0) = Start
        OBVIOUS
    <2> HIDE DEF Nx
    <2>4. QED BY <1>0, <2>2, <2>3
<1>6. ASSUME NEW k \in Nat, k \in P PROVE k + 1 \in P
    <2> SUFFICES ASSUME k + 1 \in 0..N PROVE turn[k + 1] = w[k + 1]
        OBVIOUS
    <2>1. k \in 0..N /\ k + 1 \in 1..N /\ (k + 1) - 1 = k /\ k + 1 # 0
        BY <1>2
    <2>2. turn[k + 1] = Nx(turn, k + 1)
        <3> HIDE DEF Nx
        <3>1. QED BY <1>4, Zenon
    <2>3. turn[k] = w[k]
        BY <1>6, <2>1
    <2>4. Nx(turn, k + 1) = ParseNext(file, len, turn[(k + 1) - 1])
        BY <2>1, Zenon
    <2>5. w[k + 1] = ParseNext(file, len, w[(k + 1) - 1])
        BY <1>9, <2>1, Zenon
    <2> HIDE DEF Nx
    <2>6. QED BY <2>1, <2>2, <2>3, <2>4, <2>5, Zenon
<1> HIDE DEF P, Nx
<1>7. N \in P
    BY <1>2, <1>5, <1>6, NatSetInduction
<1>8. turn[N] = w[N]
    <2>1. N \in 0..N
        BY <1>2
    <2>2. QED BY <1>7, <2>1 DEF P
<1>10. QED BY <1>1, <1>8, Zenon DEF N, EndsAs

LEMMA NowFailed ==
    ASSUME NEW x, NEW h, NEW t, NEW st, st = [at |-> x, blobs |-> h, failed |-> t], NEW u
    PROVE  [st EXCEPT !.failed = u] = [at |-> x, blobs |-> h, failed |-> u]
OBVIOUS

Going(x, h) == [at |-> x, blobs |-> h, failed |-> FALSE]
Stuck(x, h) == [at |-> x, blobs |-> h, failed |-> TRUE]

LEMMA TurnReads ==
    ASSUME NEW file, NEW len \in Nat, NEW x, NEW y, NEW raw, ReadThere(file, len, x, y, raw),
           NEW b, ReadAs(raw, b), y <= len, NEW h
    PROVE  ParseNext(file, len, Going(x, h)) = Going(y, h \o << b >>)
<1> DEFINE st == Going(x, h)
<1>1. /\ x \in Nat /\ y \in Nat /\ x < y /\ y = x + raw[1].val
      /\ At(file, len, x, 4) = raw[1].val /\ raw[1].val # 0
      /\ ParseBlob(file, len, x) = ParseRaw(raw, raw[1].val)
    BY Zenon DEF ReadThere
<1>2. ParseRaw(raw, raw[1].val) = << b >>
    BY Zenon DEF ReadAs
<1>3. ~(x >= len)
    BY <1>1
<1>4. st.at = x /\ st.blobs = h /\ st.failed = FALSE
    BY DEF Going
<1> HIDE DEF st
<1>5. << b >> # << >>
    OBVIOUS
<1>6. ParseNext(file, len, st)
        = [at |-> x + At(file, len, x, 4), blobs |-> h \o << b >>, failed |-> FALSE]
    BY <1>1, <1>2, <1>3, <1>4, <1>5, Zenon DEF ParseNext
<1>7. QED BY <1>1, <1>6, Zenon DEF st, Going

LEMMA TurnFails ==
    ASSUME NEW file, NEW len \in Nat, NEW x, NEW y, NEW raw, ReadThere(file, len, x, y, raw),
           x < len, ~(y <= len), NEW h
    PROVE  ParseNext(file, len, Going(x, h)) = Stuck(x, h)
<1> DEFINE st == Going(x, h)
<1>1. x \in Nat /\ At(file, len, x, 4) # 0 /\ ParseBlob(file, len, x) = << >>
    BY Zenon DEF ReadThere
<1>2. ~(x >= len)
    BY <1>1
<1>3. st.at = x /\ st.blobs = h /\ st.failed = FALSE
    BY DEF Going
<1>0. st = [at |-> x, blobs |-> h, failed |-> FALSE]
    BY Zenon DEF Going
<1> HIDE DEF st
<1>4. ParseNext(file, len, st) = [st EXCEPT !.failed = TRUE]
    BY <1>1, <1>2, <1>3, Zenon DEF ParseNext
<1>5. [st EXCEPT !.failed = TRUE] = [at |-> x, blobs |-> h, failed |-> TRUE]
    <2>1. PICK t, u : t = FALSE /\ u = TRUE
        OBVIOUS
    <2>2. st = [at |-> x, blobs |-> h, failed |-> t]
        BY <1>0, <2>1, Zenon
    <2>3. [st EXCEPT !.failed = u] = [at |-> x, blobs |-> h, failed |-> u]
        BY <2>2, NowFailed
    <2>4. QED BY <2>1, <2>3, Zenon
<1>6. QED BY <1>4, <1>5, Zenon DEF st, Stuck

LEMMA TurnStops ==
    ASSUME NEW file, NEW len, NEW st, st.failed \/ st.at >= len \/ At(file, len, st.at, 4) = 0
    PROVE  ParseNext(file, len, st) = st
BY Zenon DEF ParseNext

LEMMA StepsGrow ==
    ASSUME NEW N \in Nat, NEW x, \A q \in 0..N : x[q] \in Nat, \A q \in 1..N : x[q - 1] < x[q]
    PROVE  /\ \A q, r \in 0..N : q < r => x[q] < x[r]
           /\ \A q \in 0..N : q <= x[q]
<1> DEFINE P == {r \in Nat : r <= N => r <= x[r] /\ \A q \in 0..N : q < r => x[q] < x[r]}
<1>1. 0 \in P
    OBVIOUS
<1>2. ASSUME NEW r \in Nat, r \in P PROVE r + 1 \in P
    <2> SUFFICES ASSUME r + 1 <= N
                 PROVE  r + 1 <= x[r + 1] /\ \A q \in 0..N : q < r + 1 => x[q] < x[r + 1]
        OBVIOUS
    <2>1. PICK s : s = r + 1
        OBVIOUS
    <2>2. s \in 1..N /\ s - 1 = r /\ r \in 0..N /\ s \in 0..N
        BY <2>1
    <2>3. x[r] < x[s] /\ x[r] \in Nat /\ x[s] \in Nat
        BY <2>2
    <2>4. r <= x[r] /\ \A q \in 0..N : q < r => x[q] < x[r]
        BY <1>2, <2>2
    <2>5. ASSUME NEW q \in 0..N, q < s PROVE x[q] < x[s]
        <3>1. CASE q = r
            BY <2>3, <3>1
        <3>2. CASE q # r
            <4>1. q < r /\ x[q] \in Nat
                BY <2>1, <2>5, <3>2
            <4>2. QED BY <2>3, <2>4, <4>1
        <3>3. QED BY <3>1, <3>2
    <2>6. s <= x[s]
        BY <2>1, <2>3, <2>4
    <2>7. QED BY <2>1, <2>5, <2>6
<1> HIDE DEF P
<1>3. Nat \subseteq P
    BY <1>1, <1>2, NatSetInduction
<1>4. QED BY <1>3 DEF P

\* The blobs ss, read as bs, are in the file, the first n[q] fields being those of q blobs.
BoxAt(file, e, ss, n, bs) ==
    /\ Spaced(file, e) /\ Places(n, ss) /\ Len(ss) \in Nat
    /\ \A q \in 1..Len(ss) :
          Holds(file, n[q - 1], n[q], ss[q]) /\ ReadAs(ss[q], bs[q]) /\ \E u : IsRaw(ss[q], u)

LEMMA BoxFacts ==
    ASSUME NEW file, NEW e, NEW ss, NEW n, NEW bs, BoxAt(file, e, ss, n, bs), NEW len \in Nat
    PROVE  /\ Len(ss) \in Nat /\ Len(file) \in Nat /\ n[0] = 0 /\ e[0] = 0
           /\ \A q \in 0..Len(ss) : /\ n[q] \in Nat /\ n[q] <= Len(file) /\ q <= n[q]
                                     /\ e[n[q]] \in Nat
           /\ \A q \in 1..Len(ss) : /\ q - 1 \in 0..Len(ss) /\ ReadAs(ss[q], bs[q])
                                     /\ ReadThere(file, len, e[n[q - 1]], e[n[q]], ss[q])
           /\ \A q, r \in 0..Len(ss) : q < r => e[n[q]] < e[n[r]]
<1>1. /\ Spaced(file, e) /\ Places(n, ss) /\ Len(ss) \in Nat
      /\ \A q \in 1..Len(ss) :
            Holds(file, n[q - 1], n[q], ss[q]) /\ ReadAs(ss[q], bs[q]) /\ \E u : IsRaw(ss[q], u)
    BY Zenon DEF BoxAt
<1>2. Len(file) \in Nat /\ e[0] = 0 /\ n[0] = 0 /\ \A q \in 0..Len(ss) : n[q] \in Nat
    BY <1>1, Zenon DEF Spaced, Places
<1>3. ASSUME NEW q \in 1..Len(ss)
      PROVE  /\ q - 1 \in 0..Len(ss) /\ ReadAs(ss[q], bs[q])
             /\ ReadThere(file, len, e[n[q - 1]], e[n[q]], ss[q])
             /\ n[q - 1] < n[q] /\ n[q] <= Len(file)
    <2>1. PICK u : IsRaw(ss[q], u)
        BY <1>1
    <2>2. PICK a, b : a = n[q - 1] /\ b = n[q]
        OBVIOUS
    <2>3. Holds(file, a, b, ss[q])
        BY <1>1, <2>2, Zenon
    <2>4. ReadThere(file, len, e[a], e[b], ss[q])
        BY <1>1, <2>1, <2>3, BlobRead, Zenon
    <2>5. a < b /\ b <= Len(file)
        <3>1. a \in Nat /\ b = a + Len(ss[q]) /\ b <= Len(file)
            BY <2>3, Zenon DEF Holds
        <3>2. Len(ss[q]) \in Nat /\ Len(ss[q]) > 1
            BY <2>1, Zenon DEF IsRaw, Spaced
        <3>3. QED BY <3>1, <3>2
    <2>6. q - 1 \in 0..Len(ss)
        BY <1>1
    <2>7. QED BY <1>1, <2>2, <2>4, <2>5, <2>6, Zenon
<1>4. \A q \in 0..Len(ss) : q <= n[q]
    BY <1>1, <1>2, <1>3, StepsGrow
<1>5. ASSUME NEW q \in 0..Len(ss) PROVE n[q] <= Len(file)
    <2>1. CASE q = 0
        BY <1>2, <2>1
    <2>2. CASE q # 0
        BY <1>1, <1>3, <2>2
    <2>3. QED BY <2>1, <2>2
<1>6. \A q \in 0..Len(ss) : e[n[q]] \in Nat
    <2>1. \A q \in 0..Len(ss) : n[q] \in 0..Len(file)
        BY <1>2, <1>5
    <2>2. QED BY <1>1, <2>1, Zenon DEF Spaced
<1> DEFINE x == [q \in 0..Len(ss) |-> e[n[q]]]
<1>7. \A q \in 0..Len(ss) : x[q] = e[n[q]]
    OBVIOUS
<1> HIDE DEF x
<1>8. \A q \in 1..Len(ss) : x[q - 1] < x[q]
    <2>1. \A q \in 1..Len(ss) : q \in 0..Len(ss) /\ q - 1 \in 0..Len(ss)
        BY <1>1
    <2>2. \A q \in 1..Len(ss) : e[n[q - 1]] < e[n[q]]
        BY <1>3, Zenon DEF ReadThere
    <2>3. QED BY <1>7, <2>1, <2>2, Zenon
<1>9. \A q, r \in 0..Len(ss) : q < r => x[q] < x[r]
    <2>1. \A q \in 0..Len(ss) : x[q] \in Nat
        BY <1>6, <1>7, Zenon
    <2>2. QED BY <1>1, <1>8, <2>1, StepsGrow
<1>10. \A q, r \in 0..Len(ss) : q < r => e[n[q]] < e[n[r]]
    BY <1>7, <1>9, Zenon
<1>11. QED BY <1>1, <1>2, <1>3, <1>4, <1>5, <1>6, <1>10, Zenon

\* What the loop has after k turns when it reads m blobs.
After(e, n, bs, m, bad, k) ==
    IF k <= m THEN [at |-> e[n[k]], blobs |-> [q \in 1..k |-> bs[q]], failed |-> FALSE]
    ELSE [at |-> e[n[m]], blobs |-> [q \in 1..m |-> bs[q]], failed |-> bad]

LEMMA OneMore ==
    ASSUME NEW k \in Nat \ {0}, NEW f
    PROVE  [q \in 1..(k - 1) |-> f[q]] \o << f[k] >> = [q \in 1..k |-> f[q]]
<1>1. PICK h : h = [q \in 1..(k - 1) |-> f[q]]
    OBVIOUS
<1> DEFINE X == {f[q] : q \in 1..k}
<1>2. h \in Seq(X) /\ Len(h) = k - 1 /\ << f[k] >> \in Seq(X) /\ Len(<< f[k] >>) = 1
    <2>1. k - 1 \in Nat /\ \A q \in 1..(k - 1) : f[q] \in X
        OBVIOUS
    <2>2. f[k] \in X
        OBVIOUS
    <2> HIDE DEF X
    <2>3. h \in [1..(k - 1) -> X]
        BY <1>1, <2>1
    <2>4. h \in Seq(X)
        BY <2>1, <2>3, SeqDef
    <2>5. Len(h) = k - 1
        BY <2>1, <2>3, <2>4, LenProperties
    <2>6. QED BY <2>2, <2>4, <2>5
<1> HIDE DEF X
<1>3. PICK g : g = h \o << f[k] >>
    OBVIOUS
<1>4. g \in Seq(X) /\ Len(g) = k /\ \A q \in 1..k : g[q] = IF q <= k - 1 THEN h[q] ELSE << f[k] >>[q - (k - 1)]
    <2>1. Len(h) + Len(<< f[k] >>) = k
        BY <1>2
    <2>2. QED BY <1>2, <1>3, <2>1, ConcatProperties
<1>5. ASSUME NEW q \in 1..k PROVE g[q] = f[q]
    <2>1. CASE q <= k - 1
        <3>1. q \in 1..(k - 1)
            BY <2>1
        <3>2. QED BY <1>1, <1>4, <2>1, <3>1
    <2>2. CASE ~(q <= k - 1)
        <3>1. q = k /\ q - (k - 1) = 1
            BY <2>2
        <3>2. g[q] = << f[k] >>[1]
            BY <1>4, <2>2, <3>1
        <3>3. QED BY <3>1, <3>2
    <2>3. QED BY <2>1, <2>2
<1>6. g = [q \in 1..k |-> g[q]]
    BY <1>4, LenProperties
<1>7. QED BY <1>1, <1>3, <1>5, <1>6

Reached(file, e, ss, n, bs, len, m, k) ==
    /\ BoxAt(file, e, ss, n, bs) /\ len \in Nat
    /\ k \in 1..Len(ss) /\ e[n[k]] <= len /\ m \in Nat /\ k <= m

LEMMA ReadOne ==
    ASSUME NEW file, NEW e, NEW ss, NEW n, NEW bs, NEW len, NEW m, NEW k,
           Reached(file, e, ss, n, bs, len, m, k), NEW bad
    PROVE  After(e, n, bs, m, bad, k) = ParseNext(file, len, After(e, n, bs, m, bad, k - 1))
<1>0. /\ BoxAt(file, e, ss, n, bs) /\ len \in Nat
      /\ k \in 1..Len(ss) /\ e[n[k]] <= len /\ m \in Nat /\ k <= m
    BY Zenon DEF Reached
<1>1. ReadAs(ss[k], bs[k]) /\ ReadThere(file, len, e[n[k - 1]], e[n[k]], ss[k])
    BY <1>0, BoxFacts
<1>2. k \in Nat /\ k - 1 <= m
    <2>1. Len(ss) \in Nat
        BY <1>0, BoxFacts
    <2>2. QED BY <1>0, <2>1
<1>3. PICK st : st = [at |-> e[n[k - 1]], blobs |-> [q \in 1..(k - 1) |-> bs[q]], failed |-> FALSE]
    OBVIOUS
<1>4. After(e, n, bs, m, bad, k - 1) = st
    BY <1>2, <1>3, Zenon DEF After
<1>5. PICK h : h = [q \in 1..(k - 1) |-> bs[q]]
    OBVIOUS
<1>6. ParseNext(file, len, st) = [at |-> e[n[k]], blobs |-> h \o << bs[k] >>, failed |-> FALSE]
    <2>1. PICK x, y, raw, b : x = e[n[k - 1]] /\ y = e[n[k]] /\ raw = ss[k] /\ b = bs[k]
        OBVIOUS
    <2>2. ReadThere(file, len, x, y, raw) /\ ReadAs(raw, b) /\ y <= len
        BY <1>0, <1>1, <2>1, Zenon
    <2>3. st = Going(x, h)
        BY <1>3, <1>5, <2>1, Zenon DEF Going
    <2>4. ParseNext(file, len, Going(x, h)) = Going(y, h \o << b >>)
        BY <1>0, <2>2, TurnReads
    <2>5. QED BY <2>1, <2>3, <2>4, Zenon DEF Going
<1>7. h \o << bs[k] >> = [q \in 1..k |-> bs[q]]
    <2>1. k \in Nat \ {0}
        BY <1>0, <1>2
    <2>2. QED BY <1>5, <2>1, OneMore, Zenon
<1>8. After(e, n, bs, m, bad, k) = [at |-> e[n[k]], blobs |-> [q \in 1..k |-> bs[q]], failed |-> FALSE]
    BY <1>0, Zenon DEF After
<1>9. QED BY <1>4, <1>6, <1>7, <1>8, Zenon

LEMMA AfterNone ==
    ASSUME NEW e, NEW n, NEW bs, NEW m \in Nat, NEW bad, n[0] = 0, e[0] = 0
    PROVE  After(e, n, bs, m, bad, 0) = Start
<1>1. 0 <= m /\ [q \in 1..0 |-> bs[q]] = << >>
    OBVIOUS
<1>2. QED BY <1>1, Zenon DEF After, Start

\* Everything up to the end, or up to where the loop stops.
LEMMA ParseStops ==
    ASSUME NEW file, NEW e, NEW ss, NEW n, NEW bs, BoxAt(file, e, ss, n, bs), NEW len \in Nat,
           NEW m \in 0..Len(ss), e[n[m]] <= len,
           e[n[m]] >= len \/ At(file, len, e[n[m]], 4) = 0
    PROVE  Parse(file, len) = [q \in 1..m |-> bs[q]]
<1>1. /\ Len(ss) \in Nat /\ Len(file) \in Nat /\ n[0] = 0 /\ e[0] = 0
      /\ \A q \in 0..Len(ss) : n[q] \in Nat /\ n[q] <= Len(file) /\ q <= n[q] /\ e[n[q]] \in Nat
      /\ \A q, r \in 0..Len(ss) : q < r => e[n[q]] < e[n[r]]
    BY BoxFacts
<1>2. m \in Nat /\ m <= Len(file)
    BY <1>1
<1> DEFINE N == Len(file)
           w == [k \in 0..N |-> After(e, n, bs, m, FALSE, k)]
           last == [at |-> e[n[m]], blobs |-> [q \in 1..m |-> bs[q]], failed |-> FALSE]
<1>3. w[0] = Start
    <2>1. 0 \in 0..N
        BY <1>1
    <2>2. w[0] = After(e, n, bs, m, FALSE, 0)
        BY <2>1
    <2>3. QED BY <1>1, <1>2, <2>2, AfterNone, Zenon
<1>4. ASSUME NEW k \in 1..N PROVE w[k] = ParseNext(file, len, w[k - 1])
    <2>1. k \in 0..N /\ k - 1 \in 0..N /\ k \in Nat
        BY <1>1
    <2>2. w[k] = After(e, n, bs, m, FALSE, k) /\ w[k - 1] = After(e, n, bs, m, FALSE, k - 1)
        BY <2>1, Zenon
    <2>3. CASE k <= m
        <3>1. k \in 1..Len(ss) /\ e[n[k]] <= len
            <4>1. k \in 1..Len(ss) /\ k \in 0..Len(ss)
                BY <1>1, <2>3
            <4>2. e[n[k]] <= e[n[m]] /\ e[n[k]] \in Nat /\ e[n[m]] \in Nat
                BY <1>1, <1>2, <2>1, <2>3, <4>1
            <4>3. QED BY <4>1, <4>2
        <3>2. After(e, n, bs, m, FALSE, k) = ParseNext(file, len, After(e, n, bs, m, FALSE, k - 1))
            <4>1. PICK bad : bad = FALSE
                OBVIOUS
            <4>2. After(e, n, bs, m, bad, k) = ParseNext(file, len, After(e, n, bs, m, bad, k - 1))
                <5>1. Reached(file, e, ss, n, bs, len, m, k)
                    BY <1>2, <2>3, <3>1, Zenon DEF Reached
                <5>2. QED BY <5>1, ReadOne
            <4>3. QED BY <4>1, <4>2, Zenon
        <3>3. QED BY <2>2, <3>2, Zenon
    <2>4. CASE ~(k <= m)
        <3>1. After(e, n, bs, m, FALSE, k) = last
            BY <2>4, Zenon DEF After
        <3>2. After(e, n, bs, m, FALSE, k - 1) = last
            <4>1. CASE k - 1 = m
                BY <2>4, <4>1, Zenon DEF After
            <4>2. CASE k - 1 # m
                <5>1. ~(k - 1 <= m)
                    BY <1>2, <2>1, <2>4, <4>2
                <5>2. QED BY <5>1, Zenon DEF After
            <4>3. QED BY <4>1, <4>2
        <3>3. ParseNext(file, len, last) = last
            <4>1. last.at = e[n[m]]
                OBVIOUS
            <4> HIDE DEF last
            <4>2. QED BY <4>1, TurnStops, Zenon
        <3>4. QED BY <2>2, <3>1, <3>2, <3>3, Zenon
    <2>5. QED BY <2>3, <2>4
<1>5. w[N] = last
    <2>1. N \in 0..N
        BY <1>1
    <2>2. w[N] = After(e, n, bs, m, FALSE, N)
        BY <2>1, Zenon
    <2>3. CASE N = m
        BY <2>2, <2>3, Zenon DEF After
    <2>4. CASE N # m
        <3>1. ~(N <= m)
            BY <1>1, <1>2, <2>4
        <3>2. QED BY <2>2, <3>1, Zenon DEF After
    <2>5. QED BY <2>3, <2>4
<1> HIDE DEF w
<1>6. Parse(file, len) = IF last.failed THEN Refused ELSE last.blobs
    <2>1. PICK end : end = last
        OBVIOUS
    <2>2. IsReading(w, file, len)
        BY <1>3, <1>4, Zenon DEF IsReading
    <2>3. end = w[Len(file)] /\ Len(file) \in Nat
        BY <1>1, <1>5, <2>1, Zenon
    <2>4. EndsAs(end, file, len)
        BY <2>2, <2>3, ParseRuns
    <2>5. QED BY <2>1, <2>4, Zenon DEF EndsAs
<1>7. QED BY <1>6

\* A blob that is cut off spoils the whole.
LEMMA ParseFails ==
    ASSUME NEW file, NEW e, NEW ss, NEW n, NEW bs, BoxAt(file, e, ss, n, bs), NEW len \in Nat,
           NEW m \in 0..Len(ss), m < Len(ss), e[n[m]] < len, len < e[n[m + 1]]
    PROVE  Parse(file, len) = Refused
<1>1. /\ Len(ss) \in Nat /\ Len(file) \in Nat /\ n[0] = 0 /\ e[0] = 0
      /\ \A q \in 0..Len(ss) : n[q] \in Nat /\ n[q] <= Len(file) /\ q <= n[q] /\ e[n[q]] \in Nat
      /\ \A q, r \in 0..Len(ss) : q < r => e[n[q]] < e[n[r]]
    BY BoxFacts
<1>2. m \in Nat /\ m + 1 <= Len(file) /\ m + 1 \in 1..Len(ss) /\ m + 1 \in 0..Len(ss) /\ (m + 1) - 1 = m
    BY <1>1
<1> DEFINE N == Len(file)
           w == [k \in 0..N |-> After(e, n, bs, m, TRUE, k)]
           good == [at |-> e[n[m]], blobs |-> [q \in 1..m |-> bs[q]], failed |-> FALSE]
           last == [at |-> e[n[m]], blobs |-> [q \in 1..m |-> bs[q]], failed |-> TRUE]
<1>3. w[0] = Start
    <2>1. 0 \in 0..N
        BY <1>1
    <2>2. w[0] = After(e, n, bs, m, TRUE, 0)
        BY <2>1
    <2>3. QED BY <1>1, <1>2, <2>2, AfterNone, Zenon
<1>4. ParseNext(file, len, good) = last
    <2>1. PICK j, x, y : j = m + 1 /\ x = e[n[m]] /\ y = e[n[j]]
        OBVIOUS
    <2>2. ReadThere(file, len, x, y, ss[j]) /\ x < len /\ ~(y <= len)
        <3>1. j \in 1..Len(ss) /\ j - 1 = m /\ y \in Nat /\ j \in 0..Len(ss)
            BY <1>1, <1>2, <2>1
        <3>2. ReadThere(file, len, e[n[j - 1]], e[n[j]], ss[j])
            BY <3>1, BoxFacts
        <3>3. ~(y <= len)
            BY <2>1, <3>1
        <3>4. QED BY <2>1, <3>1, <3>2, <3>3, Zenon
    <2>3. PICK h, st : h = [q \in 1..m |-> bs[q]] /\ st = good
        OBVIOUS
    <2>4. ParseNext(file, len, st) = [at |-> x, blobs |-> h, failed |-> TRUE]
        <3>1. st = Going(x, h)
            BY <2>1, <2>3, Zenon DEF Going
        <3>2. PICK raw : raw = ss[j]
            OBVIOUS
        <3>3. ReadThere(file, len, x, y, raw) /\ x < len /\ ~(y <= len)
            BY <2>2, <3>2, Zenon
        <3>4. ParseNext(file, len, Going(x, h)) = Stuck(x, h)
            BY <3>3, TurnFails
        <3>5. QED BY <3>1, <3>4, Zenon DEF Stuck
    <2>5. QED BY <2>1, <2>3, <2>4, Zenon
<1>5. ASSUME NEW k \in 1..N PROVE w[k] = ParseNext(file, len, w[k - 1])
    <2>1. k \in 0..N /\ k - 1 \in 0..N /\ k \in Nat
        BY <1>1
    <2>2. w[k] = After(e, n, bs, m, TRUE, k) /\ w[k - 1] = After(e, n, bs, m, TRUE, k - 1)
        BY <2>1, Zenon
    <2>3. CASE k <= m
        <3>1. k \in 1..Len(ss) /\ e[n[k]] <= len
            <4>1. k \in 1..Len(ss) /\ k \in 0..Len(ss)
                BY <1>1, <2>3
            <4>2. e[n[k]] <= e[n[m]] /\ e[n[k]] \in Nat /\ e[n[m]] \in Nat
                BY <1>1, <1>2, <2>1, <2>3, <4>1
            <4>3. QED BY <4>1, <4>2
        <3>2. After(e, n, bs, m, TRUE, k) = ParseNext(file, len, After(e, n, bs, m, TRUE, k - 1))
            <4>1. PICK bad : bad = TRUE
                OBVIOUS
            <4>2. After(e, n, bs, m, bad, k) = ParseNext(file, len, After(e, n, bs, m, bad, k - 1))
                <5>1. Reached(file, e, ss, n, bs, len, m, k)
                    BY <1>2, <2>3, <3>1, Zenon DEF Reached
                <5>2. QED BY <5>1, ReadOne
            <4>3. QED BY <4>1, <4>2, Zenon
        <3>3. QED BY <2>2, <3>2, Zenon
    <2>4. CASE ~(k <= m)
        <3>1. After(e, n, bs, m, TRUE, k) = last
            BY <2>4, Zenon DEF After
        <3>2. CASE k - 1 = m
            <4>1. k - 1 <= m
                BY <1>2, <3>2
            <4>2. After(e, n, bs, m, TRUE, k - 1) = good
                BY <3>2, <4>1, Zenon DEF After
            <4>3. QED BY <1>4, <2>2, <3>1, <4>2, Zenon
        <3>3. CASE k - 1 # m
            <4>1. ~(k - 1 <= m)
                BY <1>2, <2>1, <2>4, <3>3
            <4>2. After(e, n, bs, m, TRUE, k - 1) = last
                BY <4>1, Zenon DEF After
            <4>3. ParseNext(file, len, last) = last
                <5>1. last.failed
                    OBVIOUS
                <5> HIDE DEF last
                <5>2. QED BY <5>1, TurnStops, Zenon
            <4>4. QED BY <2>2, <3>1, <4>2, <4>3, Zenon
        <3>4. QED BY <3>2, <3>3
    <2>5. QED BY <2>3, <2>4
<1>6. w[N] = last
    <2>1. N \in 0..N /\ ~(N <= m)
        BY <1>1, <1>2
    <2>2. w[N] = After(e, n, bs, m, TRUE, N)
        BY <2>1, Zenon
    <2>3. QED BY <2>1, <2>2, Zenon DEF After
<1> HIDE DEF w
<1>7. Parse(file, len) = IF last.failed THEN Refused ELSE last.blobs
    <2>1. PICK end : end = last
        OBVIOUS
    <2>2. IsReading(w, file, len)
        BY <1>3, <1>5, Zenon DEF IsReading
    <2>3. end = w[Len(file)] /\ Len(file) \in Nat
        BY <1>1, <1>6, <2>1, Zenon
    <2>4. EndsAs(end, file, len)
        BY <2>2, <2>3, ParseRuns
    <2>5. QED BY <2>1, <2>4, Zenon DEF EndsAs
<1>8. QED BY <1>7

\* A list of blobs, and of what each is read as.
AreRaws(ss, bs) == \A q \in 1..Len(ss) : ReadAs(ss[q], bs[q]) /\ \E u : IsRaw(ss[q], u)

BoxLaid(X, fs, ss, n, bs, pad) ==
    /\ fs \in Seq(X) /\ BoxAt(Laid(fs).fields, Ends(fs), ss, n, bs)
    /\ Len(fs) = n[Len(ss)] + Len(pad) /\ Joins(fs, FlattenSeq(ss), pad)

\* They are found in a file of them.
LEMMA LaidBox ==
    ASSUME NEW X, Sized(X), NEW ss \in Seq(Seq(X)), NEW bs, AreRaws(ss, bs), NEW pad \in Seq(X),
           NEW fs, fs = FlattenSeq(ss) \o pad, NEW n, Places(n, ss)
    PROVE  BoxLaid(X, fs, ss, n, bs, pad)
<1> DEFINE fl == FlattenSeq(ss)
           file == Laid(fs).fields
<1>1. Len(ss) \in Nat /\ \A q \in 1..Len(ss) : ss[q] \in Seq(X)
    BY LenProperties
<1>2. fl \in Seq(X) /\ Len(fl) = n[Len(ss)]
    BY FlattenPlaces, Zenon DEF Places
<1>3. fs \in Seq(X) /\ Joins(fs, fl, pad) /\ Len(pad) \in Nat
    <2> HIDE DEF fl
    <2>1. QED BY <1>2, ConcatJoins DEF fl
<1>4. Len(fs) = n[Len(ss)] + Len(pad) /\ \A i \in 1..n[Len(ss)] : fs[i] = fl[i]
    BY <1>2, <1>3, Zenon DEF Joins
<1>5. /\ Spaced(file, Ends(fs)) /\ Len(file) = Len(fs)
      /\ \A j \in 1..Len(fs) : file[j].val = fs[j].val /\ file[j].size = fs[j].size
    BY <1>3, LaidSpaced, Zenon
<1>6. n[Len(ss)] \in Nat /\ n[Len(ss)] <= Len(fs)
    <2>1. Len(ss) \in 0..Len(ss)
        BY <1>1
    <2>2. n[Len(ss)] \in Nat
        BY <2>1, Zenon DEF Places
    <2>3. QED BY <1>3, <1>4, <2>2
<1> HIDE DEF file, fl
<1>7. ASSUME NEW q \in 1..Len(ss) PROVE Holds(file, n[q - 1], n[q], ss[q])
    <2>1. q \in 0..Len(ss) /\ q - 1 \in 0..Len(ss)
        BY <1>1
    <2>2. n[q - 1] \in Nat /\ n[q] \in Nat /\ n[q] = n[q - 1] + Len(ss[q])
        BY <2>1, Zenon DEF Places
    <2>3. n[q] <= n[Len(ss)]
        BY <2>1, FlattenPrefix
    <2>4. n[q] <= Len(file)
        BY <1>5, <1>6, <2>2, <2>3
    <2>5. ASSUME NEW j \in 1..Len(ss[q])
          PROVE  file[n[q - 1] + j].size = ss[q][j].size /\ file[n[q - 1] + j].val = ss[q][j].val
        <3>1. PICK i : i = n[q - 1] + j
            OBVIOUS
        <3>2. i \in 1..n[Len(ss)] /\ fl[i] = ss[q][j]
            BY <3>1, Zenon DEF Places, fl
        <3>3. i \in 1..Len(fs)
            BY <1>6, <3>2, <1>3, <1>4
        <3>4. fs[i] = ss[q][j]
            BY <1>4, <3>2, Zenon
        <3>5. QED BY <1>5, <3>1, <3>3, <3>4, Zenon
    <2>6. QED BY <2>2, <2>4, <2>5, Zenon DEF Holds
<1>8. BoxAt(file, Ends(fs), ss, n, bs)
    BY <1>1, <1>5, <1>7, Zenon DEF BoxAt, AreRaws
<1>9. QED BY <1>3, <1>4, <1>8, Zenon DEF file, fl, BoxLaid

\* What pads a file begins with a length of zero.
PadOf(pad) == pad # << >> => pad[1].size = 4 /\ pad[1].val = 0

ReadWhole(fs, ss, bs) == Parse(Laid(fs).fields, Laid(fs).to) = [q \in 1..Len(ss) |-> bs[q]]

\* The whole of a file is read, up to what pads it.
LEMMA WholeBoxRead ==
    ASSUME NEW X, Sized(X), NEW ss \in Seq(Seq(X)), NEW bs, AreRaws(ss, bs), NEW pad \in Seq(X),
           PadOf(pad), NEW fs, fs = FlattenSeq(ss) \o pad
    PROVE  ReadWhole(fs, ss, bs)
<1>1. PICK n : Places(n, ss)
    BY FlattenPlaces
<1> DEFINE file == Laid(fs).fields
           e == Ends(fs)
           M == Len(ss)
<1>2. /\ fs \in Seq(X) /\ BoxAt(file, e, ss, n, bs) /\ Len(fs) = n[M] + Len(pad)
      /\ Joins(fs, FlattenSeq(ss), pad)
    <2>1. BoxLaid(X, fs, ss, n, bs, pad)
        BY <1>1, LaidBox
    <2>2. QED BY <2>1, Zenon DEF BoxLaid
<1>3. /\ Spaced(file, e) /\ Len(file) = Len(fs) /\ Laid(fs).to = e[Len(fs)]
      /\ \A j \in 1..Len(fs) : file[j].val = fs[j].val /\ file[j].size = fs[j].size
    BY <1>2, LaidSpaced, Zenon
<1> HIDE DEF file, e
<1>4. M \in Nat /\ M \in 0..M /\ Len(pad) \in Nat /\ n[M] \in Nat /\ Len(FlattenSeq(ss)) = n[M]
    <2>1. M \in Nat /\ Len(pad) \in Nat
        BY LenProperties
    <2>2. M \in 0..M
        BY <2>1
    <2>3. QED BY <1>1, <2>1, <2>2, Zenon DEF Places
<1>5. PICK len, a : len = e[Len(fs)] /\ a = n[M]
    OBVIOUS
<1>6. Len(fs) \in 0..Len(file) /\ a \in 0..Len(file) /\ len \in Nat /\ e[a] \in Nat
    <2>1. Len(fs) \in 0..Len(file) /\ a \in 0..Len(file)
        BY <1>2, <1>3, <1>4, <1>5
    <2>2. QED BY <1>3, <1>5, <2>1, Zenon DEF Spaced
<1>7. e[a] <= len /\ (e[a] >= len \/ At(file, len, e[a], 4) = 0)
    <2>1. CASE pad = << >>
        <3>1. a = Len(fs)
            BY <1>2, <1>4, <1>5, <2>1
        <3>2. QED BY <1>5, <1>6, <3>1
    <2>2. CASE pad # << >>
        <3>1. Len(pad) > 0 /\ 1 \in 1..Len(pad)
            <4>1. Len(pad) # 0
                BY <2>2, EmptySeq
            <4>2. QED BY <1>4, <4>1
        <3>2. PICK j : j = a + 1
            OBVIOUS
        <3>3. j \in 1..Len(file) /\ j - 1 = a /\ j \in 1..Len(fs) /\ j \in 0..Len(file)
            <4>1. PICK L, l : L = Len(fs) /\ l = Len(pad)
                OBVIOUS
            <4>2. L = a + l /\ l \in Nat /\ l > 0 /\ a \in Nat
                BY <1>2, <1>4, <1>5, <3>1, <4>1
            <4>3. j - 1 = a /\ j \in 1..L /\ j \in 0..L
                BY <3>2, <4>2
            <4>4. Len(file) = L
                BY <1>3, <4>1, Zenon
            <4>5. QED BY <4>1, <4>3, <4>4, Zenon
        <3>4. fs[j] = pad[1]
            BY <1>2, <1>4, <1>5, <3>1, <3>2, Zenon DEF Joins
        <3>5. file[j].size = 4 /\ file[j].val = 0
            BY <1>3, <2>2, <3>3, <3>4, Zenon DEF PadOf
        <3>6. 4 = e[j] - e[a] /\ e[j] \in Nat
            <4>1. PICK f : f = file[j]
                OBVIOUS
            <4>2. f = [at |-> e[j - 1], size |-> e[j] - e[j - 1], val |-> f.val]
                BY <1>3, <3>3, <4>1, Zenon DEF Spaced
            <4>3. f.size = e[j] - e[j - 1]
                BY <4>2
            <4>4. e[j] \in Nat
                BY <1>3, <3>3, Zenon DEF Spaced
            <4>5. QED BY <3>3, <3>5, <4>1, <4>3, <4>4, Zenon
        <3>7. e[j] <= len
            <4>1. j < Len(fs) \/ j = Len(fs)
                <5>1. PICK L : L = Len(fs)
                    OBVIOUS
                <5>2. L \in Nat
                    BY <1>2, <5>1
                <5>3. j \in 1..L
                    BY <3>3, <5>1, Zenon
                <5>4. j < L \/ j = L
                    BY <5>2, <5>3
                <5>5. QED BY <5>1, <5>4, Zenon
            <4>2. j < Len(fs) => e[j] < e[Len(fs)]
                BY <1>3, <1>6, <3>3, Zenon DEF Spaced
            <4>3. QED BY <1>5, <1>6, <3>6, <4>1, <4>2
        <3>8. At(file, len, e[a], 4) = 0
            <4>1. PICK i, size : i = e[a] /\ size = 4
                OBVIOUS
            <4>2. i = e[j - 1] /\ size = e[j] - e[j - 1]
                BY <3>3, <3>6, <4>1, Zenon
            <4>3. At(file, len, i, size) = IF e[j] > len THEN Garbage ELSE file[j].val
                BY <1>3, <1>6, <3>3, <4>2, AtIs
            <4>4. ~(e[j] > len)
                BY <1>6, <3>6, <3>7
            <4>5. QED BY <3>5, <4>1, <4>3, <4>4, Zenon
        <3>9. e[a] <= len
            BY <1>6, <3>6, <3>7
        <3>10. QED BY <3>8, <3>9
    <2>3. QED BY <2>1, <2>2
<1>8. Parse(file, len) = [q \in 1..M |-> bs[q]]
    <2>1. e[n[M]] <= len /\ (e[n[M]] >= len \/ At(file, len, e[n[M]], 4) = 0)
        BY <1>5, <1>7, Zenon
    <2>2. QED BY <1>2, <1>4, <1>6, <2>1, ParseStops
<1>9. QED BY <1>3, <1>5, <1>8, Zenon DEF file, ReadWhole

\* A number below the last of growing ones is one of them or between two of them.
LEMMA Between ==
    ASSUME NEW N \in Nat, NEW x, \A q \in 0..N : x[q] \in Nat, x[0] = 0, NEW v \in Nat,
           v <= x[N], \A q \in 0..N : v # x[q]
    PROVE  \E m \in 0..N : m < N /\ x[m] < v /\ v < x[m + 1]
<1> SUFFICES ASSUME \A m \in 0..N : m < N => ~(x[m] < v /\ v < x[m + 1])
             PROVE  FALSE
    OBVIOUS
<1> DEFINE P == {q \in Nat : q <= N => x[q] < v}
<1>1. 0 \in P
    <2>1. 0 \in 0..N
        OBVIOUS
    <2>2. QED BY <2>1
<1>2. ASSUME NEW q \in Nat, q \in P PROVE q + 1 \in P
    <2> SUFFICES ASSUME q + 1 <= N PROVE x[q + 1] < v
        OBVIOUS
    <2>1. q \in 0..N /\ q < N /\ q + 1 \in 0..N
        OBVIOUS
    <2>2. x[q] < v /\ ~(v < x[q + 1]) /\ v # x[q + 1] /\ x[q + 1] \in Nat
        BY <1>2, <2>1
    <2>3. QED BY <2>2
<1> HIDE DEF P
<1>3. N \in P
    BY <1>1, <1>2, NatSetInduction
<1>4. x[N] < v /\ N \in 0..N
    BY <1>3 DEF P
<1>5. QED BY <1>4

\* Where the first blobs of a file end.
LEMMA FirstEnd ==
    ASSUME NEW X, Sized(X), NEW ss \in Seq(Seq(X)), NEW n, Places(n, ss), NEW m \in 0..Len(ss)
    PROVE  Bytesize(FlattenSeq(SubSeq(ss, 1, m))) = Ends(FlattenSeq(ss))[n[m]]
<1>1. PICK fs : fs = FlattenSeq(ss)
    OBVIOUS
<1>2. PICK p : p = FlattenSeq(SubSeq(ss, 1, m))
    OBVIOUS
<1>3. fs \in Seq(X) /\ Len(fs) = n[Len(ss)]
    BY <1>1, FlattenPlaces, Zenon DEF Places
<1>4. p \in Seq(X) /\ Len(p) = n[m] /\ n[m] <= n[Len(ss)]
      /\ \A i \in 1..n[m] : i \in 1..n[Len(ss)] /\ p[i] = FlattenSeq(ss)[i]
    BY <1>2, FlattenPrefix
<1>5. Run(Ends(fs), fs) /\ Run(Ends(p), p) /\ Bytesize(p) = Ends(p)[Len(p)]
    BY <1>3, <1>4, EndsIs, LaidSpaced
<1>6. Len(fs) \in Nat /\ Len(p) \in 0..Len(fs) /\ Len(p) \in 0..Len(p)
    BY <1>3, <1>4, LenProperties
<1>7. \A j \in 1..Len(p) : p[j].size = fs[j].size
    BY <1>1, <1>4, Zenon
<1>8. \A j \in 0..Len(p) : Ends(p)[j] = Ends(fs)[j]
    BY <1>5, <1>6, <1>7, SameEnds
<1>9. QED BY <1>1, <1>2, <1>4, <1>5, <1>6, <1>8, Zenon

\* The first of the blobs, if a file ends after them.
CutRead(ss, bs, to, read) ==
    LET whole == {m \in 0..Len(ss) : to = Bytesize(FlattenSeq(SubSeq(ss, 1, m)))}
    IN  IF whole = {} THEN read = Refused
        ELSE Max(whole) \in 0..Len(ss) /\ read = [q \in 1..Max(whole) |-> bs[q]]

\* A file that is cut off is read up to there if a blob ends there, and refused otherwise.
LEMMA CutBoxRead ==
    ASSUME NEW X, Sized(X), NEW ss \in Seq(Seq(X)), NEW bs, AreRaws(ss, bs),
           NEW fs, fs = FlattenSeq(ss), NEW to \in Nat, to <= Laid(fs).to
    PROVE  CutRead(ss, bs, to, Parse(Laid(fs).fields, to))
<1>1. PICK n : Places(n, ss)
    BY FlattenPlaces
<1> DEFINE file == Laid(fs).fields
           e == Ends(fs)
           M == Len(ss)
           whole == {m \in 0..M : to = Bytesize(FlattenSeq(SubSeq(ss, 1, m)))}
<1>2. fs \in Seq(X) /\ Len(fs) = n[M] /\ BoxAt(file, e, ss, n, bs)
    <2>1. fs \in Seq(X) /\ Len(fs) = n[M]
        BY <1>1, FlattenPlaces, Zenon DEF Places
    <2>2. PICK pad : pad = << >>
        OBVIOUS
    <2>3. pad \in Seq(X)
        BY <2>2
    <2>4. fs = FlattenSeq(ss) \o pad
        BY <2>1, <2>2
    <2>5. BoxLaid(X, fs, ss, n, bs, pad)
        BY <1>1, <2>3, <2>4, LaidBox
    <2>6. QED BY <2>1, <2>5, Zenon DEF BoxLaid
<1>3. Laid(fs).to = e[n[M]] /\ Spaced(file, e)
    BY <1>2, LaidSpaced, Zenon
<1>4. \A m \in 0..M : Bytesize(FlattenSeq(SubSeq(ss, 1, m))) = e[n[m]]
    BY <1>1, FirstEnd
<1>5. whole = {m \in 0..M : to = e[n[m]]}
    <2> HIDE DEF e
    <2>1. QED BY <1>4
<1> HIDE DEF file, e, whole
<1>6. M \in Nat /\ n[0] = 0 /\ e[0] = 0 /\ \A q \in 0..M : e[n[q]] \in Nat
    BY <1>2, BoxFacts
<1>7. \A q, r \in 0..M : q < r => e[n[q]] < e[n[r]]
    BY <1>2, BoxFacts
<1>8. CASE whole = {}
    <2> DEFINE x == [q \in 0..M |-> e[n[q]]]
    <2>1. \A q \in 0..M : x[q] = e[n[q]]
        OBVIOUS
    <2> HIDE DEF x
    <2>2. M \in 0..M /\ 0 \in 0..M
        BY <1>6
    <2>3. \A q \in 0..M : x[q] \in Nat /\ to # x[q]
        BY <1>5, <1>6, <1>8, <2>1
    <2>4. x[0] = 0 /\ to <= x[M]
        BY <1>3, <1>6, <2>1, <2>2, Zenon
    <2>5. PICK m \in 0..M : m < M /\ x[m] < to /\ to < x[m + 1]
        BY <1>6, <2>3, <2>4, Between
    <2>6. m + 1 \in 0..M
        BY <1>6, <2>5
    <2>7. e[n[m]] < to /\ to < e[n[m + 1]]
        BY <2>1, <2>5, <2>6, Zenon
    <2>8. Parse(file, to) = Refused
        BY <1>2, <2>5, <2>7, ParseFails
    <2>9. QED BY <1>8, <2>8, Zenon DEF CutRead, whole, file
<1>9. CASE whole # {}
    <2>1. PICK m \in 0..M : to = e[n[m]] /\ m \in whole
        BY <1>5, <1>9
    <2>2. ASSUME NEW k \in whole PROVE k = m
        <3>1. k \in 0..M /\ e[n[k]] = to /\ e[n[m]] = to
            BY <1>5, <2>1
        <3>2. ~(to < to)
            OBVIOUS
        <3>3. ~(k < m) /\ ~(m < k)
            BY <1>7, <3>1, <3>2, Zenon
        <3>4. QED BY <1>6, <3>1, <3>3
    <2>3. Max(whole) = m
        <3>1. \A k \in whole : m >= k /\ (k >= m => k = m)
            BY <2>2
        <3>2. QED BY <2>1, <3>1, MaxIs
    <2>4. e[n[m]] <= to /\ e[n[m]] >= to
        BY <1>6, <2>1
    <2>5. Parse(file, to) = [q \in 1..m |-> bs[q]]
        BY <1>2, <2>4, ParseStops
    <2>6. QED BY <1>9, <2>3, <2>5, Zenon DEF CutRead, whole, file
<1>10. QED BY <1>8, <1>9

-----------------------------------------------------------------------------
(* What NewOpenPGPBlob writes is a blob.                                    *)

\* A list given by its elements.
LEMMA LenOfList ==
    ASSUME NEW N \in Nat, NEW s, s = [j \in 1..N |-> s[j]]
    PROVE  Len(s) = N /\ s \in Seq({s[j] : j \in 1..N}) /\ DOMAIN s = 1..N
<1> DEFINE X == {s[j] : j \in 1..N}
<1>1. \A j \in 1..N : s[j] \in X
    OBVIOUS
<1>2. s \in [1..N -> X]
    <2> HIDE DEF X
    <2>1. QED BY <1>1
<1> HIDE DEF X
<1>3. s \in Seq(X)
    BY <1>2, SeqDef
<1>4. DOMAIN s = 1..N /\ DOMAIN s = 1..Len(s) /\ Len(s) \in Nat
    BY <1>2, <1>3, LenProperties
<1>5. Len(s) = N
    BY <1>4
<1>6. QED BY <1>3, <1>4, <1>5 DEF X

\* What the deferred writes make of a file: its fields stay where they are.
FixedOf(file, e, fx, raw) ==
    /\ Spaced(raw, e) /\ Len(raw) = Len(file)
    /\ \A j \in 1..Len(file) :
          /\ (\A x \in fx : x.offset # e[j - 1]) => raw[j].val = file[j].val
          /\ \A x \in fx : x.offset = e[j - 1]
                            /\ (\A y \in fx : y.offset = e[j - 1] => y.value = x.value)
                           => raw[j].val = x.value

LEMMA FixedFields ==
    ASSUME NEW file, NEW e, Spaced(file, e), NEW fx, NEW raw, raw = Fixed(file, fx)
    PROVE  FixedOf(file, e, fx, raw)
<1>1. /\ Len(file) \in Nat /\ DOMAIN file = 1..Len(file)
      /\ e[0] = 0 /\ (\A j \in 0..Len(file) : e[j] \in Nat)
      /\ (\A j, k \in 0..Len(file) : j < k => e[j] < e[k])
      /\ \A j \in 1..Len(file) :
            /\ j - 1 \in 0..Len(file) /\ j \in 0..Len(file)
            /\ file[j] = [at |-> e[j - 1], size |-> e[j] - e[j - 1], val |-> file[j].val]
    BY Zenon DEF Spaced
<1> DEFINE here(j) == {x \in fx : x.offset = file[j].at}
           val(j) == IF here(j) = {} THEN file[j].val ELSE (CHOOSE x \in here(j) : TRUE).value
           one(j) == IF here(j) = {} THEN file[j] ELSE [file[j] EXCEPT !.val = (CHOOSE x \in here(j) : TRUE).value]
<1>2. raw = [j \in 1..Len(file) |-> one(j)]
    BY <1>1, Zenon DEF Fixed
<1>3. ASSUME NEW j \in 1..Len(file)
      PROVE  /\ one(j) = [at |-> e[j - 1], size |-> e[j] - e[j - 1], val |-> val(j)]
             /\ file[j].at = e[j - 1]
    <2>1. PICK f, x, y, z : f = file[j] /\ x = e[j - 1] /\ y = e[j] - e[j - 1] /\ z = f.val
        OBVIOUS
    <2>2. f = [at |-> x, size |-> y, val |-> z]
        BY <1>1, <2>1, Zenon
    <2>3. PICK c : c = (CHOOSE v \in here(j) : TRUE).value
        OBVIOUS
    <2>4. [f EXCEPT !.val = c] = [at |-> x, size |-> y, val |-> c] /\ f.at = x
        BY <2>2
    <2>5. CASE here(j) = {}
        <3>1. one(j) = f /\ val(j) = z
            BY <2>1, <2>5, Zenon
        <3>2. QED BY <2>1, <2>2, <2>4, <3>1, Zenon
    <2>6. CASE here(j) # {}
        <3>1. one(j) = [f EXCEPT !.val = c] /\ val(j) = c
            BY <2>1, <2>3, <2>6, Zenon
        <3>2. QED BY <2>1, <2>4, <3>1, Zenon
    <2>7. QED BY <2>5, <2>6
<1> HIDE DEF one
<1>4. \A j \in 1..Len(file) : raw[j] = [at |-> e[j - 1], size |-> e[j] - e[j - 1], val |-> val(j)]
    <2> HIDE DEF val
    <2>1. QED BY <1>2, <1>3, Zenon
<1>5. ASSUME NEW j \in 1..Len(file) PROVE raw[j].val = val(j)
    <2> HIDE DEF val
    <2>1. PICK x, y, z, f : x = e[j - 1] /\ y = e[j] - e[j - 1] /\ z = val(j) /\ f = raw[j]
        OBVIOUS
    <2>2. f = [at |-> x, size |-> y, val |-> z]
        BY <1>4, <2>1, Zenon
    <2>3. f.val = z
        BY <2>2
    <2>4. QED BY <2>1, <2>3, Zenon
<1>6. Len(raw) = Len(file) /\ DOMAIN raw = 1..Len(raw) /\ raw = [j \in 1..Len(raw) |-> raw[j]]
    <2>1. DOMAIN raw = 1..Len(file) /\ raw = [j \in 1..Len(file) |-> raw[j]]
        BY <1>2, Zenon
    <2>2. Len(raw) = Len(file)
        BY <1>1, <2>1, LenOfList
    <2>3. QED BY <2>1, <2>2, Zenon
<1>7. Spaced(raw, e)
    <2>1. \A j \in 1..Len(raw) :
            /\ j - 1 \in 0..Len(raw) /\ j \in 0..Len(raw)
            /\ raw[j] = [at |-> e[j - 1], size |-> e[j] - e[j - 1], val |-> raw[j].val]
        <3> HIDE DEF val
        <3>1. QED BY <1>1, <1>4, <1>5, <1>6, Zenon
    <2>2. QED BY <1>1, <1>6, <2>1, Zenon DEF Spaced
<1>8. ASSUME NEW j \in 1..Len(file), \A x \in fx : x.offset # e[j - 1]
      PROVE  raw[j].val = file[j].val
    <2>1. here(j) = {}
        BY <1>3, <1>8, Zenon
    <2>2. QED BY <1>5, <2>1, Zenon
<1>9. ASSUME NEW j \in 1..Len(file), NEW x \in fx, x.offset = e[j - 1],
             \A y \in fx : y.offset = e[j - 1] => y.value = x.value
      PROVE  raw[j].val = x.value
    <2>1. x \in here(j) /\ \A y \in here(j) : y.value = x.value
        BY <1>3, <1>9, Zenon
    <2>2. (CHOOSE y \in here(j) : TRUE) \in here(j)
        BY <2>1, Zenon
    <2>3. val(j) = x.value
        BY <2>1, <2>2, Zenon
    <2>4. QED BY <1>5, <2>3, Zenon
<1>10. QED BY <1>6, <1>7, <1>8, <1>9, Zenon DEF FixedOf

\* A field of a whole blob is read as it is.
FieldAt(raw, u, j, i, size) == j \in 1..Len(raw) /\ i = u[j - 1] /\ size = u[j] - u[j - 1]

LEMMA ReadField ==
    ASSUME NEW raw, NEW u, Spaced(raw, u), NEW j, NEW i, NEW size, FieldAt(raw, u, j, i, size)
    PROVE  At(raw, u[Len(raw)], i, size) = raw[j].val
<1>0. PICK total : total = u[Len(raw)]
    OBVIOUS
<1>00. j \in 1..Len(raw) /\ i = u[j - 1] /\ size = u[j] - u[j - 1]
    BY Zenon DEF FieldAt
<1>1. Len(raw) \in Nat /\ j \in 0..Len(raw) /\ Len(raw) \in 0..Len(raw)
    <2>1. Len(raw) \in Nat
        BY Zenon DEF Spaced
    <2>2. QED BY <1>00, <2>1
<1>2. total \in Nat /\ u[j] \in Nat
    BY <1>0, <1>1, Zenon DEF Spaced
<1>3. u[j] <= total
    <2>1. j < Len(raw) => u[j] < u[Len(raw)]
        BY <1>1, Zenon DEF Spaced
    <2>2. CASE j = Len(raw)
        BY <1>0, <1>2, <2>2
    <2>3. CASE j # Len(raw)
        BY <1>0, <1>00, <1>1, <1>2, <2>1, <2>3
    <2>4. QED BY <2>2, <2>3
<1>4. At(raw, total, i, size) = IF u[j] > total THEN Garbage ELSE raw[j].val
    BY <1>00, <1>2, AtIs
<1>5. ~(u[j] > total)
    BY <1>2, <1>3
<1>6. QED BY <1>0, <1>4, <1>5, Zenon

\* The first fields of an OpenPGP blob.
BeginsSo(u) ==
    /\ u[0] = 0 /\ u[1] = 4 /\ u[2] = 5 /\ u[3] = 6 /\ u[4] = 8
    /\ u[5] = 12 /\ u[6] = 16 /\ u[7] = 18 /\ u[8] = 20

LEMMA BeginningEnds ==
    ASSUME NEW X, Sized(X), NEW fs \in Seq(X), Len(fs) >= 8,
           \A j \in 1..8 : fs[j].size = Fixed20(0)[j].size
    PROVE  BeginsSo(Ends(fs)) /\ Bytesize(fs) \in Nat /\ Bytesize(fs) >= 20
<1> DEFINE u == Ends(fs)
<1>1. Run(u, fs)
    BY EndsIs
<1>2. Len(fs) \in Nat /\ (\A j \in 0..Len(fs) : u[j] \in Nat)
      /\ \A j, k \in 0..Len(fs) : j < k => u[j] < u[k]
    BY <1>1, RunGrows
<1>3. u[0] = 0 /\ \A j \in 1..8 : u[j] = u[j - 1] + fs[j].size
    <2>1. \A j \in 1..8 : j \in 1..Len(fs)
        BY <1>2
    <2>2. QED BY <1>1, <2>1, Zenon DEF Run
<1>4. Bytesize(fs) = u[Len(fs)]
    BY LaidSpaced
<1> HIDE DEF u
<1>5. /\ fs[1].size = 4 /\ fs[2].size = 1 /\ fs[3].size = 1 /\ fs[4].size = 2
      /\ fs[5].size = 4 /\ fs[6].size = 4 /\ fs[7].size = 2 /\ fs[8].size = 2
    <2>1. /\ Fixed20(0)[1].size = 4 /\ Fixed20(0)[2].size = 1 /\ Fixed20(0)[3].size = 1
          /\ Fixed20(0)[4].size = 2 /\ Fixed20(0)[5].size = 4 /\ Fixed20(0)[6].size = 4
          /\ Fixed20(0)[7].size = 2 /\ Fixed20(0)[8].size = 2
        BY DEF Fixed20, F
    <2>2. 1 \in 1..8 /\ 2 \in 1..8 /\ 3 \in 1..8 /\ 4 \in 1..8
          /\ 5 \in 1..8 /\ 6 \in 1..8 /\ 7 \in 1..8 /\ 8 \in 1..8
        OBVIOUS
    <2>3. QED BY <2>1, <2>2, Zenon
<1>6. BeginsSo(u)
    <2>1. u[1] = 4
        BY <1>3, <1>5
    <2>2. u[2] = 5
        BY <1>3, <1>5, <2>1
    <2>3. u[3] = 6
        BY <1>3, <1>5, <2>2
    <2>4. u[4] = 8
        BY <1>3, <1>5, <2>3
    <2>5. u[5] = 12
        BY <1>3, <1>5, <2>4
    <2>6. u[6] = 16
        BY <1>3, <1>5, <2>5
    <2>7. u[7] = 18
        BY <1>3, <1>5, <2>6
    <2>8. u[8] = 20
        BY <1>3, <1>5, <2>7
    <2>9. QED BY <1>3, <2>1, <2>2, <2>3, <2>4, <2>5, <2>6, <2>7, <2>8, Zenon DEF BeginsSo
<1>7. u[Len(fs)] \in Nat /\ u[Len(fs)] >= 20
    <2>1. 8 \in 0..Len(fs) /\ Len(fs) \in 0..Len(fs)
        BY <1>2
    <2>2. u[8] = 20
        BY <1>6 DEF BeginsSo
    <2>3. CASE Len(fs) = 8
        BY <1>2, <2>1, <2>2, <2>3
    <2>4. CASE Len(fs) # 8
        <3>1. 8 < Len(fs)
            <4>1. \A l \in Nat : l >= 8 /\ l # 8 => 8 < l
                OBVIOUS
            <4>2. QED BY <1>2, <2>4, <4>1, Zenon
        <3>2. u[8] < u[Len(fs)] /\ u[Len(fs)] \in Nat
            BY <1>2, <2>1, <3>1
        <3>3. QED BY <2>2, <3>2
    <2>5. QED BY <2>3, <2>4
<1>8. QED BY <1>4, <1>6, <1>7 DEF u

\* Lists of the parts of a blob.
LEMMA Chunks ==
    ASSUME NEW X, NEW N \in Nat, NEW ss, ss = [k \in 1..N |-> ss[k]],
           \A k \in 1..N : ss[k] \in Seq(X)
    PROVE  ss \in Seq(Seq(X)) /\ Len(ss) = N /\ FlattenSeq(ss) \in Seq(X)
<1>1. ss \in [1..N -> Seq(X)]
    OBVIOUS
<1>2. ss \in Seq(Seq(X))
    BY <1>1, SeqDef
<1>3. Len(ss) = N
    BY <1>1, <1>2, LenProperties
<1>4. QED BY <1>2, <1>3, FlattenFacts

JoinOf(X, c, a, b) ==
    /\ c \in Seq(X) /\ Joins(c, a, b) /\ Len(a) \in Nat /\ Len(b) \in Nat
    /\ Len(c) = Len(a) + Len(b)

LEMMA JoinedParts ==
    ASSUME NEW X, NEW a \in Seq(X), NEW b \in Seq(X), NEW c, c = a \o b
    PROVE  JoinOf(X, c, a, b)
<1>1. c \in Seq(X) /\ Joins(c, a, b) /\ Len(a) \in Nat /\ Len(b) \in Nat
    BY ConcatJoins
<1>2. QED BY <1>1, Zenon DEF Joins, JoinOf

\* The parts of a blob: they are fields, and where they are.
PartsOf(nk, infos, u2, uidparts, len, ps, before, all) ==
    /\ before = ((Fixed20(nk) \o infos) \o u2) \o uidparts \o SigsAndTimes
    /\ all = before \o << F(len, ps), F(20, 0) >>

PartsAt(X, nk, infos, len, ps, before, all) ==
    /\ before \in Seq(X) /\ all \in Seq(X) /\ Len(before) \in Nat /\ Len(infos) \in Nat
    /\ Len(before) >= 8 + Len(infos) /\ Len(all) = Len(before) + 2
    /\ \A j \in 1..Len(before) : all[j] = before[j]
    /\ all[Len(before) + 1] = F(len, ps) /\ all[Len(before) + 2] = F(20, 0)
    /\ \A j \in 1..8 : all[j] = Fixed20(nk)[j]
    /\ \A j \in 1..Len(infos) : all[8 + j] = infos[j]

LEMMA PartsPlaced ==
    ASSUME NEW X, NEW nk, NEW infos, NEW u2, NEW uidparts, NEW len, NEW ps, NEW before, NEW all,
           PartsOf(nk, infos, u2, uidparts, len, ps, before, all),
           Fixed20(nk) \in Seq(X), infos \in Seq(X), u2 \in Seq(X), uidparts \in Seq(X),
           SigsAndTimes \in Seq(X), << F(len, ps), F(20, 0) >> \in Seq(X)
    PROVE  PartsAt(X, nk, infos, len, ps, before, all)
<1> DEFINE f20 == Fixed20(nk)
           tail == << F(len, ps), F(20, 0) >>
<1>0. PICK a, b, c : a = f20 \o infos /\ b = a \o u2 /\ c = b \o uidparts
    OBVIOUS
<1>1. Len(f20) = 8
    BY DEF Fixed20
<1>2. Len(tail) = 2 /\ tail[1] = F(len, ps) /\ tail[2] = F(20, 0)
    OBVIOUS
<1>3. f20 \in Seq(X) /\ tail \in Seq(X) /\ before = c \o SigsAndTimes /\ all = before \o tail
    BY <1>0, Zenon DEF PartsOf
<1> HIDE DEF f20, tail
<1>4. a \in Seq(X) /\ Joins(a, f20, infos) /\ Len(a) = Len(f20) + Len(infos) /\ Len(infos) \in Nat
    <2>1. JoinOf(X, a, f20, infos)
        BY <1>0, <1>3, JoinedParts
    <2>2. QED BY <2>1, Zenon DEF JoinOf
<1>5. b \in Seq(X) /\ Joins(b, a, u2) /\ Len(b) = Len(a) + Len(u2) /\ Len(u2) \in Nat
    <2>1. JoinOf(X, b, a, u2)
        BY <1>0, <1>4, JoinedParts
    <2>2. QED BY <2>1, Zenon DEF JoinOf
<1>6. c \in Seq(X) /\ Joins(c, b, uidparts) /\ Len(c) = Len(b) + Len(uidparts) /\ Len(uidparts) \in Nat
    <2>1. JoinOf(X, c, b, uidparts)
        BY <1>0, <1>5, JoinedParts
    <2>2. QED BY <2>1, Zenon DEF JoinOf
<1>7. /\ before \in Seq(X) /\ Joins(before, c, SigsAndTimes)
      /\ Len(before) = Len(c) + Len(SigsAndTimes) /\ Len(SigsAndTimes) \in Nat
    <2>1. JoinOf(X, before, c, SigsAndTimes)
        BY <1>3, <1>6, JoinedParts
    <2>2. QED BY <2>1, Zenon DEF JoinOf
<1>8. all \in Seq(X) /\ Joins(all, before, tail) /\ Len(all) = Len(before) + Len(tail)
    <2>1. JoinOf(X, all, before, tail)
        BY <1>3, <1>7, JoinedParts
    <2>2. QED BY <2>1, Zenon DEF JoinOf
<1>9. PICK n, na, nb, nc, nd :
        n = Len(infos) /\ na = Len(a) /\ nb = Len(b) /\ nc = Len(c) /\ nd = Len(before)
    OBVIOUS
<1>10. /\ n \in Nat /\ na \in Nat /\ nb \in Nat /\ nc \in Nat /\ nd \in Nat
       /\ na = 8 + n /\ nb >= na /\ nc >= nb /\ nd >= nc
    BY <1>1, <1>4, <1>5, <1>6, <1>7, <1>9
<1>11. ASSUME NEW j \in 1..na PROVE all[j] = a[j]
    <2>1. j \in 1..nb /\ j \in 1..nc /\ j \in 1..nd
        BY <1>10
    <2>2. b[j] = a[j] /\ c[j] = b[j] /\ before[j] = c[j] /\ all[j] = before[j]
        BY <1>5, <1>6, <1>7, <1>8, <1>9, <2>1, Zenon DEF Joins
    <2>3. QED BY <2>2
<1>12. \A j \in 1..nd : all[j] = before[j]
    BY <1>8, <1>9, Zenon DEF Joins
<1>13. all[nd + 1] = F(len, ps) /\ all[nd + 2] = F(20, 0) /\ Len(all) = nd + 2
    <2>1. 1 \in 1..Len(tail) /\ 2 \in 1..Len(tail)
        BY <1>2
    <2>2. all[nd + 1] = tail[1] /\ all[nd + 2] = tail[2]
        BY <1>8, <1>9, <2>1, Zenon DEF Joins
    <2>3. QED BY <1>2, <1>8, <1>9, <2>2, Zenon
<1>14. ASSUME NEW j \in 1..8 PROVE all[j] = f20[j]
    <2>1. j \in 1..na
        BY <1>10
    <2>2. a[j] = f20[j]
        BY <1>1, <1>4, Zenon DEF Joins
    <2>3. QED BY <1>11, <2>1, <2>2, Zenon
<1>15. ASSUME NEW j \in 1..n PROVE all[8 + j] = infos[j]
    <2>1. 8 + j \in 1..na
        BY <1>10
    <2>2. a[8 + j] = infos[j]
        BY <1>1, <1>4, <1>9, Zenon DEF Joins
    <2>3. QED BY <1>11, <2>1, <2>2, Zenon
<1>16. nd >= 8 + n
    BY <1>10
<1>17. QED BY <1>7, <1>8, <1>9, <1>10, <1>12, <1>13, <1>14, <1>15, <1>16, Zenon DEF f20, PartsAt

\* The fields of four sizes after a place end where they should.
FourAt(fs, i, s) ==
    /\ i \in Nat /\ i + 4 <= Len(fs) /\ s \in Nat
    /\ fs[i + 1].size = s /\ fs[i + 2].size = 4 /\ fs[i + 3].size = 2 /\ fs[i + 4].size = 2

FourOn(u, i, s) == u[i + 4] = u[i] + s + 8 /\ u[i] \in Nat /\ u[i + 4] \in Nat

LEMMA FourFields ==
    ASSUME NEW X, NEW fs \in Seq(X), NEW u, Run(u, fs), NEW i, NEW s, FourAt(fs, i, s)
    PROVE  FourOn(u, i, s)
<1>0. /\ i \in Nat /\ i + 4 <= Len(fs) /\ s \in Nat
      /\ fs[i + 1].size = s /\ fs[i + 2].size = 4 /\ fs[i + 3].size = 2 /\ fs[i + 4].size = 2
    BY Zenon DEF FourAt
<1>1. Len(fs) \in Nat
    BY LenProperties
<1>2. \A j \in 1..Len(fs) : u[j - 1] \in Nat /\ u[j] \in Nat /\ u[j] = u[j - 1] + fs[j].size
    BY Zenon DEF Run
<1>3. i + 1 \in 1..Len(fs) /\ i + 2 \in 1..Len(fs) /\ i + 3 \in 1..Len(fs) /\ i + 4 \in 1..Len(fs)
      /\ (i + 1) - 1 = i /\ (i + 2) - 1 = i + 1 /\ (i + 3) - 1 = i + 2 /\ (i + 4) - 1 = i + 3
    BY <1>0, <1>1
<1>4. PICK a, b, c, d, e : a = u[i] /\ b = u[i + 1] /\ c = u[i + 2] /\ d = u[i + 3] /\ e = u[i + 4]
    OBVIOUS
<1>5. a \in Nat /\ b \in Nat /\ b = a + s
    BY <1>0, <1>2, <1>3, <1>4, Zenon
<1>6. c = b + 4 /\ c \in Nat
    BY <1>0, <1>2, <1>3, <1>4, Zenon
<1>7. d = c + 2 /\ d \in Nat
    BY <1>0, <1>2, <1>3, <1>4, Zenon
<1>8. e = d + 2 /\ e \in Nat
    BY <1>0, <1>2, <1>3, <1>4, Zenon
<1>9. e = a + s + 8
    BY <1>0, <1>5, <1>6, <1>7, <1>8
<1>10. QED BY <1>4, <1>5, <1>8, <1>9, Zenon DEF FourOn

\* The fingerprints have the room the blob names.
InfosIn(fs, u, ss, n, fprs, fprSize) ==
    /\ Run(u, fs) /\ u[8] = 20 /\ Places(n, ss) /\ Len(ss) \in Nat
    /\ \A k \in 1..Len(ss) : ss[k] = KeyInfo(fprs[k], fprSize)
    /\ 8 + n[Len(ss)] <= Len(fs)
    /\ \A j \in 1..n[Len(ss)] : fs[8 + j] = FlattenSeq(ss)[j]

HasRoom(u, n, ss) == u[8 + n[Len(ss)]] >= 20 + 28 * Len(ss)

LEMMA InfosRoom ==
    ASSUME NEW X, NEW fs \in Seq(X), NEW u, NEW ss, NEW n, NEW fprSize \in {20, 32}, NEW fprs,
           InfosIn(fs, u, ss, n, fprs, fprSize)
    PROVE  HasRoom(u, n, ss)
<1>00. /\ Run(u, fs) /\ u[8] = 20 /\ Places(n, ss) /\ Len(ss) \in Nat
       /\ \A k \in 1..Len(ss) : ss[k] = KeyInfo(fprs[k], fprSize)
       /\ 8 + n[Len(ss)] <= Len(fs)
       /\ \A j \in 1..n[Len(ss)] : fs[8 + j] = FlattenSeq(ss)[j]
    BY Zenon DEF InfosIn
<1> DEFINE N == Len(ss)
           P == {m \in Nat : m <= N => u[8 + n[m]] \in Nat /\ u[8 + n[m]] >= 20 + 28 * m}
<1>0. n[0] = 0 /\ Len(fs) \in Nat /\ fprSize \in Nat /\ fprSize >= 20
    <2>1. n[0] = 0
        BY <1>00, Zenon DEF Places
    <2>2. QED BY <2>1, LenProperties
<1>1. 0 \in P
    <2>1. 8 + n[0] = 8
        BY <1>0
    <2>2. QED BY <1>00, <2>1
<1>2. ASSUME NEW m \in Nat, m \in P PROVE m + 1 \in P
    <2> SUFFICES ASSUME m + 1 <= N
                 PROVE  u[8 + n[m + 1]] \in Nat /\ u[8 + n[m + 1]] >= 20 + 28 * (m + 1)
        OBVIOUS
    <2>1. PICK k : k = m + 1
        OBVIOUS
    <2>2. k \in 1..N /\ k - 1 = m /\ m \in 0..N /\ k \in 0..N /\ N \in 0..N
        BY <1>00, <2>1
    <2>3. PICK i : i = 8 + n[m]
        OBVIOUS
    <2>4. ss[k] = KeyInfo(fprs[k], fprSize)
        BY <1>00, <2>2
    <2>5. Len(ss[k]) = 4 /\ ss[k][1].size = fprSize /\ ss[k][2].size = 4 /\ ss[k][3].size = 2 /\ ss[k][4].size = 2
        BY <2>4 DEF KeyInfo, F
    <2>6. n[k] = n[m] + 4 /\ n[m] \in Nat /\ n[k] \in Nat /\ n[N] \in Nat
        <3>1. n[k] = n[m] + Len(ss[k]) /\ n[m] \in Nat /\ n[k] \in Nat /\ n[N] \in Nat
            BY <1>00, <2>2, Zenon DEF Places
        <3>2. QED BY <2>5, <3>1
    <2>7. ASSUME NEW j \in 1..4
          PROVE  n[m] + j \in 1..n[N] /\ fs[i + j] = ss[k][j]
        <3>1. j \in 1..Len(ss[k])
            BY <2>5
        <3>2. n[m] + j \in 1..n[N] /\ FlattenSeq(ss)[n[m] + j] = ss[k][j]
            BY <1>00, <2>2, <3>1, Zenon DEF Places
        <3>3. 8 + (n[m] + j) = i + j
            BY <2>3, <2>6
        <3>4. QED BY <1>00, <3>2, <3>3, Zenon
    <2>8. i \in Nat /\ i + 4 <= Len(fs) /\ 8 + n[k] = i + 4
        <3>1. n[m] + 4 \in 1..n[N]
            BY <2>7
        <3>2. PICK a, b, c, l : a = n[m] /\ b = n[k] /\ c = n[N] /\ l = Len(fs)
            OBVIOUS
        <3>3. /\ i = 8 + a /\ b = a + 4 /\ a \in Nat /\ c \in Nat /\ a + 4 \in 1..c /\ l \in Nat
              /\ 8 + c <= l
            BY <1>00, <1>0, <2>3, <2>6, <3>1, <3>2, Zenon
        <3>4. i \in Nat /\ i + 4 <= l /\ 8 + b = i + 4
            BY <3>3
        <3>5. QED BY <3>2, <3>4, Zenon
    <2>9. fs[i + 1].size = fprSize /\ fs[i + 2].size = 4 /\ fs[i + 3].size = 2 /\ fs[i + 4].size = 2
        <3>1. 1 \in 1..4 /\ 2 \in 1..4 /\ 3 \in 1..4 /\ 4 \in 1..4
            OBVIOUS
        <3>2. QED BY <2>5, <2>7, <3>1, Zenon
    <2>10. u[i + 4] = u[i] + fprSize + 8 /\ u[i] \in Nat /\ u[i + 4] \in Nat
        <3>1. FourAt(fs, i, fprSize)
            BY <1>0, <2>8, <2>9, Zenon DEF FourAt
        <3>2. FourOn(u, i, fprSize)
            BY <1>00, <3>1, FourFields
        <3>3. QED BY <3>2, Zenon DEF FourOn
    <2>11. u[i] >= 20 + 28 * m
        BY <1>2, <2>2, <2>3
    <2>12. PICK x, y : x = u[i] /\ y = u[i + 4]
        OBVIOUS
    <2>13. x \in Nat /\ y \in Nat /\ x >= 20 + 28 * m /\ y = x + fprSize + 8
        BY <2>10, <2>11, <2>12, Zenon
    <2>14. y >= 20 + 28 * k
        BY <1>0, <2>1, <2>13
    <2>15. QED BY <2>1, <2>8, <2>12, <2>13, <2>14, Zenon
<1> HIDE DEF P
<1>3. N \in P
    BY <1>00, <1>1, <1>2, NatSetInduction
<1>4. QED BY <1>00, <1>3 DEF P, HasRoom

\* The deferred writes: the first three fields they are for, and none among the other first ones.
FixesFor(fx, total, kbstart, len) ==
    /\ Fix(0, total) \in fx /\ Fix(8, kbstart) \in fx /\ Fix(12, len) \in fx
    /\ \A x \in fx : \/ x.offset = 0 /\ x.value = total
                     \/ x.offset = 8 /\ x.value = kbstart
                     \/ x.offset = 12 /\ x.value = len
                     \/ x.offset \in Nat /\ x.offset >= 20

FixesAt(fx, o, v) == Fix(o, v) \in fx /\ \A y \in fx : y.offset = o => y.value = v

LEMMA NotFixedUp ==
    ASSUME NEW o, o = 0 \/ o = 8 \/ o = 12 \/ (o \in Nat /\ o >= 20)
    PROVE  o # 4 /\ o # 5 /\ o # 16 /\ o # 18
    OBVIOUS

\* The first fields of a blob after the deferred writes; the last two are the keyblock and the checksum.
LEMMA FixedIsRaw ==
    ASSUME NEW X, Sized(X), NEW all \in Seq(X), NEW u, u = Ends(all), NEW nk \in Nat \ {0},
           NEW total, total = u[Len(all)], NEW b \in Nat, Len(all) = b + 2, b > 8,
           \A j \in 1..8 : all[j] = Fixed20(nk)[j],
           NEW kbstart, kbstart = u[b], NEW len \in Nat, total = kbstart + len + 20,
           20 + 28 * nk <= total,
           NEW fx, FixesFor(fx, total, kbstart, len)
    PROVE  IsRaw(Fixed(Laid(all).fields, fx), u)
<1> DEFINE file == Laid(all).fields
<1>1. PICK raw : raw = Fixed(file, fx)
    OBVIOUS
<1>2. /\ Spaced(file, u) /\ Len(file) = Len(all)
      /\ \A j \in 1..Len(all) : file[j].val = all[j].val
    BY LaidSpaced, Zenon
<1> HIDE DEF file
<1>3. /\ Spaced(raw, u) /\ Len(raw) = Len(file)
      /\ \A j \in 1..Len(file) :
            /\ (\A x \in fx : x.offset # u[j - 1]) => raw[j].val = file[j].val
            /\ \A x \in fx : x.offset = u[j - 1]
                              /\ (\A y \in fx : y.offset = u[j - 1] => y.value = x.value)
                             => raw[j].val = x.value
    <2>1. FixedOf(file, u, fx, raw)
        BY <1>1, <1>2, FixedFields
    <2>2. QED BY <2>1, Zenon DEF FixedOf
<1>4. Len(raw) = Len(all) /\ Len(raw) \in Nat /\ Len(raw) > 10
    BY <1>2, <1>3
<1>5. /\ all[1] = F(4, 0) /\ all[2] = F(1, OpenPGP) /\ all[3] = F(1, 1) /\ all[4] = F(2, 0)
      /\ all[5] = F(4, 0) /\ all[6] = F(4, 0) /\ all[7] = F(2, nk) /\ all[8] = F(2, 28)
    <2>1. /\ Fixed20(nk)[1] = F(4, 0) /\ Fixed20(nk)[2] = F(1, OpenPGP) /\ Fixed20(nk)[3] = F(1, 1)
          /\ Fixed20(nk)[4] = F(2, 0) /\ Fixed20(nk)[5] = F(4, 0) /\ Fixed20(nk)[6] = F(4, 0)
          /\ Fixed20(nk)[7] = F(2, nk) /\ Fixed20(nk)[8] = F(2, 28)
        BY DEF Fixed20
    <2>2. \A j \in 1..8 : all[j] = Fixed20(nk)[j]
        OBVIOUS
    <2>3. QED BY <2>1, <2>2
<1>6. BeginsSo(u)
    <2>1. \A j \in 1..8 : all[j].size = Fixed20(0)[j].size
        <3>1. \A j \in 1..8 : Fixed20(nk)[j].size = Fixed20(0)[j].size
            BY DEF Fixed20, F
        <3>2. QED BY <3>1, Zenon
    <2>2. Len(all) >= 8
        OBVIOUS
    <2>3. QED BY <2>1, <2>2, BeginningEnds, Zenon
<1>7. /\ u[0] = 0 /\ u[1] = 4 /\ u[2] = 5 /\ u[3] = 6 /\ u[4] = 8
      /\ u[5] = 12 /\ u[6] = 16 /\ u[7] = 18 /\ u[8] = 20
    BY <1>6, Zenon DEF BeginsSo
<1>8. \A j \in 1..8 : j \in 1..Len(file) /\ j \in 1..Len(raw) /\ j \in 1..Len(all)
    BY <1>2, <1>4
<1>9. /\ Fix(0, total) \in fx /\ Fix(8, kbstart) \in fx /\ Fix(12, len) \in fx
      /\ \A x \in fx : \/ x.offset = 0 /\ x.value = total
                       \/ x.offset = 8 /\ x.value = kbstart
                       \/ x.offset = 12 /\ x.value = len
                       \/ x.offset \in Nat /\ x.offset >= 20
    BY Zenon DEF FixesFor
<1>35. ASSUME NEW y \in fx
       PROVE  /\ y.offset = 0 => y.value = total
              /\ y.offset = 8 => y.value = kbstart
              /\ y.offset = 12 => y.value = len
    <2>1. PICK o, v : o = y.offset /\ v = y.value
        OBVIOUS
    <2>2. \/ o = 0 /\ v = total
          \/ o = 8 /\ v = kbstart
          \/ o = 12 /\ v = len
          \/ o \in Nat /\ o >= 20
        BY <1>9, <2>1, Zenon
    <2>3. /\ o = 0 => v = total
          /\ o = 8 => v = kbstart
          /\ o = 12 => v = len
        BY <2>2
    <2>4. QED BY <2>1, <2>3, Zenon
<1>10. \A o, v : Fix(o, v).offset = o /\ Fix(o, v).value = v
    BY DEF Fix
<1>30. ASSUME NEW j \in 1..Len(file), NEW v, FixesAt(fx, u[j - 1], v)
      PROVE  raw[j].val = v
    <2>0. PICK o : o = u[j - 1]
        OBVIOUS
    <2>00. Fix(o, v) \in fx /\ \A y \in fx : y.offset = o => y.value = v
        BY <1>30, <2>0, Zenon DEF FixesAt
    <2>1. PICK x : x = Fix(o, v)
        OBVIOUS
    <2>2. x \in fx /\ x.offset = o /\ x.value = v
        BY <1>10, <2>00, <2>1, Zenon
    <2>3. \A y \in fx : y.offset = u[j - 1] => y.value = x.value
        BY <2>0, <2>00, <2>2, Zenon
    <2>4. raw[j].val = x.value
        <3>1. x.offset = u[j - 1] /\ j \in 1..Len(file) /\ x \in fx
            BY <2>0, <2>00, <2>2, Zenon
        <3>2. QED BY <1>3, <2>3, <3>1
    <2>5. QED BY <2>2, <2>4, Zenon
<1>31. ASSUME NEW j \in 1..Len(file), NEW o, o = u[j - 1], \A x \in fx : x.offset # o
      PROVE  raw[j].val = all[j].val
    BY <1>2, <1>3, <1>31, Zenon
<1>11. raw[1].val = total
    <2>1. ASSUME NEW y \in fx, y.offset = 0 PROVE y.value = total
        BY <1>35, <2>1
    <2>2. PICK j \in 1..Len(file) : j = 1
        BY <1>8
    <2>3. PICK o, v : o = 0 /\ v = total
        OBVIOUS
    <2>4. o = u[j - 1] /\ Fix(o, v) \in fx /\ \A y \in fx : y.offset = o => y.value = v
        <3>1. o = u[j - 1]
            <4>1. j - 1 = 0
                BY <2>2
            <4>2. QED BY <1>7, <2>3, <4>1, Zenon
        <3>2. QED BY <1>9, <2>1, <2>3, <3>1, Zenon
    <2>5. raw[j].val = v
        <3>1. FixesAt(fx, u[j - 1], v)
            BY <2>4, Zenon DEF FixesAt
        <3>2. QED BY <1>30, <3>1
    <2>6. QED BY <2>2, <2>3, <2>5, Zenon
<1>12. raw[5].val = kbstart
    <2>1. ASSUME NEW y \in fx, y.offset = 8 PROVE y.value = kbstart
        BY <1>35, <2>1
    <2>2. PICK j \in 1..Len(file) : j = 5
        BY <1>8
    <2>3. PICK o, v : o = 8 /\ v = kbstart
        OBVIOUS
    <2>4. o = u[j - 1] /\ Fix(o, v) \in fx /\ \A y \in fx : y.offset = o => y.value = v
        <3>1. o = u[j - 1]
            <4>1. j - 1 = 4
                BY <2>2
            <4>2. QED BY <1>7, <2>3, <4>1, Zenon
        <3>2. QED BY <1>9, <2>1, <2>3, <3>1, Zenon
    <2>5. raw[j].val = v
        <3>1. FixesAt(fx, u[j - 1], v)
            BY <2>4, Zenon DEF FixesAt
        <3>2. QED BY <1>30, <3>1
    <2>6. QED BY <2>2, <2>3, <2>5, Zenon
<1>13. raw[6].val = len
    <2>1. ASSUME NEW y \in fx, y.offset = 12 PROVE y.value = len
        BY <1>35, <2>1
    <2>2. PICK j \in 1..Len(file) : j = 6
        BY <1>8
    <2>3. PICK o, v : o = 12 /\ v = len
        OBVIOUS
    <2>4. o = u[j - 1] /\ Fix(o, v) \in fx /\ \A y \in fx : y.offset = o => y.value = v
        <3>1. o = u[j - 1]
            <4>1. j - 1 = 5
                BY <2>2
            <4>2. QED BY <1>7, <2>3, <4>1, Zenon
        <3>2. QED BY <1>9, <2>1, <2>3, <3>1, Zenon
    <2>5. raw[j].val = v
        <3>1. FixesAt(fx, u[j - 1], v)
            BY <2>4, Zenon DEF FixesAt
        <3>2. QED BY <1>30, <3>1
    <2>6. QED BY <2>2, <2>3, <2>5, Zenon
<1>32. ASSUME NEW x \in fx PROVE x.offset # 4 /\ x.offset # 5 /\ x.offset # 16 /\ x.offset # 18
    <2>1. PICK o : o = x.offset
        OBVIOUS
    <2>2. o = 0 \/ o = 8 \/ o = 12 \/ (o \in Nat /\ o >= 20)
        BY <1>9, <2>1, Zenon
    <2>3. o # 4 /\ o # 5 /\ o # 16 /\ o # 18
        BY <2>2, NotFixedUp
    <2>4. QED BY <2>1, <2>3, Zenon
<1>14. raw[2].val = OpenPGP
    <2>1. PICK j \in 1..Len(file) : j = 2
        BY <1>8
    <2>2. 4 = u[j - 1]
        BY <1>7, <2>1
    <2>3. raw[2].val = all[2].val
        BY <1>31, <1>32, <2>1, <2>2, Zenon
    <2>4. F(1, OpenPGP).val = OpenPGP
        BY DEF F
    <2>5. QED BY <1>5, <2>3, <2>4, Zenon
<1>33. raw[7].val = nk
    <2>1. PICK j \in 1..Len(file) : j = 7
        BY <1>8
    <2>2. 16 = u[j - 1]
        BY <1>7, <2>1
    <2>3. raw[7].val = all[7].val
        BY <1>31, <1>32, <2>1, <2>2, Zenon
    <2>4. F(2, nk).val = nk
        BY DEF F
    <2>5. QED BY <1>5, <2>3, <2>4, Zenon
<1>34. raw[8].val = 28
    <2>1. PICK j \in 1..Len(file) : j = 8
        BY <1>8
    <2>2. 18 = u[j - 1]
        BY <1>7, <2>1
    <2>3. raw[8].val = all[8].val
        BY <1>31, <1>32, <2>1, <2>2, Zenon
    <2>4. F(2, 28).val = 28
        BY DEF F
    <2>5. QED BY <1>5, <2>3, <2>4, Zenon
<1>15. u[Len(raw)] = total
    BY <1>4, Zenon
<1>16. total \in Nat /\ kbstart \in Nat
    <2>1. b \in 0..Len(raw) /\ Len(raw) \in 0..Len(raw)
        BY <1>4
    <2>2. QED BY <1>3, <1>15, <2>1, Zenon DEF Spaced
<1>37. ASSUME NEW j, NEW o, NEW size, FieldAt(raw, u, j, o, size)
       PROVE  At(raw, total, o, size) = raw[j].val
    <2>1. At(raw, u[Len(raw)], o, size) = raw[j].val
        BY <1>3, <1>37, ReadField
    <2>2. QED BY <1>15, <2>1, Zenon
<1>36. ~(total < 20) /\ ~(kbstart + len > total) /\ ~(20 + nk * 28 > total)
    <2>1. \A x, y, z \in Nat : x = y + z + 20 => ~(x < 20) /\ ~(y + z > x)
        OBVIOUS
    <2>2. \A w, x \in Nat : 20 + 28 * w <= x => ~(20 + w * 28 > x)
        OBVIOUS
    <2>3. nk \in Nat
        OBVIOUS
    <2>4. ~(total < 20) /\ ~(kbstart + len > total)
        BY <1>16, <2>1, Zenon
    <2>5. QED BY <1>16, <2>2, <2>3, <2>4, Zenon
<1>17. ~Malformed(raw, total)
    <2>1. At(raw, total, 8, 4) = kbstart
        <3>1. PICK j : j = 5
            OBVIOUS
        <3>2. PICK o, size : o = 8 /\ size = 4
            OBVIOUS
        <3>3. j \in 1..Len(raw) /\ o = u[j - 1] /\ size = u[j] - u[j - 1]
            BY <1>7, <1>8, <3>1, <3>2
        <3>4. FieldAt(raw, u, j, o, size)
            BY <3>3, Zenon DEF FieldAt
        <3>5. At(raw, total, o, size) = raw[j].val
            BY <1>37, <3>4
        <3>6. QED BY <1>12, <3>1, <3>2, <3>5, Zenon
    <2>2. At(raw, total, 12, 4) = len
        <3>1. PICK j : j = 6
            OBVIOUS
        <3>2. PICK o, size : o = 12 /\ size = 4
            OBVIOUS
        <3>3. j \in 1..Len(raw) /\ o = u[j - 1] /\ size = u[j] - u[j - 1]
            BY <1>7, <1>8, <3>1, <3>2
        <3>4. FieldAt(raw, u, j, o, size)
            BY <3>3, Zenon DEF FieldAt
        <3>5. At(raw, total, o, size) = raw[j].val
            BY <1>37, <3>4
        <3>6. QED BY <1>13, <3>1, <3>2, <3>5, Zenon
    <2>3. At(raw, total, 16, 2) = nk
        <3>1. PICK j : j = 7
            OBVIOUS
        <3>2. PICK o, size : o = 16 /\ size = 2
            OBVIOUS
        <3>3. j \in 1..Len(raw) /\ o = u[j - 1] /\ size = u[j] - u[j - 1]
            BY <1>7, <1>8, <3>1, <3>2
        <3>4. FieldAt(raw, u, j, o, size)
            BY <3>3, Zenon DEF FieldAt
        <3>5. At(raw, total, o, size) = raw[j].val
            BY <1>37, <3>4
        <3>6. QED BY <1>33, <3>1, <3>2, <3>5, Zenon
    <2>4. At(raw, total, 18, 2) = 28
        <3>1. PICK j : j = 8
            OBVIOUS
        <3>2. PICK o, size : o = 18 /\ size = 2
            OBVIOUS
        <3>3. j \in 1..Len(raw) /\ o = u[j - 1] /\ size = u[j] - u[j - 1]
            BY <1>7, <1>8, <3>1, <3>2
        <3>4. FieldAt(raw, u, j, o, size)
            BY <3>3, Zenon DEF FieldAt
        <3>5. At(raw, total, o, size) = raw[j].val
            BY <1>37, <3>4
        <3>6. QED BY <1>34, <3>1, <3>2, <3>5, Zenon
    <2>5. QED BY <1>36, <2>1, <2>2, <2>3, <2>4, Zenon DEF Malformed
<1>18. total > 5
    <2>1. \A x \in Nat : ~(x < 20) => x > 5
        OBVIOUS
    <2>2. QED BY <1>16, <1>36, <2>1, Zenon
<1>19. IsRaw(raw, u)
    BY <1>3, <1>4, <1>7, <1>11, <1>15, <1>17, <1>18 DEF IsRaw
<1>20. QED BY <1>1, <1>19, Zenon DEF file

LEMMA AroundIsRaw ==
    ASSUME NEW S, NEW ps, Only(ps, {UserID}) \in Seq(S),
           NEW fprs, Len(fprs) \in Nat \ {0}, DOMAIN fprs = 1..Len(fprs),
           NEW fprSize \in {20, 32}, NEW len \in Nat \ {0}
    PROVE  \E u : IsRaw(BlobAround(len, ps, fprs, fprSize), u)
<1> DEFINE uids == Only(ps, {UserID})
           nk == Len(fprs)
           nu == Len(uids)
           V == {0, 1, 2, 4, 12, 28, OpenPGP, nk, nu, ps} \cup {fprs[k] : k \in 1..nk}
                  \cup {uids[k].n : k \in 1..nu}
           X == {F(s, v) : s \in Nat \ {0}, v \in V}
           infoSeq(n) == [k \in 1 .. n |-> KeyInfo(fprs[k], fprSize)]
           uidSeq(n) == [k \in 1 .. n |-> UidInfo(uids[k])]
           heads == Fixed20(nk) \o FlattenSeq(infoSeq(nk)) \o <<F(2, 0), F(2, nu), F(2, 12)>>
           before == heads \o FlattenSeq(uidSeq(nu)) \o SigsAndTimes
           all == before \o <<F(len, ps), F(20, 0)>>
           kbstart == Bytesize(before)
           offKid(k) == Bytesize(Fixed20(0) \o FlattenSeq(infoSeq(k - 1))) + fprSize
           uidAddr(k) == Bytesize(heads \o FlattenSeq(uidSeq(k - 1)))
           fx == {Fix(0, Bytesize(all)), Fix(8, kbstart), Fix(12, len)}
                   \cup {Fix(offKid(k), offKid(k) - 8) : k \in DOMAIN fprs}
                   \cup {Fix(uidAddr(k), kbstart + uids[k].off + uids[k].hdr) : k \in DOMAIN uids}
<1>1. BlobAround(len, ps, fprs, fprSize) = Fixed(Laid(all).fields, fx)
    BY Zenon DEF BlobAround
<1>2. nu \in Nat /\ DOMAIN uids = 1..nu
    BY LenProperties
<1>17. nk \in Nat \ {0} /\ DOMAIN fprs = 1..nk
    OBVIOUS
<1> HIDE DEF uids, nk
<1>3. Sized(X) /\ \A s \in Nat \ {0}, v \in V : F(s, v) \in X
    <2>1. \A s, v : F(s, v).size = s
        BY DEF F
    <2> HIDE DEF V
    <2>2. QED BY <2>1 DEF Sized
<1>4. /\ 0 \in V /\ 1 \in V /\ 2 \in V /\ 4 \in V /\ 12 \in V /\ 28 \in V /\ OpenPGP \in V
      /\ nk \in V /\ nu \in V /\ ps \in V
      /\ (\A k \in 1..nk : fprs[k] \in V) /\ (\A k \in 1..nu : uids[k].n \in V)
    <2> HIDE DEF nu
    <2>1. QED OBVIOUS
<1> HIDE DEF X, V
<1>18. /\ 1 \in Nat \ {0} /\ 2 \in Nat \ {0} /\ 4 \in Nat \ {0} /\ 20 \in Nat \ {0}
       /\ fprSize \in Nat \ {0}
    OBVIOUS
<1>5. Fixed20(nk) \in Seq(X) /\ Fixed20(0) \in Seq(X) /\ Len(Fixed20(0)) = 8 /\ Len(Fixed20(nk)) = 8
    <2> HIDE DEF nu
    <2>1. /\ F(4, 0) \in X /\ F(1, OpenPGP) \in X /\ F(1, 1) \in X /\ F(2, 0) \in X /\ F(2, nk) \in X
          /\ F(2, 28) \in X
        BY <1>3, <1>4
    <2>2. QED BY <2>1 DEF Fixed20
<1>6. \A k \in 1..nk : KeyInfo(fprs[k], fprSize) \in Seq(X)
    <2> SUFFICES ASSUME NEW k \in 1..nk PROVE KeyInfo(fprs[k], fprSize) \in Seq(X)
        OBVIOUS
    <2> HIDE DEF nu
    <2>2. F(fprSize, fprs[k]) \in X /\ F(4, 0) \in X /\ F(2, 0) \in X
        BY <1>3, <1>4, <1>18, Zenon
    <2>3. QED BY <2>2 DEF KeyInfo
<1>7. \A k \in 1..nu : UidInfo(uids[k]) \in Seq(X)
    <2> SUFFICES ASSUME NEW k \in 1..nu PROVE UidInfo(uids[k]) \in Seq(X)
        OBVIOUS
    <2> HIDE DEF nu
    <2>1. F(4, 0) \in X /\ F(4, uids[k].n) \in X /\ F(2, 0) \in X /\ F(1, 0) \in X
        BY <1>3, <1>4, <1>18, Zenon
    <2>2. QED BY <2>1 DEF UidInfo
<1>8. /\ SigsAndTimes \in Seq(X) /\ <<F(2, 0), F(2, nu), F(2, 12)>> \in Seq(X)
      /\ <<F(len, ps), F(20, 0)>> \in Seq(X)
    <2> HIDE DEF nu
    <2>1. /\ F(2, 0) \in X /\ F(2, 4) \in X /\ F(1, 0) \in X /\ F(4, 0) \in X /\ F(2, nu) \in X
          /\ F(2, 12) \in X /\ F(len, ps) \in X /\ F(20, 0) \in X
        BY <1>3, <1>4
    <2>2. QED BY <2>1 DEF SigsAndTimes
<1> HIDE DEF nu
<1>9. ASSUME NEW n \in Nat, n <= nk
      PROVE  /\ infoSeq(n) \in Seq(Seq(X)) /\ Len(infoSeq(n)) = n
             /\ FlattenSeq(infoSeq(n)) \in Seq(X)
    <2>1. \A k \in 1..n : k \in 1..nk
        BY <1>9, <1>17
    <2> DEFINE f == [k \in 1..n |-> KeyInfo(fprs[k], fprSize)]
    <2>2. \A k \in 1..n : f[k] \in Seq(X)
        BY <1>6, <2>1
    <2>3. f = [k \in 1..n |-> f[k]]
        OBVIOUS
    <2>4. f = infoSeq(n)
        OBVIOUS
    <2> HIDE DEF f, infoSeq
    <2>5. f \in Seq(Seq(X)) /\ Len(f) = n /\ FlattenSeq(f) \in Seq(X)
        <3>1. PICK g : g = f
            OBVIOUS
        <3>2. g = [k \in 1..n |-> g[k]] /\ \A k \in 1..n : g[k] \in Seq(X)
            BY <2>2, <2>3, <3>1, Zenon
        <3>3. g \in Seq(Seq(X)) /\ Len(g) = n /\ FlattenSeq(g) \in Seq(X)
            BY <3>2, Chunks
        <3>4. QED BY <3>1, <3>3, Zenon
    <2>6. QED BY <2>4, <2>5, Zenon
<1>10. ASSUME NEW n \in Nat, n <= nu PROVE FlattenSeq(uidSeq(n)) \in Seq(X)
    <2>1. \A k \in 1..n : k \in 1..nu
        BY <1>2, <1>10
    <2> DEFINE f == [k \in 1..n |-> UidInfo(uids[k])]
    <2>2. \A k \in 1..n : f[k] \in Seq(X)
        BY <1>7, <2>1
    <2>3. f = [k \in 1..n |-> f[k]]
        OBVIOUS
    <2>4. f = uidSeq(n)
        OBVIOUS
    <2> HIDE DEF f, uidSeq
    <2>5. f \in Seq(Seq(X)) /\ Len(f) = n /\ FlattenSeq(f) \in Seq(X)
        <3>1. PICK g : g = f
            OBVIOUS
        <3>2. g = [k \in 1..n |-> g[k]] /\ \A k \in 1..n : g[k] \in Seq(X)
            BY <2>2, <2>3, <3>1, Zenon
        <3>3. g \in Seq(Seq(X)) /\ Len(g) = n /\ FlattenSeq(g) \in Seq(X)
            BY <3>2, Chunks
        <3>4. QED BY <3>1, <3>3, Zenon
    <2>6. QED BY <2>4, <2>5, Zenon
<1>11. PICK infos, u2, uidparts :
         infos = FlattenSeq(infoSeq(nk)) /\ u2 = <<F(2, 0), F(2, nu), F(2, 12)>>
         /\ uidparts = FlattenSeq(uidSeq(nu))
    OBVIOUS
<1>12. infos \in Seq(X) /\ u2 \in Seq(X) /\ uidparts \in Seq(X)
    <2>1. nk \in Nat /\ nk <= nk /\ nu <= nu
        BY <1>2, <1>17
    <2> HIDE DEF infoSeq, uidSeq
    <2>2. QED BY <1>2, <1>8, <1>9, <1>10, <1>11, <2>1, Zenon
<1>13. PartsOf(nk, infos, u2, uidparts, len, ps, before, all)
    BY <1>11, Zenon DEF PartsOf
<1>14. PICK bf, al, b, n : /\ bf = before /\ al = all /\ b = Len(before) /\ n = Len(infos)
    OBVIOUS
<1>15. /\ bf \in Seq(X) /\ al \in Seq(X) /\ b \in Nat /\ n \in Nat /\ b = Len(bf)
       /\ b >= 8 + n /\ Len(al) = b + 2
       /\ (\A j \in 1..b : al[j] = bf[j])
       /\ al[b + 1] = F(len, ps) /\ al[b + 2] = F(20, 0)
       /\ (\A j \in 1..8 : al[j] = Fixed20(nk)[j])
       /\ \A j \in 1..n : al[8 + j] = infos[j]
    <2> HIDE DEF before, all
    <2>1. PartsOf(nk, infos, u2, uidparts, len, ps, bf, al)
        BY <1>13, <1>14, Zenon
    <2>2. PartsAt(X, nk, infos, len, ps, bf, al)
        BY <1>5, <1>8, <1>12, <2>1, PartsPlaced
    <2>3. QED BY <1>14, <2>2, Zenon DEF PartsAt
<1>19. PICK u : u = Ends(al)
    OBVIOUS
<1>20. /\ Run(u, al) /\ Bytesize(al) = u[b + 2]
       /\ (\A j \in 0..(b + 2) : u[j] \in Nat)
       /\ \A j, k \in 0..(b + 2) : j < k => u[j] < u[k]
    <2>1. Run(u, al) /\ Bytesize(al) = u[Len(al)]
        BY <1>3, <1>15, <1>19, EndsIs, LaidSpaced, Zenon
    <2>2. (\A j \in 0..Len(al) : u[j] \in Nat) /\ \A j, k \in 0..Len(al) : j < k => u[j] < u[k]
        BY <1>3, <1>15, <2>1, RunGrows
    <2>3. QED BY <1>15, <2>1, <2>2, Zenon
<1>21. Bytesize(bf) = u[b]
    <2>1. Run(Ends(bf), bf) /\ Bytesize(bf) = Ends(bf)[b]
        BY <1>3, <1>15, EndsIs, LaidSpaced
    <2>2. b \in 0..Len(al) /\ b \in 0..b /\ Len(al) \in Nat
        BY <1>15
    <2>3. \A j \in 1..b : bf[j].size = al[j].size
        BY <1>15
    <2>4. \A j \in 0..b : Ends(bf)[j] = u[j]
        <3>1. Len(bf) \in 0..Len(al) /\ \A j \in 1..Len(bf) : bf[j].size = al[j].size
            BY <1>15, <2>2, <2>3, Zenon
        <3>2. \A j \in 0..Len(bf) : Ends(bf)[j] = u[j]
            BY <1>20, <2>1, <2>2, <3>1, SameEnds
        <3>3. QED BY <1>15, <3>2, Zenon
    <2>5. QED BY <2>1, <2>2, <2>4, Zenon
<1>22. PICK kb, total : kb = u[b] /\ total = u[b + 2]
    OBVIOUS
<1>23. kb \in Nat /\ total \in Nat /\ total = kb + len + 20
    <2>1. \A j \in 1..Len(al) : u[j - 1] \in Nat /\ u[j] \in Nat /\ u[j] = u[j - 1] + al[j].size
        BY <1>20, Zenon DEF Run
    <2>2. PICK i, j : i = b + 1 /\ j = b + 2
        OBVIOUS
    <2>3. i \in 1..Len(al) /\ j \in 1..Len(al) /\ i - 1 = b /\ j - 1 = i
        BY <1>15, <2>2
    <2>4. al[i].size = len /\ al[j].size = 20
        BY <1>15, <2>2 DEF F
    <2>5. u[i] = u[b] + len /\ u[b] \in Nat /\ u[i] \in Nat
        BY <2>1, <2>3, <2>4
    <2>6. u[j] = u[i] + 20 /\ u[j] \in Nat
        BY <2>1, <2>3, <2>4
    <2>7. QED BY <1>22, <2>2, <2>5, <2>6
<1>24. BeginsSo(u)
    <2>1. \A j \in 1..8 : al[j].size = Fixed20(0)[j].size
        <3>1. \A j \in 1..8 : Fixed20(nk)[j].size = Fixed20(0)[j].size
            BY DEF Fixed20, F
        <3>2. QED BY <1>15, <3>1, Zenon
    <2>2. Len(al) >= 8
        BY <1>15
    <2>3. QED BY <1>3, <1>15, <1>19, <2>1, <2>2, BeginningEnds, Zenon
<1>25. u[8] = 20
    BY <1>24, Zenon DEF BeginsSo
<1>26. u[8 + n] >= 20 + 28 * nk
    <2>1. PICK ss : ss = infoSeq(nk)
        OBVIOUS
    <2>2. ss \in Seq(Seq(X)) /\ Len(ss) = nk /\ nk \in Nat
        <3>1. nk \in Nat /\ nk <= nk
            BY <1>17
        <3> HIDE DEF infoSeq
        <3>2. QED BY <1>9, <2>1, <3>1, Zenon
    <2>3. \A k \in 1..Len(ss) : ss[k] = KeyInfo(fprs[k], fprSize)
        BY <2>1, <2>2
    <2> HIDE DEF infoSeq
    <2>4. PICK p : Places(p, ss)
        BY <2>2, FlattenPlaces
    <2>5. n = p[Len(ss)] /\ infos = FlattenSeq(ss)
        BY <1>11, <1>14, <2>1, <2>4, Zenon DEF Places
    <2>6. 8 + p[Len(ss)] <= Len(al) /\ \A j \in 1..p[Len(ss)] : al[8 + j] = FlattenSeq(ss)[j]
        <3>1. 8 + n <= Len(al)
            BY <1>15
        <3>2. QED BY <1>15, <2>5, <3>1, Zenon
    <2>7. InfosIn(al, u, ss, p, fprs, fprSize)
        BY <1>17, <1>20, <1>25, <2>2, <2>3, <2>4, <2>6, Zenon DEF InfosIn
    <2>8. HasRoom(u, p, ss)
        BY <1>15, <2>7, InfosRoom
    <2>9. QED BY <2>2, <2>5, <2>8, Zenon DEF HasRoom
<1>27. b > 8 /\ 20 + 28 * nk <= total
    <2>1. 8 + n \in 0..(b + 2) /\ b \in 0..(b + 2) /\ b + 2 \in 0..(b + 2) /\ 8 + n < b + 2
        BY <1>15
    <2>2. u[8 + n] < total /\ u[8 + n] \in Nat
        BY <1>20, <1>22, <2>1
    <2>3. 20 + 28 * nk > 20 /\ nk \in Nat
        BY <1>17
    <2>4. n # 0
        <3>1. SUFFICES ASSUME n = 0 PROVE FALSE
            OBVIOUS
        <3>2. u[8 + n] = 20
            BY <1>25, <3>1
        <3>3. QED BY <1>17, <1>26, <3>2
    <2>5. b > 8
        BY <1>15, <2>4
    <2>6. 20 + 28 * nk <= total
        BY <1>17, <1>23, <1>26, <2>2
    <2>7. QED BY <2>5, <2>6
<1>28. \A k \in 1..nk : offKid(k) \in Nat /\ offKid(k) >= 20
    <2> SUFFICES ASSUME NEW k \in 1..nk PROVE offKid(k) \in Nat /\ offKid(k) >= 20
        BY Zenon
    <2>1. k - 1 \in Nat /\ k - 1 <= nk
        BY <1>17
    <2>2. FlattenSeq(infoSeq(k - 1)) \in Seq(X)
        <3> HIDE DEF infoSeq
        <3>1. QED BY <1>9, <2>1, Zenon
    <2>3. PICK g, h : g = FlattenSeq(infoSeq(k - 1)) /\ h = Fixed20(0) \o g
        OBVIOUS
    <2>4. JoinOf(X, h, Fixed20(0), g)
        BY <1>5, <2>2, <2>3, JoinedParts, Zenon
    <2>5. h \in Seq(X) /\ Len(h) >= 8 /\ \A j \in 1..8 : h[j] = Fixed20(0)[j]
        <3>1. h \in Seq(X) /\ Joins(h, Fixed20(0), g) /\ Len(g) \in Nat /\ Len(h) = Len(Fixed20(0)) + Len(g)
            BY <2>4, Zenon DEF JoinOf
        <3>2. \A j \in 1..8 : h[j] = Fixed20(0)[j]
            BY <1>5, <3>1, Zenon DEF Joins
        <3>3. Len(h) >= 8
            <4>1. PICK l, k8 : l = Len(g) /\ k8 = Len(Fixed20(0))
                OBVIOUS
            <4>2. l \in Nat /\ k8 = 8 /\ Len(h) = k8 + l
                BY <1>5, <3>1, <4>1, Zenon
            <4>3. QED BY <4>2
        <3>4. QED BY <3>1, <3>2, <3>3, Zenon
    <2>6. \A j \in 1..8 : h[j].size = Fixed20(0)[j].size
        BY <2>5
    <2>7. Bytesize(h) \in Nat /\ Bytesize(h) >= 20
        BY <1>3, <2>5, <2>6, BeginningEnds
    <2>8. offKid(k) = Bytesize(h) + fprSize
        BY <2>3, Zenon
    <2>9. QED BY <1>18, <2>7, <2>8
<1>29. heads \in Seq(X) /\ Len(heads) >= 8 /\ \A j \in 1..8 : heads[j] = Fixed20(nk)[j]
    <2>1. PICK g, h : g = Fixed20(nk) \o infos /\ h = g \o u2
        OBVIOUS
    <2>2. heads = h
        BY <1>11, <2>1, Zenon
    <2>3. JoinOf(X, g, Fixed20(nk), infos)
        BY <1>5, <1>12, <2>1, JoinedParts, Zenon
    <2>4. g \in Seq(X) /\ Joins(g, Fixed20(nk), infos) /\ Len(g) = Len(Fixed20(nk)) + n
        BY <1>14, <2>3, Zenon DEF JoinOf
    <2>5. JoinOf(X, h, g, u2)
        BY <1>12, <2>1, <2>4, JoinedParts, Zenon
    <2>6. h \in Seq(X) /\ Joins(h, g, u2) /\ Len(h) = Len(g) + Len(u2) /\ Len(u2) \in Nat
        BY <2>5, Zenon DEF JoinOf
    <2>7. \A j \in 1..8 : h[j] = Fixed20(nk)[j]
        <3>1. \A j \in 1..8 : j \in 1..Len(g)
            BY <1>5, <1>15, <2>4
        <3>2. QED BY <1>5, <2>4, <2>6, <3>1, Zenon DEF Joins
    <2>8. Len(h) >= 8
        BY <1>5, <1>15, <2>4, <2>6
    <2>9. QED BY <2>2, <2>6, <2>7, <2>8, Zenon
<1>30. \A k \in 1..nu : uidAddr(k) \in Nat /\ uidAddr(k) >= 20
    <2> SUFFICES ASSUME NEW k \in 1..nu PROVE uidAddr(k) \in Nat /\ uidAddr(k) >= 20
        BY Zenon
    <2>1. k - 1 \in Nat /\ k - 1 <= nu
        BY <1>2
    <2>2. FlattenSeq(uidSeq(k - 1)) \in Seq(X)
        <3> HIDE DEF uidSeq
        <3>1. QED BY <1>10, <2>1, Zenon
    <2>3. PICK g, h, hd : g = FlattenSeq(uidSeq(k - 1)) /\ hd = heads /\ h = hd \o g
        OBVIOUS
    <2>4. hd \in Seq(X) /\ Len(hd) >= 8 /\ \A j \in 1..8 : hd[j] = Fixed20(nk)[j]
        <3> HIDE DEF heads
        <3>1. QED BY <1>29, <2>3, Zenon
    <2>5. JoinOf(X, h, hd, g)
        BY <2>2, <2>3, <2>4, JoinedParts, Zenon
    <2>6. h \in Seq(X) /\ Joins(h, hd, g) /\ Len(g) \in Nat /\ Len(h) = Len(hd) + Len(g) /\ Len(hd) \in Nat
        BY <2>5, Zenon DEF JoinOf
    <2>7. \A j \in 1..8 : h[j] = Fixed20(nk)[j]
        <3>1. \A j \in 1..8 : j \in 1..Len(hd)
            BY <2>4, <2>6
        <3>2. QED BY <2>4, <2>6, <3>1, Zenon DEF Joins
    <2>8. \A j \in 1..8 : h[j].size = Fixed20(0)[j].size
        <3>1. \A j \in 1..8 : Fixed20(nk)[j].size = Fixed20(0)[j].size
            BY DEF Fixed20, F
        <3>2. QED BY <2>7, <3>1, Zenon
    <2>9. Len(h) >= 8
        BY <2>4, <2>6
    <2>10. Bytesize(h) \in Nat /\ Bytesize(h) >= 20
        BY <1>3, <2>6, <2>8, <2>9, BeginningEnds
    <2>11. QED BY <2>3, <2>10, Zenon
<1>31. FixesFor(fx, total, kb, len)
    <2>1. Bytesize(all) = total /\ kbstart = kb
        <3> HIDE DEF all, before
        <3>1. QED BY <1>14, <1>20, <1>21, <1>22, Zenon DEF kbstart
    <2> HIDE DEF kbstart, all, before, heads, offKid, uidAddr, infoSeq, uidSeq
    <2>2. \A x, o, v : x = Fix(o, v) => x.offset = o /\ x.value = v
        BY DEF Fix
    <2>3. Fix(0, total) \in fx /\ Fix(8, kb) \in fx /\ Fix(12, len) \in fx
        BY <2>1, Zenon
    <2>4. ASSUME NEW x \in fx
          PROVE  \/ x.offset = 0 /\ x.value = total
                 \/ x.offset = 8 /\ x.value = kb
                 \/ x.offset = 12 /\ x.value = len
                 \/ x.offset \in Nat /\ x.offset >= 20
        <3>1. \/ x = Fix(0, total) \/ x = Fix(8, kb) \/ x = Fix(12, len)
              \/ \E k \in 1..nk : x = Fix(offKid(k), offKid(k) - 8)
              \/ \E k \in 1..nu : x = Fix(uidAddr(k), kbstart + uids[k].off + uids[k].hdr)
            BY <1>2, <1>17, <2>1, <2>4, Zenon
        <3>2. ASSUME \E k \in 1..nk : x = Fix(offKid(k), offKid(k) - 8)
              PROVE  x.offset \in Nat /\ x.offset >= 20
            <4>1. PICK k \in 1..nk : x = Fix(offKid(k), offKid(k) - 8)
                BY <3>2
            <4>2. PICK o, v : o = offKid(k) /\ v = offKid(k) - 8
                OBVIOUS
            <4>3. x = Fix(o, v)
                BY <4>1, <4>2
            <4>4. x.offset = o
                BY <2>2, <4>3
            <4>5. QED BY <1>28, <4>2, <4>4, Zenon
        <3>3. ASSUME \E k \in 1..nu : x = Fix(uidAddr(k), kbstart + uids[k].off + uids[k].hdr)
              PROVE  x.offset \in Nat /\ x.offset >= 20
            <4>1. PICK k \in 1..nu : x = Fix(uidAddr(k), kbstart + uids[k].off + uids[k].hdr)
                BY <3>3
            <4>2. PICK o, v : o = uidAddr(k) /\ v = kbstart + uids[k].off + uids[k].hdr
                OBVIOUS
            <4>3. x = Fix(o, v)
                BY <4>1, <4>2
            <4>4. x.offset = o
                BY <2>2, <4>3
            <4>5. QED BY <1>30, <4>2, <4>4, Zenon
        <3>4. x = Fix(0, total) => x.offset = 0 /\ x.value = total
            BY DEF Fix
        <3>5. x = Fix(8, kb) => x.offset = 8 /\ x.value = kb
            BY DEF Fix
        <3>6. x = Fix(12, len) => x.offset = 12 /\ x.value = len
            BY DEF Fix
        <3>7. QED BY <3>1, <3>2, <3>3, <3>4, <3>5, <3>6, Zenon
    <2> HIDE DEF fx
    <2>5. QED BY <2>3, <2>4, Zenon DEF FixesFor
<1>32. BlobAround(len, ps, fprs, fprSize) = Fixed(Laid(al).fields, fx)
    <2> HIDE DEF all, fx
    <2>1. QED BY <1>1, <1>14, Zenon
<1> HIDE DEF fx
<1>33. PICK fixes : fixes = fx
    OBVIOUS
<1>34. /\ nk \in Nat \ {0} /\ total = u[Len(al)] /\ len \in Nat /\ FixesFor(fixes, total, kb, len)
       /\ Len(al) = b + 2
    BY <1>15, <1>17, <1>22, <1>31, <1>33, Zenon
<1>35. IsRaw(Fixed(Laid(al).fields, fixes), u)
    BY <1>3, <1>15, <1>19, <1>22, <1>23, <1>27, <1>34, FixedIsRaw, Zenon
<1>36. QED BY <1>32, <1>33, <1>35, Zenon

-----------------------------------------------------------------------------
(* The key block that the library writes.                                   *)

\* The packets with some of the tags: a list, and a first one stays the first.
LEMMA OnlyIs ==
    ASSUME NEW S, NEW ps \in Seq(S), NEW tags
    PROVE  /\ Only(ps, tags) \in Seq(S)
           /\ ps # << >> /\ ps[1].tag \in tags
                => Only(ps, tags) # << >> /\ Only(ps, tags)[1] = ps[1]
<1> DEFINE ss == [j \in 1..Len(ps) |-> IF ps[j].tag \in tags THEN << ps[j] >> ELSE << >>]
<1>1. Len(ps) \in Nat /\ DOMAIN ps = 1..Len(ps) /\ \A j \in 1..Len(ps) : ps[j] \in S
    BY LenProperties
<1>2. Only(ps, tags) = FlattenSeq(ss)
    BY <1>1, Zenon DEF Only
<1>3. ss = [j \in 1..Len(ps) |-> ss[j]] /\ \A j \in 1..Len(ps) : ss[j] \in Seq(S)
    <2>1. ASSUME NEW j \in 1..Len(ps)
          PROVE  (IF ps[j].tag \in tags THEN << ps[j] >> ELSE << >>) \in Seq(S)
        <3>1. << ps[j] >> \in Seq(S) /\ << >> \in Seq(S)
            BY <1>1
        <3>2. QED BY <3>1, Zenon
    <2>2. QED BY <2>1, Zenon
<1>4. ps # << >> /\ ps[1].tag \in tags => Len(ps) >= 1 /\ 1 \in 1..Len(ps) /\ ss[1] = << ps[1] >>
    <2>1. ps # << >> => Len(ps) # 0
        BY EmptySeq
    <2>2. Len(ps) # 0 => Len(ps) >= 1 /\ 1 \in 1..Len(ps)
        BY <1>1
    <2>3. QED BY <2>1, <2>2, Zenon
<1> HIDE DEF ss
<1>5. ss \in Seq(Seq(S)) /\ Len(ss) = Len(ps) /\ FlattenSeq(ss) \in Seq(S)
    <2>1. PICK N : N = Len(ps)
        OBVIOUS
    <2>2. PICK gs : gs = ss
        OBVIOUS
    <2>3. N \in Nat /\ gs = [j \in 1..N |-> gs[j]] /\ \A j \in 1..N : gs[j] \in Seq(S)
        BY <1>1, <1>3, <2>1, <2>2, Zenon
    <2>4. gs \in Seq(Seq(S)) /\ Len(gs) = N /\ FlattenSeq(gs) \in Seq(S)
        BY <2>3, Chunks
    <2>5. QED BY <2>1, <2>2, <2>4, Zenon
<1>6. ASSUME ps # << >>, ps[1].tag \in tags
      PROVE  FlattenSeq(ss) # << >> /\ FlattenSeq(ss)[1] = ps[1]
    <2>1. PICK fl : fl = FlattenSeq(ss)
        OBVIOUS
    <2>2. PICK n : Places(n, ss)
        BY <1>5, FlattenPlaces
    <2>3. 1 \in 1..Len(ss) /\ ss[1] = << ps[1] >> /\ 1 - 1 = 0
        BY <1>4, <1>5, <1>6
    <2>4. Len(ss[1]) = 1 /\ ss[1][1] = ps[1] /\ 1 \in 1..Len(ss[1])
        BY <2>3
    <2>5. n[0] = 0 /\ n[0] + 1 \in 1..n[Len(ss)] /\ fl[n[0] + 1] = ps[1] /\ Len(fl) = n[Len(ss)]
        <3>1. PICK q, o : q = 1 /\ o = q - 1
            OBVIOUS
        <3>2. q \in 1..Len(ss) /\ q \in 1..Len(ss[q]) /\ ss[q][q] = ps[1] /\ o = 0
            BY <2>3, <2>4, <3>1
        <3>3. n[q - 1] + q \in 1..n[Len(ss)] /\ fl[n[q - 1] + q] = ss[q][q]
            BY <2>1, <2>2, <3>2, Zenon DEF Places
        <3>4. n[0] = 0 /\ Len(fl) = n[Len(ss)]
            BY <2>1, <2>2, Zenon DEF Places
        <3>5. QED BY <3>1, <3>2, <3>3, <3>4
    <2>6. fl[1] = ps[1] /\ 1 \in 1..Len(fl)
        BY <2>5
    <2>7. fl # << >>
        BY <2>6
    <2>8. QED BY <2>1, <2>6, <2>7, Zenon
<1>7. QED BY <1>2, <1>5, <1>6, Zenon

\* Packets whose length four octets can tell.
Sound == {p \in Packets : FourFit(p.n)}

LEMMA PublicTagIs ==
    ASSUME NEW tag \in 0..63
    PROVE  PublicTag(tag) \in 0..63 /\ (tag \in {PublicKey, SecretKey} => PublicTag(tag) = PublicKey)
BY DEF PublicTag, PublicKey, SecretKey, PublicSub, SecretSub

LEMMA FormFor ==
    ASSUME NEW n \in Nat
    PROVE  \E f \in NewForms : FormFits(f, n) /\ (f = "new5" => n > 8383)
<1>1. ASSUME n < 192 PROVE FormFits("new1", n)
    BY <1>1 DEF FormFits
<1>2. ASSUME n >= 192, n <= 8383 PROVE FormFits("new2", n)
    <2>1. n \in 192..8383
        BY <1>2
    <2>2. QED BY <2>1 DEF FormFits
<1>3. FormFits("new5", n)
    BY DEF FormFits
<1>4. "new1" \in NewForms /\ "new2" \in NewForms /\ "new5" \in NewForms
    BY DEF NewForms
<1>5. n < 192 \/ (n >= 192 /\ n <= 8383) \/ n > 8383
    OBVIOUS
<1>6. "new1" # "new5" /\ "new2" # "new5"
    OBVIOUS
<1>7. QED BY <1>1, <1>2, <1>3, <1>4, <1>5, <1>6

\* A packet with a new header around it is a piece of a stream.
LEMMA ReframedWith ==
    ASSUME NEW p, p.n \in Nat
    PROVE  \E form \in NewForms : /\ FormFits(form, p.n)
                                  /\ Reframed(p) = Piece(form, PublicTag(p.tag), p.n, p.body)
<1>1. \E f \in NewForms : FormFits(f, p.n) /\ (f = "new5" => p.n > 8383)
    BY FormFor
<1> DEFINE best == CHOOSE f \in NewForms : FormFits(f, p.n) /\ (f = "new5" => p.n > 8383)
<1>2. best \in {f \in NewForms : FormFits(f, p.n) /\ (f = "new5" => p.n > 8383)}
    BY <1>1
<1>3. Reframed(p) = Piece(best, PublicTag(p.tag), p.n, p.body)
    BY DEF Reframed
<1> HIDE DEF best
<1>4. best \in NewForms /\ FormFits(best, p.n)
    BY <1>2
<1>5. QED BY <1>3, <1>4, Zenon

LEMMA ReframedIs ==
    ASSUME NEW p \in Sound
    PROVE  /\ Reframed(p) \in Pieces /\ Definite(Reframed(p))
           /\ Reframed(p).tag = PublicTag(p.tag)
<1>1. p.tag \in 0..63 /\ p.n \in Nat /\ p.body \in Seq(Octet) /\ FourFit(p.n)
    BY DEF Sound, Packets
<1>2. PICK tag : tag = PublicTag(p.tag)
    OBVIOUS
<1>3. PICK form \in NewForms : FormFits(form, p.n) /\ Reframed(p) = Piece(form, tag, p.n, p.body)
    BY <1>1, <1>2, ReframedWith
<1> DEFINE hdr == HeaderBytes(form, tag, p.n)
           x == Piece(form, tag, p.n, p.body)
<1>4. Reframed(p) = x
    BY <1>3
<1>5. tag \in 0..63
    BY <1>1, <1>2, PublicTagIs
<1>6. PICK h : h = hdr
    OBVIOUS
<1>7. ReadsAs(h, tag, p.n)
    <2>1. CASE form = "new1"
        <3>1. h = << 192 + tag, p.n >> /\ p.n < 192
            BY <1>3, <1>6, <2>1 DEF HeaderBytes, FormFits
        <3>2. QED BY <1>1, <1>5, <3>1, NewOne
    <2>2. CASE form = "new2"
        <3>1. AreTwo(h, tag, p.n)
            BY <1>6, <2>2 DEF HeaderBytes, AreTwo
        <3>2. FormFits("new2", p.n)
            BY <1>3, <2>2
        <3>3. QED BY <1>1, <1>5, <3>1, <3>2, NewTwo
    <2>3. CASE form = "new5"
        <3>1. IsFive(h, tag, p.n)
            BY <1>6, <2>3 DEF HeaderBytes, IsFive
        <3>2. QED BY <1>1, <1>5, <3>1, NewFive
    <2>4. form = "new1" \/ form = "new2" \/ form = "new5"
        BY <1>3 DEF NewForms
    <2>5. QED BY <2>1, <2>2, <2>3, <2>4
<1>8. h \in Seq(Octet)
    BY <1>7, Zenon DEF ReadsAs
<1>9. PICK n, body : n = p.n /\ body = p.body
    OBVIOUS
<1>10. x = [form |-> form, tag |-> tag, n |-> n, hdr |-> h, head |-> body]
    BY <1>6, <1>9, Zenon DEF Piece
<1>11. x.form = form /\ x.tag = tag /\ x.n = n /\ x.head = body
    BY <1>10
<1>12. form \in Forms /\ form \notin OldForms \cup {"indefinite"}
    BY <1>3 DEF Forms, NewForms, OldForms
<1>13. x \in [form : Forms, tag : 0 .. 63, n : Nat, hdr : Seq(Octet), head : Seq(Octet)]
    BY <1>1, <1>5, <1>8, <1>9, <1>10, <1>12
<1>14. x = Piece(x.form, x.tag, x.n, x.head)
    BY <1>9, <1>11, Zenon
<1>15. FormFits(x.form, x.n) /\ x.n \div 256 ^ 3 \in Octet
    BY <1>1, <1>3, <1>9, <1>11, Zenon DEF FourFit
<1>16. x.form \in OldForms \cup {"indefinite"} => x.tag < 16
    BY <1>11, <1>12, Zenon
<1>17. x \in Pieces
    <2> HIDE DEF x
    <2>1. QED BY <1>13, <1>14, <1>15, <1>16, Zenon DEF Pieces
<1>18. Definite(x)
    BY <1>3, <1>11, Zenon DEF Definite
<1>19. QED BY <1>2, <1>4, <1>11, <1>17, <1>18, Zenon

LEMMA FirstOf ==
    ASSUME NEW W, NEW m \in Nat
    PROVE  SubSeq(W, 1, m) = [q \in 1..m |-> W[q]]
<1>1. SubSeq(W, 1, m) = [q \in 1..(1 + m - 1) |-> W[1 + q - 1]]
    OBVIOUS
<1>2. 1 + m - 1 = m /\ \A q \in 1..m : 1 + q - 1 = q
    OBVIOUS
<1>3. QED BY <1>1, <1>2

\* Walk finds nothing whose length four octets could not tell.
LEMMA WalkSound ==
    ASSUME NEW s, IsStream(s)
    PROVE  Walk(s) \in Seq(Sound) \cup {Refused}
<1>1. PICK t : Laying(t, s)
    BY LayingExists
<1>2. PICK f : Walk(s) = f[0] /\ \A i \in Nat : f[i] = WalkBody(s, f, i)
    BY <1>1, WalkEquation
<1>3. CASE \A m \in 0..Len(s.pieces) : ~FirstWhole(s, t, m)
    BY <1>1, <1>2, <1>3, WalkOfBroken
<1>4. CASE \E m \in 0..Len(s.pieces) : FirstWhole(s, t, m)
    <2>1. PICK m \in 0..Len(s.pieces) : FirstWhole(s, t, m)
        BY <1>4
    <2>2. /\ m \in Nat /\ Len(s.pieces) \in Nat /\ DOMAIN s.pieces = 1..Len(s.pieces)
          /\ \A q \in 1..m : q \in 1..Len(s.pieces)
        <3>1. Len(s.pieces) \in Nat /\ DOMAIN s.pieces = 1..Len(s.pieces)
            BY <1>1, LayingFacts
        <3>2. QED BY <3>1
    <2>3. PICK w : w = SubSeq(Written(s), 1, m)
        OBVIOUS
    <2>4. Walk(s) = w /\ w \in Seq(Packets)
        BY <1>1, <1>2, <2>1, <2>3, WalkOfWhole
    <2>5. w = [q \in 1..m |-> Written(s)[q]]
        BY <2>2, <2>3, FirstOf
    <2>6. Len(w) \in Nat /\ DOMAIN w = 1..Len(w) /\ \A q \in 1..Len(w) : w[q] \in Packets
        BY <2>4, LenProperties
    <2>7. Len(w) = m
        BY <2>2, <2>5, <2>6
    <2>8. ASSUME NEW q \in 1..m PROVE w[q] \in Sound
        <3>1. w[q] = Written(s)[q]
            BY <2>5
        <3>2. Written(s)[q].n = s.pieces[q].n
            BY <2>2 DEF Written
        <3>3. s.pieces[q] \in Pieces
            BY <1>1, <2>2, LayingFacts
        <3>4. FourFit(s.pieces[q].n)
            BY <3>3, PieceFields
        <3>5. w[q] \in Packets
            BY <2>6, <2>7
        <3>6. QED BY <3>1, <3>2, <3>4, <3>5, Zenon DEF Sound
    <2>9. w \in Seq(Sound)
        <3>1. w = [q \in 1..m |-> w[q]]
            BY <2>5
        <3>2. w \in [1..m -> Sound]
            BY <2>8, <3>1
        <3>3. QED BY <2>2, <3>2, SeqDef
    <2>10. QED BY <2>4, <2>9
<1>5. QED BY <1>3, <1>4

LEMMA FourFitLess ==
    ASSUME NEW m \in Nat, FourFit(m), NEW n \in Nat, n <= m
    PROVE  FourFit(n)
<1>1. 256 ^ 3 = 16777216
    BY SMT
<1>2. m \div 16777216 \in 0..255
    BY <1>1 DEF FourFit, Octet
<1>3. n \div 16777216 \in 0..255
    BY <1>2, SMT
<1>4. QED BY <1>1, <1>3 DEF FourFit, Octet

\* The first bytes of a body.
LEMMA BodyBegins ==
    ASSUME NEW head \in Seq(Octet), NEW n \in Nat
    PROVE  SubSeq(head \o << 0, 0, 0 >>, 1, IF n < 3 THEN n ELSE 3) \in Seq(Octet)
<1>1. PICK k : k = IF n < 3 THEN n ELSE 3
    OBVIOUS
<1>2. k \in Nat /\ k <= 3
    BY <1>1
<1>3. PICK z : z = << 0, 0, 0 >>
    OBVIOUS
<1>4. z \in Seq(Octet) /\ Len(z) = 3
    BY <1>3 DEF Octet
<1>5. PICK w : w = head \o z
    OBVIOUS
<1>6. w \in Seq(Octet) /\ Len(w) = Len(head) + 3 /\ Len(head) \in Nat
    <2>1. head \o z \in Seq(Octet) /\ Len(head \o z) = Len(head) + Len(z)
        BY <1>4, ConcatProperties
    <2>2. Len(head) \in Nat
        BY LenProperties
    <2>3. QED BY <1>4, <1>5, <2>1, <2>2, Zenon
<1>7. \A q \in 1..k : q \in 1..Len(w)
    BY <1>2, <1>6
<1>8. SubSeq(w, 1, k) = [q \in 1..k |-> w[q]]
    BY <1>2, FirstOf
<1>9. \A q \in 1..k : w[q] \in Octet
    BY <1>6, <1>7
<1>10. [q \in 1..k |-> w[q]] \in Seq(Octet)
    BY <1>2, <1>9
<1>11. QED BY <1>1, <1>3, <1>5, <1>8, <1>10, Zenon

\* What the library makes of a piece it can read.
LEMMA BodyReadIs ==
    ASSUME NEW s, NEW t, Laying(t, s), FourFit(s.len), NEW j \in 1..Len(s.pieces), CanRead(s, j)
    PROVE  LET b == BodyRead(s, j)
           IN  b.n \in Nat /\ FourFit(b.n) /\ b.head \in Seq(Octet)
<1>1. PICK p, b : p = s.pieces[j] /\ b = BodyRead(s, j)
    OBVIOUS
<1>2. /\ p.n \in Nat /\ FourFit(p.n) /\ p.head \in Seq(Octet)
      /\ s.len \in Nat /\ s.starts[j] \in Nat
    <2>1. p \in Pieces
        BY <1>1, LayingFacts
    <2>2. p.n \in Nat /\ FourFit(p.n) /\ p.head \in Seq(Octet)
        BY <2>1, PieceFields
    <2>3. s.len \in Nat
        BY LayingFacts
    <2>4. s.starts[j] = t[j - 1] /\ j - 1 \in 0..Len(s.pieces)
        BY LayingFacts
    <2>5. s.starts[j] \in Nat
        BY <2>4, LayingFacts
    <2>6. QED BY <2>2, <2>3, <2>5
<1>3. CASE p.form = "partial"
    <2>1. b = [n |-> p.n - 1, head |-> SubSeq(p.head, 1, 1) \o SubSeq(p.head, 3, Len(p.head))]
        BY <1>1, <1>3 DEF BodyRead
    <2>2. p.n \in 2..193 /\ Len(p.head) > 1
        BY <1>1, <1>3 DEF CanRead, InChunks
    <2>3. PICK x, y : x = SubSeq(p.head, 1, 1) /\ y = SubSeq(p.head, 3, Len(p.head))
        OBVIOUS
    <2>4. x \in Seq(Octet) /\ y \in Seq(Octet)
        BY <1>2, <2>2, <2>3
    <2>5. b.n = p.n - 1 /\ b.head = x \o y
        BY <2>1, <2>3
    <2>6. b.n \in Nat /\ b.n <= p.n
        <3>1. \A k \in 2..193 : k - 1 \in Nat /\ k - 1 <= k
            OBVIOUS
        <3>2. QED BY <2>2, <2>5, <3>1, Zenon
    <2>7. FourFit(b.n)
        BY <1>2, <2>6, FourFitLess
    <2>8. x \o y \in Seq(Octet)
        BY <2>4
    <2>9. QED BY <1>1, <2>5, <2>6, <2>7, <2>8, Zenon
<1>4. CASE p.form = "indefinite"
    <2>1. b = [n |-> s.len - s.starts[j] - 1, head |-> p.head]
        BY <1>1, <1>4 DEF BodyRead
    <2>2. s.starts[j] < s.len
        BY <1>1, <1>4 DEF CanRead
    <2>3. b.n = s.len - s.starts[j] - 1 /\ b.head = p.head
        BY <2>1
    <2>4. b.n \in Nat /\ b.n <= s.len
        BY <1>2, <2>2, <2>3
    <2>5. FourFit(b.n)
        BY <1>2, <2>4, FourFitLess
    <2>6. QED BY <1>1, <1>2, <2>3, <2>4, <2>5, Zenon
<1>5. CASE p.form # "partial" /\ p.form # "indefinite"
    <2>1. b = [n |-> p.n, head |-> p.head]
        BY <1>1, <1>5 DEF BodyRead
    <2>2. b.n = p.n /\ b.head = p.head
        BY <2>1
    <2>3. QED BY <1>1, <1>2, <2>2, Zenon
<1>6. QED BY <1>3, <1>4, <1>5

LEMMA LibraryPacketSound ==
    ASSUME NEW s, NEW t, Laying(t, s), FourFit(s.len), NEW j \in 1..Len(s.pieces), CanRead(s, j)
    PROVE  LibraryPacket(s, j) \in Sound
<1>1. PICK p, b : p = s.pieces[j] /\ b = BodyRead(s, j)
    OBVIOUS
<1>2. b.n \in Nat /\ FourFit(b.n) /\ b.head \in Seq(Octet)
    BY <1>1, BodyReadIs
<1>3. p \in Pieces /\ s.starts[j] = t[j - 1] /\ j - 1 \in 0..Len(s.pieces)
    BY <1>1, LayingFacts
<1>4. s.starts[j] \in Nat
    BY <1>3, LayingFacts
<1>5. p.tag \in 0..63 /\ Len(p.hdr) \in 1..6
    BY <1>3, PieceFields, SizeFacts
<1>6. PICK n, body : /\ n = b.n
                     /\ body = SubSeq(b.head \o <<0, 0, 0>>, 1, IF b.n < 3 THEN b.n ELSE 3)
    OBVIOUS
<1>7. body \in Seq(Octet)
    BY <1>2, <1>6, BodyBegins
<1>8. PICK q : q = [tag |-> p.tag, off |-> s.starts[j], hdr |-> Len(p.hdr), n |-> n, body |-> body]
    OBVIOUS
<1>9. LibraryPacket(s, j) = q
    BY <1>1, <1>6, <1>8, Zenon DEF LibraryPacket
<1>10. q \in Packets /\ q.n = n
    BY <1>2, <1>4, <1>5, <1>6, <1>7, <1>8 DEF Packets
<1>11. QED BY <1>2, <1>6, <1>9, <1>10, Zenon DEF Sound

\* Neither does the library.
LEMMA LibrarySound ==
    ASSUME NEW s, IsStream(s), FourFit(s.len)
    PROVE  LibraryPackets(s) \in Seq(Sound)
<1>1. PICK t : Laying(t, s)
    BY LayingExists
<1>2. PICK N : N = Len(s.pieces) /\ N \in Nat /\ DOMAIN s.pieces = 1..N
    BY <1>1, LayingFacts
<1>3. ASSUME NEW j \in 1..N, CanRead(s, j) PROVE LibraryPacket(s, j) \in Sound
    BY <1>1, <1>2, <1>3, LibraryPacketSound
<1>4. ASSUME NEW j \in 1..N
      PROVE  (IF \A i \in 1..j : CanRead(s, i) THEN << LibraryPacket(s, j) >> ELSE << >>)
               \in Seq(Sound)
    <2>1. CASE \A i \in 1..j : CanRead(s, i)
        <3>1. j \in 1..j
            BY <1>2
        <3>2. LibraryPacket(s, j) \in Sound
            BY <1>3, <2>1, <3>1
        <3>3. << LibraryPacket(s, j) >> \in Seq(Sound)
            BY <3>2
        <3>4. QED BY <2>1, <3>3, Zenon
    <2>2. CASE ~\A i \in 1..j : CanRead(s, i)
        <3>1. << >> \in Seq(Sound)
            OBVIOUS
        <3>2. QED BY <2>2, <3>1, Zenon
    <2>3. QED BY <2>1, <2>2
<1> DEFINE one(j) == IF \A i \in 1..j : CanRead(s, i) THEN << LibraryPacket(s, j) >> ELSE << >>
<1>5. LibraryPackets(s) = FlattenSeq([j \in 1..N |-> one(j)])
    BY <1>2, Zenon DEF LibraryPackets
<1>6. \A j \in 1..N : one(j) \in Seq(Sound)
    BY <1>4, Zenon
<1> HIDE DEF one
<1>7. PICK ss : ss = [j \in 1..N |-> one(j)]
    OBVIOUS
<1>8. ss = [j \in 1..N |-> ss[j]] /\ \A j \in 1..N : ss[j] \in Seq(Sound)
    BY <1>6, <1>7, Zenon
<1>9. FlattenSeq(ss) \in Seq(Sound)
    BY <1>2, <1>8, Chunks
<1>10. QED BY <1>5, <1>7, <1>9, Zenon

\* What is kept of packets is of them.
LEMMA PlacedSound ==
    ASSUME NEW ps \in Seq(Sound)
    PROVE  FlattenSeq(Placed(ps)) \in Seq(Sound)
<1>1. Len(ps) \in Nat /\ DOMAIN ps = 1..Len(ps) /\ \A j \in 1..Len(ps) : ps[j] \in Sound
    BY LenProperties
<1>2. ASSUME NEW j \in 1..Len(ps)
      PROVE  (IF Misplaced(ps, j) THEN << >> ELSE << ps[j] >>) \in Seq(Sound)
    <2>1. << ps[j] >> \in Seq(Sound) /\ << >> \in Seq(Sound)
        BY <1>1
    <2>2. QED BY <2>1, Zenon
<1>3. PICK N, ss : N = Len(ps) /\ ss = Placed(ps)
    OBVIOUS
<1>4. ss = [j \in 1..N |-> IF Misplaced(ps, j) THEN << >> ELSE << ps[j] >>]
    BY <1>1, <1>3, Zenon DEF Placed
<1>5. N \in Nat /\ ss = [j \in 1..N |-> ss[j]] /\ \A j \in 1..N : ss[j] \in Seq(Sound)
    BY <1>1, <1>2, <1>3, <1>4, Zenon
<1>6. FlattenSeq(ss) \in Seq(Sound)
    BY <1>5, Chunks
<1>7. QED BY <1>3, <1>6, Zenon

\* What AddPublic is given for a key: a block that begins with a public key.
IsKeyBlock(kb) ==
    /\ kb.len \in Nat \ {0}
    /\ Walk(kb) \in Seq(Packets) /\ Walk(kb) # << >> /\ Walk(kb)[1].tag = PublicKey

LEMMA KeySerialized ==
    ASSUME NEW qs \in Seq(Sound), qs # << >>, qs[1].tag \in {PublicKey, SecretKey}
    PROVE  IsKeyBlock(Serialized(qs))
<1> DEFINE tags == {PublicKey, SecretKey, PublicSub, SecretSub, UserID, Signature}
<1>1. PICK ours : ours = Only(qs, tags)
    OBVIOUS
<1>2. ours \in Seq(Sound) /\ ours # << >> /\ ours[1].tag \in {PublicKey, SecretKey}
    <2>1. qs[1].tag \in tags
        OBVIOUS
    <2>2. ours \in Seq(Sound) /\ ours # << >> /\ ours[1] = qs[1]
        BY <1>1, <2>1, OnlyIs
    <2>3. QED BY <2>2, Zenon
<1>3. PICK N : N = Len(ours)
    OBVIOUS
<1>4. N \in Nat \ {0} /\ DOMAIN ours = 1..N /\ \A j \in 1..N : ours[j] \in Sound
    <2>1. Len(ours) # 0
        BY <1>2, EmptySeq
    <2>2. QED BY <1>2, <1>3, <2>1, LenProperties
<1>5. PICK pieces : pieces = [j \in 1..N |-> Reframed(ours[j])]
    OBVIOUS
<1>6. \A j \in 1..N : pieces[j] \in Pieces /\ Definite(pieces[j]) /\ pieces[j].tag = PublicTag(ours[j].tag)
    BY <1>4, <1>5, ReframedIs
<1>7. pieces \in Seq(Pieces) /\ Len(pieces) = N /\ DOMAIN pieces = 1..N
    <2>1. pieces \in [1..N -> Pieces]
        BY <1>5, <1>6
    <2>2. pieces \in Seq(Pieces)
        BY <1>4, <2>1, SeqDef
    <2>3. DOMAIN pieces = 1..N /\ DOMAIN pieces = 1..Len(pieces) /\ Len(pieces) \in Nat
        BY <2>1, <2>2, LenProperties
    <2>4. QED BY <1>4, <2>2, <2>3
<1>8. PICK t : Sums(t, pieces) /\ Total(pieces) = t[N]
    BY <1>7, TotalIs
<1>9. PICK kb : kb = Stream(pieces, Total(pieces))
    OBVIOUS
<1>10. Serialized(qs) = kb
    BY <1>1, <1>4, <1>5, <1>9, Zenon DEF Serialized
<1>11. kb.pieces = pieces /\ kb.len = t[N]
       /\ kb.starts = [j \in 1..N |-> Total(SubSeq(pieces, 1, j - 1))]
    <2>1. PICK st, l : st = [j \in 1..N |-> Total(SubSeq(pieces, 1, j - 1))] /\ l = t[N]
        OBVIOUS
    <2>2. kb = [pieces |-> pieces, starts |-> st, len |-> l]
        BY <1>7, <1>8, <1>9, <2>1, Zenon DEF Stream
    <2>3. kb.pieces = pieces /\ kb.len = l /\ kb.starts = st
        BY <2>2
    <2>4. QED BY <2>1, <2>3, Zenon
<1>12. 0 \in 0..N /\ N \in 0..N /\ 0 < N /\ 1 \in 1..N
    BY <1>4
<1>13. t[N] \in Nat /\ t[0] = 0 /\ t[0] < t[N]
    <2>1. t[0] < t[N]
        BY <1>7, <1>8, <1>12, SumsGrow
    <2>2. t \in [0..N -> Nat] /\ t[0] = 0
        BY <1>7, <1>8, Zenon DEF Sums
    <2>3. QED BY <1>12, <2>1, <2>2
<1>14. Laying(t, kb)
    <2>1. \A j \in 1..N : kb.starts[j] = t[j - 1]
        <3>1. ASSUME NEW j \in 1..N PROVE Total(SubSeq(pieces, 1, j - 1)) = t[j - 1]
            <4>1. j - 1 \in 0..Len(pieces)
                BY <1>4, <1>7
            <4>2. PICK m : m = j - 1
                OBVIOUS
            <4>3. Total(SubSeq(pieces, 1, m)) = t[m]
                BY <1>7, <1>8, <4>1, <4>2, TotalOfFirst
            <4>4. QED BY <4>2, <4>3
        <3>2. QED BY <1>11, <3>1
    <2>2. kb.len \in 0..t[N]
        BY <1>11, <1>13
    <2>3. QED BY <1>7, <1>8, <1>11, <2>1, <2>2, Zenon DEF Laying
<1>15. FirstWhole(kb, t, N)
    BY <1>6, <1>11, Zenon DEF FirstWhole
<1>16. PICK f : Walk(kb) = f[0] /\ \A i \in Nat : f[i] = WalkBody(kb, f, i)
    BY <1>14, WalkEquation
<1>17. PICK w : w = Walk(kb)
    OBVIOUS
<1>18. w = SubSeq(Written(kb), 1, N) /\ w \in Seq(Packets)
    <2>1. N \in 0..Len(kb.pieces)
        BY <1>7, <1>11, <1>12
    <2>2. f[0] = SubSeq(Written(kb), 1, N) /\ SubSeq(Written(kb), 1, N) \in Seq(Packets)
        BY <1>14, <1>15, <1>16, <2>1, WalkOfWhole
    <2>3. QED BY <1>16, <1>17, <2>2, Zenon
<1>19. w = [q \in 1..N |-> Written(kb)[q]]
    BY <1>4, <1>18, FirstOf
<1>20. w # << >> /\ w[1] = Written(kb)[1]
    <2>1. DOMAIN w = 1..N /\ w[1] = Written(kb)[1]
        BY <1>12, <1>19
    <2>2. QED BY <1>12, <2>1
<1>21. Written(kb)[1].tag = pieces[1].tag
    <2>1. 1 \in DOMAIN kb.pieces
        BY <1>7, <1>11, <1>12
    <2>2. Written(kb)[1].tag = kb.pieces[1].tag
        BY <2>1 DEF Written
    <2>3. QED BY <1>11, <2>2
<1>22. pieces[1].tag = PublicKey
    <2>1. pieces[1].tag = PublicTag(ours[1].tag) /\ ours[1] \in Sound
        BY <1>4, <1>6, <1>12
    <2>2. ours[1].tag \in 0..63
        BY <2>1 DEF Sound, Packets
    <2>3. QED BY <1>2, <2>1, <2>2, PublicTagIs
<1>23. kb.len \in Nat \ {0}
    BY <1>11, <1>13
<1>24. QED BY <1>10, <1>17, <1>18, <1>20, <1>21, <1>22, <1>23, Zenon DEF IsKeyBlock

-----------------------------------------------------------------------------
(* Blobs: those that are written and those that are there.                  *)

LEMMA BlobIsRaw ==
    ASSUME NEW kb, IsKeyBlock(kb), NEW fprSize \in {20, 32}, NEW raw,
           raw = NewOpenPGPBlob(kb, fprSize), raw # Refused
    PROVE  \E u : IsRaw(raw, u)
<1>1. PICK ps, fprs : ps = Walk(kb) /\ fprs = Fingerprints(ps)
    OBVIOUS
<1>2. ps \in Seq(Packets) /\ kb.len \in Nat \ {0}
    BY <1>1, Zenon DEF IsKeyBlock
<1>3. raw = BlobFor(kb.len, ps, fprs, fprSize)
    BY <1>1, Zenon DEF NewOpenPGPBlob
<1>4. fprs # << >> /\ raw = BlobAround(kb.len, ps, fprs, fprSize)
    BY <1>3, Zenon DEF BlobFor
<1>5. PICK parts : parts = Only(ps, {PublicKey, PublicSub})
    OBVIOUS
<1>6. parts \in Seq(Packets) /\ Only(ps, {UserID}) \in Seq(Packets)
    BY <1>2, <1>5, OnlyIs
<1>7. DOMAIN parts = 1..Len(parts) /\ Len(parts) \in Nat
    BY <1>6, LenProperties
<1>8. fprs = [k \in 1..Len(parts) |-> Fingerprint(parts[k])]
    BY <1>1, <1>5, <1>7, Zenon DEF Fingerprints
<1>9. fprs = [k \in 1..Len(parts) |-> fprs[k]]
    BY <1>8
<1>10. DOMAIN fprs = 1..Len(parts) /\ Len(fprs) = Len(parts)
    BY <1>7, <1>9, LenOfList
<1>11. Len(parts) # 0
    <2>1. SUFFICES ASSUME Len(parts) = 0 PROVE FALSE
        OBVIOUS
    <2>2. fprs = [k \in 1..0 |-> fprs[k]]
        BY <1>9, <2>1
    <2>3. fprs = << >>
        BY <2>2
    <2>4. QED BY <1>4, <2>3
<1>12. Len(fprs) \in Nat \ {0} /\ DOMAIN fprs = 1..Len(fprs)
    BY <1>7, <1>10, <1>11
<1>13. PICK l : l = kb.len
    OBVIOUS
<1>14. l \in Nat \ {0}
    BY <1>2, <1>13
<1>15. \E u : IsRaw(BlobAround(l, ps, fprs, fprSize), u)
    BY <1>6, <1>12, <1>14, AroundIsRaw
<1>16. QED BY <1>4, <1>13, <1>15, Zenon

\* The first fingerprint of a blob's is that of its key.
LEMMA FirstFingerprint ==
    ASSUME NEW kb, IsKeyBlock(kb)
    PROVE  Fingerprints(Walk(kb))[1] = FprOf(kb)
<1>1. PICK ps : ps = Walk(kb)
    OBVIOUS
<1>2. ps \in Seq(Packets) /\ ps # << >> /\ ps[1].tag = PublicKey
    BY <1>1, Zenon DEF IsKeyBlock
<1>3. PICK parts : parts = Only(ps, {PublicKey, PublicSub})
    OBVIOUS
<1>4. parts \in Seq(Packets) /\ parts # << >> /\ parts[1] = ps[1]
    <2>1. ps[1].tag \in {PublicKey, PublicSub}
        BY <1>2
    <2>2. QED BY <1>2, <1>3, <2>1, OnlyIs
<1>5. 1 \in DOMAIN parts
    <2>1. Len(parts) # 0 /\ Len(parts) \in Nat /\ DOMAIN parts = 1..Len(parts)
        BY <1>4, EmptySeq, LenProperties
    <2>2. QED BY <2>1
<1>6. Fingerprints(ps) = [k \in DOMAIN parts |-> Fingerprint(parts[k])]
    BY <1>3, Zenon DEF Fingerprints
<1>7. Fingerprints(ps)[1] = Fingerprint(parts[1])
    BY <1>5, <1>6
<1>8. QED BY <1>1, <1>4, <1>7, Zenon DEF FprOf

LEMMA HeaderIsRaw == \E u : IsRaw(HeaderBlob, u)
<1> DEFINE X == {F(4, 32), F(1, 1), F(27, 0)}
<1>1. PICK fs : fs = << F(4, 32), F(1, 1), F(27, 0) >>
    OBVIOUS
<1>2. Sized(X) /\ fs \in Seq(X)
    <2>1. F(4, 32).size = 4 /\ F(1, 1).size = 1 /\ F(27, 0).size = 27
        BY DEF F
    <2>2. fs \in Seq(X)
        BY <1>1
    <2>3. QED BY <2>1, <2>2 DEF Sized
<1> HIDE DEF X
<1>3. /\ Len(fs) = 3 /\ fs[1].size = 4 /\ fs[2].size = 1 /\ fs[3].size = 27
      /\ fs[1].val = 32 /\ fs[2].val = 1
    BY <1>1 DEF F
<1>4. PICK u, raw : u = Ends(fs) /\ raw = Laid(fs).fields
    OBVIOUS
<1>5. /\ Spaced(raw, u) /\ Len(raw) = 3
      /\ \A j \in 1..3 : raw[j].val = fs[j].val
    <2>1. /\ Spaced(raw, u) /\ Len(raw) = Len(fs)
          /\ \A j \in 1..Len(fs) : raw[j].val = fs[j].val
        BY <1>2, <1>4, LaidSpaced, Zenon
    <2>2. QED BY <1>3, <2>1
<1>6. u[1] = 4 /\ u[2] = 5 /\ u[3] = 32
    <2>1. Run(u, fs)
        BY <1>2, <1>4, EndsIs
    <2>2. u[0] = 0 /\ \A j \in 1..3 : u[j] = u[j - 1] + fs[j].size
        BY <1>3, <2>1, Zenon DEF Run
    <2>3. u[1] = 4
        BY <1>3, <2>2
    <2>4. u[2] = 5
        BY <1>3, <2>2, <2>3
    <2>5. u[3] = 32
        BY <1>3, <2>2, <2>4
    <2>6. QED BY <2>3, <2>4, <2>5
<1>7. raw[1].val = 32 /\ raw[2].val # OpenPGP
    <2>1. raw[1].val = 32 /\ raw[2].val = 1
        BY <1>3, <1>5
    <2>2. QED BY <2>1 DEF OpenPGP
<1>8. IsRaw(raw, u)
    <2>1. Len(raw) > 1 /\ raw[1].val = u[Len(raw)] /\ u[Len(raw)] > 5
        BY <1>5, <1>6, <1>7
    <2>2. QED BY <1>5, <1>6, <1>7, <2>1, Zenon DEF IsRaw
<1>9. HeaderBlob = raw
    BY <1>1, <1>4, Zenon DEF HeaderBlob
<1>10. QED BY <1>8, <1>9, Zenon

\* Fields are a sequence of things with sizes.
LEMMA FieldsAre ==
    ASSUME NEW fs, AreFields(fs)
    PROVE  /\ Len(fs) \in Nat /\ DOMAIN fs = 1..Len(fs)
           /\ \E X : Sized(X) /\ fs \in Seq(X) /\ X = {fs[j] : j \in 1..Len(fs)}
<1>1. Len(fs) \in Nat /\ fs = [j \in 1..Len(fs) |-> fs[j]]
      /\ \A j \in DOMAIN fs : fs[j].size \in Nat \ {0}
    BY Zenon DEF AreFields, IsList
<1>2. DOMAIN fs = 1..Len(fs) /\ fs \in Seq({fs[j] : j \in 1..Len(fs)})
    BY <1>1, LenOfList
<1>3. Sized({fs[j] : j \in 1..Len(fs)})
    BY <1>1, <1>2 DEF Sized
<1>4. QED BY <1>1, <1>2, <1>3

\* What a blob of the keybox is: where its fields are, and the first fingerprint of a key.
BoxBlob(raw, u) ==
    /\ IsRaw(raw, u) /\ u[Len(raw)] = raw[1].val
    /\ raw[2].val = OpenPGP =>
          /\ BeginsSo(u) /\ Len(raw) > 8
          /\ raw[7].val \in Nat \ {0} /\ raw[8].val \in Nat
          /\ u[9] - u[8] = IF raw[3].val = 2 THEN 32 ELSE 20

LEMMA BlobOfBox ==
    ASSUME NEW raw, AreFields(raw), IsBlob(raw)
    PROVE  BoxBlob(raw, Ends(raw))
<1>1. PICK X : Sized(X) /\ raw \in Seq(X)
    BY FieldsAre
<1>2. PICK u, l : u = Ends(raw) /\ l = Len(raw)
    OBVIOUS
<1>3. /\ raw = Laid(raw).fields
      /\ l > 1 /\ raw[1].size = 4 /\ raw[2].size = 1
      /\ raw[1].val = Bytesize(raw) /\ Bytesize(raw) > 5
      /\ raw[2].val = OpenPGP =>
           /\ l > 8 /\ \A j \in 1 .. 8 : raw[j].size = Fixed20(0)[j].size
           /\ raw[7].val \in Nat \ {0} /\ raw[8].val \in Nat
           /\ raw[9].size = IF raw[3].val = 2 THEN 32 ELSE 20
           /\ ~Malformed(raw, Bytesize(raw))
    BY <1>2, Zenon DEF IsBlob
<1>4. Spaced(raw, u) /\ Bytesize(raw) = u[l]
    <2>1. PICK file : file = Laid(raw).fields
        OBVIOUS
    <2>2. Spaced(file, u) /\ Bytesize(raw) = u[l]
        BY <1>1, <1>2, <2>1, LaidSpaced, Zenon
    <2>3. file = raw
        BY <1>3, <2>1, Zenon
    <2>4. QED BY <2>2, <2>3
<1>5. l \in Nat /\ u[0] = 0 /\ \A j \in 1..l : u[j - 1] \in Nat /\ u[j] \in Nat /\ u[j] = u[j - 1] + raw[j].size
    <2>1. Run(u, raw)
        BY <1>1, <1>2, EndsIs
    <2>2. l \in Nat
        BY <1>4, <1>2, Zenon DEF Spaced
    <2>3. QED BY <1>2, <2>1, <2>2, Zenon DEF Run
<1>6. u[1] = 4 /\ u[2] = 5
    <2>1. 1 \in 1..l /\ 2 \in 1..l
        BY <1>3, <1>5
    <2>2. u[1] = u[0] + 4
        BY <1>3, <1>5, <2>1
    <2>3. u[2] = u[1] + 1
        BY <1>3, <1>5, <2>1
    <2>4. QED BY <1>5, <2>2, <2>3
<1>7. IsRaw(raw, u)
    BY <1>2, <1>3, <1>4, <1>6, Zenon DEF IsRaw
<1>8. ASSUME raw[2].val = OpenPGP
      PROVE  /\ BeginsSo(u) /\ l > 8
             /\ raw[7].val \in Nat \ {0} /\ raw[8].val \in Nat
             /\ u[9] - u[8] = IF raw[3].val = 2 THEN 32 ELSE 20
    <2>1. l > 8 /\ l >= 8
        BY <1>3, <1>5, <1>8
    <2>2. BeginsSo(u)
        BY <1>1, <1>2, <1>3, <1>8, <2>1, BeginningEnds, Zenon
    <2>3. u[9] - u[8] = raw[9].size
        <3>1. PICK j : j = 9
            OBVIOUS
        <3>2. j \in 1..l /\ j - 1 = 8
            BY <1>5, <2>1, <3>1
        <3>3. u[8] \in Nat /\ u[9] \in Nat /\ u[9] = u[8] + raw[9].size
            BY <1>5, <3>1, <3>2
        <3>4. u[8] = 20
            BY <2>2, Zenon DEF BeginsSo
        <3>5. raw[9].size \in Nat
            BY <1>3, <1>8
        <3>6. QED BY <3>3, <3>4, <3>5
    <2>4. QED BY <1>3, <1>8, <2>1, <2>2, <2>3
<1>9. QED BY <1>2, <1>3, <1>4, <1>7, <1>8, Zenon DEF BoxBlob

\* What is read of it: the first fingerprint is the ninth field.
LEMMA FirstOfBox ==
    ASSUME NEW raw, NEW u, BoxBlob(raw, u), NEW b, ReadAs(raw, b), b.type = OpenPGP
    PROVE  b.fprs[1] = raw[9].val
<1>1. PICK len : len = raw[1].val
    OBVIOUS
<1>2. /\ IsRaw(raw, u) /\ u[Len(raw)] = len
      /\ raw[2].val = OpenPGP =>
          /\ BeginsSo(u) /\ Len(raw) > 8
          /\ raw[7].val \in Nat \ {0} /\ raw[8].val \in Nat
          /\ u[9] - u[8] = IF raw[3].val = 2 THEN 32 ELSE 20
    BY <1>1, Zenon DEF BoxBlob
<1>3. Spaced(raw, u) /\ Len(raw) > 1 /\ u[1] = 4 /\ u[2] = 5 /\ Len(raw) \in Nat
    <2>1. Spaced(raw, u) /\ Len(raw) > 1 /\ u[1] = 4 /\ u[2] = 5
        BY <1>2, Zenon DEF IsRaw
    <2>2. QED BY <2>1, Zenon DEF Spaced
<1>4. \A j, i, size : FieldAt(raw, u, j, i, size) => At(raw, len, i, size) = raw[j].val
    <2> SUFFICES ASSUME NEW j, NEW i, NEW size, FieldAt(raw, u, j, i, size)
                 PROVE  At(raw, len, i, size) = raw[j].val
        BY Zenon
    <2>1. At(raw, u[Len(raw)], i, size) = raw[j].val
        BY <1>3, ReadField
    <2>2. QED BY <1>2, <2>1
<1>5. At(raw, len, 4, 1) = raw[2].val
    <2>1. FieldAt(raw, u, 2, 4, 1)
        BY <1>3 DEF FieldAt
    <2>2. QED BY <1>4, <2>1
<1>6. raw[2].val = OpenPGP
    <2>1. SUFFICES ASSUME raw[2].val # OpenPGP PROVE FALSE
        OBVIOUS
    <2>2. << b >> = << Opaque(raw[2].val, raw) >>
        BY <1>1, <1>5, <2>1, Zenon DEF ReadAs, ParseRaw
    <2>3. b = Opaque(raw[2].val, raw)
        BY <2>2
    <2>4. b.type = raw[2].val
        BY <2>3 DEF Opaque
    <2>5. QED BY <2>1, <2>4
<1>7. b = ParseOpenPGP(raw, len)
    <2>1. ParseRaw(raw, len) = << b >>
        BY <1>1, Zenon DEF ReadAs
    <2>2. ~Malformed(raw, len)
        BY <1>2, <1>6, Zenon DEF IsRaw
    <2>3. ParseRaw(raw, len) = << ParseOpenPGP(raw, len) >>
        BY <1>5, <1>6, <2>2, Zenon DEF ParseRaw
    <2>4. QED BY <2>1, <2>3
<1>8. PICK n, s : n = raw[7].val /\ s = raw[8].val
    OBVIOUS
<1>9. n \in Nat \ {0} /\ s \in Nat /\ BeginsSo(u) /\ Len(raw) > 8
      /\ u[9] - u[8] = IF raw[3].val = 2 THEN 32 ELSE 20
    BY <1>2, <1>6, <1>8
<1>10. u[2] = 5 /\ u[3] = 6 /\ u[6] = 16 /\ u[7] = 18 /\ u[8] = 20
    BY <1>9, Zenon DEF BeginsSo
<1>11. At(raw, len, 5, 1) = raw[3].val
    <2>1. FieldAt(raw, u, 3, 5, 1)
        BY <1>3, <1>9, <1>10 DEF FieldAt
    <2>2. QED BY <1>4, <2>1
<1>12. At(raw, len, 16, 2) = n
    <2>1. FieldAt(raw, u, 7, 16, 2)
        BY <1>3, <1>9, <1>10 DEF FieldAt
    <2>2. QED BY <1>4, <1>8, <2>1
<1>13. At(raw, len, 18, 2) = s
    <2>1. FieldAt(raw, u, 8, 18, 2)
        BY <1>3, <1>9, <1>10 DEF FieldAt
    <2>2. QED BY <1>4, <1>8, <2>1
<1>14. PICK fl : fl = IF raw[3].val = 2 THEN 32 ELSE 20
    OBVIOUS
<1>15. At(raw, len, 20, fl) = raw[9].val
    <2>1. FieldAt(raw, u, 9, 20, fl)
        BY <1>3, <1>9, <1>10, <1>14 DEF FieldAt
    <2>2. QED BY <1>4, <2>1
<1>16. b.fprs = [k \in 1..n |-> At(raw, len, 20 + (k - 1) * s, fl)]
    <2>1. PICK fprs, kbl : fprs = [k \in 1..n |-> At(raw, len, 20 + (k - 1) * s, fl)]
                           /\ kbl = At(raw, len, At(raw, len, 8, 4), At(raw, len, 12, 4))
        OBVIOUS
    <2>2. b = [type |-> OpenPGP, raw |-> raw, keyblock |-> kbl, fprs |-> fprs]
        BY <1>7, <1>11, <1>12, <1>13, <1>14, <2>1, Zenon DEF ParseOpenPGP
    <2>3. b.fprs = fprs
        BY <2>2
    <2>4. QED BY <2>1, <2>3
<1>17. b.fprs[1] = At(raw, len, 20 + (1 - 1) * s, fl)
    <2>1. 1 \in 1..n
        BY <1>9
    <2>2. QED BY <1>16, <2>1
<1>18. 20 + (1 - 1) * s = 20
    BY <1>9
<1>19. QED BY <1>15, <1>17, <1>18

-----------------------------------------------------------------------------
(* The keys of a block, and the list of blobs they are added to.            *)

LEMMA LeastIn ==
    ASSUME NEW S, S \subseteq Nat, S # {}
    PROVE  Min(S) \in S
<1>1. PICK m \in S : \A x \in S : ~(<<x, m>> \in OpToRel(<, Nat))
    BY NatLessThanWellFounded, WFMin
<1>2. \A x \in S : x \in Nat /\ ~(x < m)
    BY <1>1 DEF OpToRel
<1>3. \A x \in S : m <= x
    BY <1>2
<1>4. QED BY <1>3 DEF Min

\* Where a key ends in a block.
LEMMA KeyEndIs ==
    ASSUME NEW S, NEW ps \in Seq(S), NEW j \in Primary(ps)
    PROVE  /\ Len(ps) \in Nat /\ j \in 1..Len(ps) /\ KeyEnd(ps, j) \in j..Len(ps)
           /\ ps[j].tag \in {PublicKey, SecretKey}
<1>1. Len(ps) \in Nat /\ DOMAIN ps = 1..Len(ps)
    BY LenProperties
<1>2. \A k \in Primary(ps) : k \in 1..Len(ps) /\ ps[k].tag \in {PublicKey, SecretKey}
    BY <1>1, Zenon DEF Primary
<1>3. j \in 1..Len(ps) /\ ps[j].tag \in {PublicKey, SecretKey}
    BY <1>2
<1> DEFINE later == {k \in Primary(ps) : k > j}
<1>4. KeyEnd(ps, j) = IF later = {} THEN Len(ps) ELSE Min(later) - 1
    BY Zenon DEF KeyEnd
<1>5. \A k \in later : k \in 1..Len(ps) /\ k > j
    BY <1>2
<1>6. later \subseteq Nat
    BY <1>1, <1>5
<1> HIDE DEF later
<1>7. CASE later = {}
    BY <1>1, <1>3, <1>4, <1>7
<1>8. CASE later # {}
    <2>1. Min(later) \in later
        BY <1>6, <1>8, LeastIn
    <2>2. PICK m : m = Min(later)
        OBVIOUS
    <2>3. m \in 1..Len(ps) /\ m > j /\ KeyEnd(ps, j) = m - 1
        BY <1>4, <1>5, <1>8, <2>1, <2>2
    <2>4. QED BY <1>1, <1>3, <2>3
<1>9. QED BY <1>1, <1>3, <1>7, <1>8

\* The key blocks that the library writes of sound packets, for some of the keys.
AreKeys(ks) ==
    /\ Len(ks) \in Nat /\ DOMAIN ks = 1..Len(ks)
    /\ \A k \in 1..Len(ks) : IsKeyBlock(ks[k])

LEMMA KeysAre ==
    ASSUME NEW ps \in Seq(Sound), NEW js, js \subseteq Primary(ps), NEW ks, ks = KeysAt(ps, js)
    PROVE  AreKeys(ks)
<1> DEFINE Key(j) == Serialized(SubSeq(ps, j, KeyEnd(ps, j)))
           one(j) == IF j \in js THEN << Key(j) >> ELSE << >>
           X == {Key(j) : j \in js}
<1>1. Len(ps) \in Nat /\ DOMAIN ps = 1..Len(ps) /\ \A j \in 1..Len(ps) : ps[j] \in Sound
    BY LenProperties
<1>2. ASSUME NEW j \in js PROVE IsKeyBlock(Key(j))
    <2>0. j \in Primary(ps)
        OBVIOUS
    <2>1. j \in 1..Len(ps) /\ KeyEnd(ps, j) \in j..Len(ps) /\ ps[j].tag \in {PublicKey, SecretKey}
        BY <2>0, KeyEndIs
    <2>2. PICK e, qs : e = KeyEnd(ps, j) /\ qs = SubSeq(ps, j, e)
        OBVIOUS
    <2>3. j \in 1..Len(ps) /\ e \in j..Len(ps)
        BY <2>1, <2>2
    <2>4. qs \in Seq(Sound) /\ Len(qs) = e - j + 1 /\ qs[1] = ps[j]
        BY <1>1, <2>2, <2>3
    <2>5. qs # << >>
        <3>1. Len(qs) # 0
            BY <1>1, <2>3, <2>4
        <3>2. QED BY <3>1
    <2>6. qs[1].tag \in {PublicKey, SecretKey}
        BY <2>1, <2>4
    <2>7. IsKeyBlock(Serialized(qs))
        BY <2>4, <2>5, <2>6, KeySerialized
    <2>8. QED BY <2>2, <2>7, Zenon
<1>3. ks = FlattenSeq([j \in 1..Len(ps) |-> one(j)])
    BY <1>1, Zenon DEF KeysAt
<1>4. \A x \in X : IsKeyBlock(x)
    <2> HIDE DEF Key
    <2>1. QED BY <1>2
<1>5. \A j \in 1..Len(ps) : one(j) \in Seq(X)
    <2> HIDE DEF Key
    <2>1. ASSUME NEW j \in 1..Len(ps) PROVE one(j) \in Seq(X)
        <3>1. CASE j \in js
            <4>1. Key(j) \in X
                BY <3>1
            <4> HIDE DEF X
            <4>2. << Key(j) >> \in Seq(X)
                BY <4>1
            <4>3. QED BY <3>1, <4>2
        <3>2. CASE j \notin js
            <4> HIDE DEF X
            <4>1. << >> \in Seq(X)
                OBVIOUS
            <4>2. QED BY <3>2, <4>1
        <3>3. QED BY <3>1, <3>2
    <2>2. QED BY <2>1
<1> HIDE DEF X, one
<1>6. PICK N, ss : N = Len(ps) /\ ss = [j \in 1..N |-> one(j)]
    OBVIOUS
<1>7. N \in Nat /\ ss = [j \in 1..N |-> ss[j]] /\ \A j \in 1..N : ss[j] \in Seq(X)
    BY <1>1, <1>5, <1>6, Zenon
<1>8. FlattenSeq(ss) \in Seq(X)
    BY <1>7, Chunks
<1>9. ks \in Seq(X)
    BY <1>3, <1>6, <1>8, Zenon
<1>10. Len(ks) \in Nat /\ DOMAIN ks = 1..Len(ks) /\ \A k \in 1..Len(ks) : ks[k] \in X
    BY <1>9, LenProperties
<1>11. QED BY <1>4, <1>10, Zenon DEF AreKeys

\* Whichever keys the library can read.
LEMMA ReadingsAre ==
    ASSUME NEW ps \in Seq(Sound), NEW ks \in Readings(ps)
    PROVE  AreKeys(ks)
<1>1. PICK js \in (SUBSET Primary(ps)) \ {{}} : ks = KeysAt(ps, js)
    BY Zenon DEF Readings
<1>2. js \subseteq Primary(ps)
    OBVIOUS
<1>3. QED BY <1>1, <1>2, KeysAre

\* What AddPublic makes of a list: each place keeps its blob, unless it is of the same key.
AddsTo(R, bs, blob, cs) ==
    /\ cs \in Seq(R) /\ Len(cs) >= Len(bs)
    /\ \A j \in 1..Len(bs) :
          \/ cs[j] = bs[j]
          \/ bs[j].type = OpenPGP /\ bs[j].fprs[1] = blob.fprs[1]

LEMMA AddOne ==
    ASSUME NEW R, NEW bs \in Seq(R), NEW blob \in R
    PROVE  AddsTo(R, bs, blob, AddPublic(bs, blob))
<1> DEFINE same == {j \in DOMAIN bs : bs[j].type = OpenPGP /\ bs[j].fprs # << >>
                                        /\ bs[j].fprs[1] = blob.fprs[1]}
<1>1. Len(bs) \in Nat /\ DOMAIN bs = 1..Len(bs)
    BY LenProperties
<1>2. PICK cs : cs = AddPublic(bs, blob)
    OBVIOUS
<1>3. cs = IF same = {} THEN Append(bs, blob) ELSE [bs EXCEPT ![Min(same)] = blob]
    BY <1>2, Zenon DEF AddPublic
<1>4. \A j \in same : j \in 1..Len(bs) /\ bs[j].type = OpenPGP /\ bs[j].fprs[1] = blob.fprs[1]
    BY <1>1
<1>5. same \subseteq Nat
    BY <1>1, <1>4
<1> HIDE DEF same
<1>6. CASE same = {}
    <2>1. cs = Append(bs, blob)
        BY <1>3, <1>6
    <2>2. cs \in Seq(R) /\ Len(cs) = Len(bs) + 1 /\ \A j \in 1..Len(bs) : cs[j] = bs[j]
        BY <2>1, AppendProperties
    <2>3. Len(cs) >= Len(bs)
        BY <1>1, <2>2
    <2>4. QED BY <1>2, <2>2, <2>3, Zenon DEF AddsTo
<1>7. CASE same # {}
    <2>1. PICK m : m = Min(same)
        OBVIOUS
    <2>2. m \in same
        BY <1>5, <1>7, <2>1, LeastIn
    <2>3. m \in 1..Len(bs) /\ bs[m].type = OpenPGP /\ bs[m].fprs[1] = blob.fprs[1]
        BY <1>4, <2>2
    <2>4. cs = [bs EXCEPT ![m] = blob]
        BY <1>3, <1>7, <2>1, Zenon
    <2>5. cs \in Seq(R) /\ Len(cs) = Len(bs)
        BY <2>3, <2>4, ExceptSeq
    <2>6. \A j \in 1..Len(bs) : j # m => cs[j] = bs[j]
        BY <1>1, <2>4
    <2>7. Len(cs) >= Len(bs)
        BY <1>1, <2>5
    <2>8. \A j \in 1..Len(bs) : cs[j] = bs[j] \/ (bs[j].type = OpenPGP /\ bs[j].fprs[1] = blob.fprs[1])
        BY <2>3, <2>6
    <2>9. QED BY <1>2, <2>5, <2>7, <2>8, Zenon DEF AddsTo
<1>8. QED BY <1>6, <1>7

\* The same of all that are added.
AddsAll(R, old, new, n, cs) ==
    /\ cs \in Seq(R) /\ Len(cs) >= Len(old)
    /\ \A j \in 1..Len(old) :
          \/ cs[j] = old[j]
          \/ \E i \in 1..n : old[j].type = OpenPGP /\ old[j].fprs[1] = new[i].fprs[1]

IsAdding(h, old, new, N) ==
    /\ AddAll(old, new) = h[N] /\ h[0] = old
    /\ \A k \in 1..N : h[k] = AddPublic(h[k - 1], new[k])

LEMMA AddAllLoop ==
    ASSUME NEW R, NEW old \in Seq(R), NEW N \in Nat, NEW new, Len(new) = N,
           \A k \in 1..N : new[k] \in R
    PROVE  \E h : IsAdding(h, old, new, N)
<1> DEFINE Nx(h, k) == IF k = 0 THEN old ELSE AddPublic(h[k - 1], new[k])
           G == CHOOSE f : f = [k \in 0..N |-> Nx(f, k)]
           turn == [k \in 1..N |-> [bs \in Seq(R) |-> AddPublic(bs, new[k])]]
<1>1. AddAll(old, new) = G[N]
    BY Zenon DEF AddAll
<1>2. turn \in [1..N -> [Seq(R) -> Seq(R)]]
    <2>1. \A k \in 1..N : \A bs \in Seq(R) : AddPublic(bs, new[k]) \in Seq(R)
        BY AddOne DEF AddsTo
    <2>2. QED BY <2>1
<1>3. PICK u : /\ u \in [0..N -> Seq(R)] /\ u[0] = old
               /\ \A k \in 1..N : u[k] = turn[k][u[k - 1]]
    <2> HIDE DEF turn
    <2>1. \E f : IsLoop(f, Seq(R), old, N, turn)
        BY <1>2, IterationExists
    <2>2. QED BY <2>1 DEF IsLoop
<1>4. \A k \in 1..N : k - 1 \in 0..N /\ k \in 0..N /\ k # 0
    OBVIOUS
<1>5. \A k \in 1..N : u[k] = AddPublic(u[k - 1], new[k])
    <2> SUFFICES ASSUME NEW k \in 1..N PROVE u[k] = AddPublic(u[k - 1], new[k])
        OBVIOUS
    <2>1. u[k - 1] \in Seq(R) /\ u[k] = turn[k][u[k - 1]]
        BY <1>3, <1>4
    <2>2. \A bs \in Seq(R) : turn[k][bs] = AddPublic(bs, new[k])
        OBVIOUS
    <2> HIDE DEF turn
    <2>3. QED BY <2>1, <2>2
<1>6. \A k \in 0..N : u[k] = Nx(u, k)
    <2>1. \A k \in 0..N : k = 0 \/ k \in 1..N
        OBVIOUS
    <2>2. QED BY <1>3, <1>4, <1>5, <2>1, Zenon
<1>7. u = [k \in 0..N |-> Nx(u, k)]
    <2> HIDE DEF Nx
    <2>1. u = [k \in 0..N |-> u[k]]
        BY <1>3
    <2>2. [k \in 0..N |-> u[k]] = [k \in 0..N |-> Nx(u, k)]
        BY <1>6
    <2>3. QED BY <2>1, <2>2
<1>8. G = [k \in 0..N |-> Nx(G, k)]
    <2> HIDE DEF Nx
    <2>1. QED BY <1>7
<1> HIDE DEF G
<1>9. \A k \in 0..N : G[k] = Nx(G, k)
    <2> HIDE DEF Nx
    <2>1. QED BY <1>8
<1>10. G[0] = old /\ \A k \in 1..N : G[k] = AddPublic(G[k - 1], new[k])
    <2>1. 0 \in 0..N
        OBVIOUS
    <2>2. QED BY <1>4, <1>9, <2>1, Zenon
<1>11. IsAdding(G, old, new, N)
    BY <1>1, <1>10, Zenon DEF IsAdding
<1>12. QED BY <1>11

LEMMA AddAllIs ==
    ASSUME NEW R, NEW old \in Seq(R), NEW N \in Nat, NEW new, Len(new) = N,
           \A k \in 1..N : new[k] \in R
    PROVE  AddsAll(R, old, new, N, AddAll(old, new))
<1>1. PICK h : /\ AddAll(old, new) = h[N] /\ h[0] = old
               /\ \A k \in 1..N : h[k] = AddPublic(h[k - 1], new[k])
    <2>1. PICK h : IsAdding(h, old, new, N)
        BY AddAllLoop
    <2>2. QED BY <2>1, Zenon DEF IsAdding
<1> DEFINE P == {k \in Nat : k <= N => AddsAll(R, old, new, k, h[k])}
<1>0. Len(old) \in Nat
    BY LenProperties
<1>2. 0 \in P
    <2>1. AddsAll(R, old, new, 0, old)
        <3>1. Len(old) >= Len(old)
            BY <1>0
        <3>2. QED BY <3>1, Zenon DEF AddsAll
    <2>2. QED BY <1>1, <2>1
<1>3. ASSUME NEW k \in Nat, k \in P PROVE k + 1 \in P
    <2> SUFFICES ASSUME k + 1 <= N PROVE AddsAll(R, old, new, k + 1, h[k + 1])
        OBVIOUS
    <2>1. PICK m, bs, cs : m = k + 1 /\ bs = h[k] /\ cs = h[m]
        OBVIOUS
    <2>2. m \in 1..N /\ m - 1 = k /\ k <= N
        BY <2>1
    <2>3. AddsAll(R, old, new, k, bs)
        BY <1>3, <2>1, <2>2
    <2>4. bs \in Seq(R) /\ Len(bs) >= Len(old)
          /\ \A j \in 1..Len(old) :
               \/ bs[j] = old[j]
               \/ \E i \in 1..k : old[j].type = OpenPGP /\ old[j].fprs[1] = new[i].fprs[1]
        BY <2>3, Zenon DEF AddsAll
    <2>5. cs = AddPublic(bs, new[m]) /\ new[m] \in R
        BY <1>1, <2>1, <2>2
    <2>6. AddsTo(R, bs, new[m], cs)
        BY <2>4, <2>5, AddOne
    <2>7. cs \in Seq(R) /\ Len(cs) >= Len(bs)
          /\ \A j \in 1..Len(bs) :
               \/ cs[j] = bs[j]
               \/ bs[j].type = OpenPGP /\ bs[j].fprs[1] = new[m].fprs[1]
        BY <2>6, Zenon DEF AddsTo
    <2>8. Len(bs) \in Nat /\ Len(cs) \in Nat
        BY <2>4, <2>7, LenProperties
    <2>9. Len(cs) >= Len(old) /\ \A j \in 1..Len(old) : j \in 1..Len(bs)
        BY <1>0, <2>4, <2>7, <2>8
    <2>10. m \in 1..m /\ \A i \in 1..k : i \in 1..m
        BY <2>2
    <2>11. ASSUME NEW j \in 1..Len(old)
           PROVE  \/ cs[j] = old[j]
                  \/ \E i \in 1..m : old[j].type = OpenPGP /\ old[j].fprs[1] = new[i].fprs[1]
        BY <2>4, <2>7, <2>9, <2>10
    <2>12. AddsAll(R, old, new, m, cs)
        BY <2>7, <2>9, <2>11, Zenon DEF AddsAll
    <2>13. QED BY <2>1, <2>12, Zenon
<1> HIDE DEF P
<1>4. N \in P
    BY <1>2, <1>3, NatSetInduction
<1>5. N <= N
    OBVIOUS
<1>6. QED BY <1>1, <1>4, <1>5 DEF P

-----------------------------------------------------------------------------
(* A list of blobs that can be read back.                                   *)

RawList(ss) ==
    /\ Len(ss) \in Nat /\ ss = [q \in 1..Len(ss) |-> ss[q]]
    /\ \A q \in 1..Len(ss) : \E u : IsRaw(ss[q], u)

AreFieldsOf(X, ss, pad) == Sized(X) /\ ss \in Seq(Seq(X)) /\ pad \in Seq(X)

LEMMA RawFields ==
    ASSUME NEW ss, RawList(ss), NEW pad, AreFields(pad)
    PROVE  \E X : AreFieldsOf(X, ss, pad)
<1>1. /\ Len(ss) \in Nat /\ ss = [q \in 1..Len(ss) |-> ss[q]]
      /\ \A q \in 1..Len(ss) : \E u : IsRaw(ss[q], u)
    BY Zenon DEF RawList
<1> DEFINE Of(raw) == {raw[j] : j \in 1..Len(raw)}
           All == {Of(ss[q]) : q \in 1..Len(ss)}
           X == (UNION All) \cup Of(pad)
<1>2. PICK Y : Sized(Y) /\ pad \in Seq(Y) /\ Y = {pad[j] : j \in 1..Len(pad)}
    BY FieldsAre
<1>9. Y = Of(pad)
    BY <1>2, Zenon
<1>3. ASSUME NEW q \in 1..Len(ss)
      PROVE  ss[q] \in Seq(Of(ss[q])) /\ Sized(Of(ss[q]))
    <2>1. PICK raw, u : raw = ss[q] /\ IsRaw(raw, u)
        BY <1>1
    <2>2. Spaced(raw, u)
        BY <2>1, Zenon DEF IsRaw
    <2>3. /\ Len(raw) \in Nat /\ raw = [j \in 1..Len(raw) |-> raw[j]]
          /\ \A j \in 0..Len(raw) : u[j] \in Nat
          /\ \A j, k \in 0..Len(raw) : j < k => u[j] < u[k]
          /\ \A j \in 1..Len(raw) :
                /\ j - 1 \in 0..Len(raw) /\ j \in 0..Len(raw)
                /\ raw[j] = [at |-> u[j - 1], size |-> u[j] - u[j - 1], val |-> raw[j].val]
        BY <2>2, Zenon DEF Spaced
    <2>4. raw \in Seq(Of(raw))
        BY <2>3, LenOfList
    <2>5. ASSUME NEW j \in 1..Len(raw) PROVE raw[j].size \in Nat \ {0}
        <3>1. PICK a, b, f : a = u[j - 1] /\ b = u[j] /\ f = raw[j]
            OBVIOUS
        <3>2. j - 1 < j
            BY <2>3
        <3>3. a \in Nat /\ b \in Nat /\ a < b
            BY <2>3, <3>1, <3>2
        <3>4. f = [at |-> a, size |-> b - a, val |-> f.val]
            BY <2>3, <3>1, Zenon
        <3>5. f.size = b - a
            BY <3>4
        <3>6. QED BY <3>1, <3>3, <3>5
    <2>6. Sized(Of(raw))
        BY <2>5 DEF Sized
    <2>7. QED BY <2>1, <2>4, <2>6, Zenon
<1>4. Sized(X)
    <2> HIDE DEF Of
    <2>3. \A A \in All : \E q \in 1..Len(ss) : A = Of(ss[q])
        OBVIOUS
    <2> HIDE DEF All
    <2>4. \A f \in X : f \in Y \/ \E A \in All : f \in A
        BY <1>9
    <2>1. \A f \in X : f \in Y \/ \E q \in 1..Len(ss) : f \in Of(ss[q])
        BY <2>3, <2>4
    <2> HIDE DEF X
    <2>2. QED BY <1>2, <1>3, <2>1, Zenon DEF Sized
<1>5. \A q \in 1..Len(ss) : ss[q] \in Seq(X)
    <2>1. \A q \in 1..Len(ss) : Of(ss[q]) \subseteq X
        OBVIOUS
    <2> HIDE DEF X, Of
    <2>2. ASSUME NEW q \in 1..Len(ss) PROVE ss[q] \in Seq(X)
        <3>1. PICK raw, A : raw = ss[q] /\ A = Of(ss[q])
            OBVIOUS
        <3>2. raw \in Seq(A) /\ A \subseteq X
            BY <1>3, <2>1, <3>1, Zenon
        <3>3. raw \in Seq(X)
            BY <3>2
        <3>4. QED BY <3>1, <3>3
    <2>3. QED BY <2>2
<1>6. pad \in Seq(X)
    <2> HIDE DEF Of, All
    <2>1. Y \subseteq X
        BY <1>9
    <2> HIDE DEF X
    <2>2. QED BY <1>2, <2>1
<1> HIDE DEF X
<1>7. ss \in Seq(Seq(X))
    <2>1. PICK N : N = Len(ss)
        OBVIOUS
    <2>2. N \in Nat /\ ss = [q \in 1..N |-> ss[q]] /\ \A q \in 1..N : ss[q] \in Seq(X)
        BY <1>1, <1>5, <2>1, Zenon
    <2>3. QED BY <2>2, Chunks
<1>8. QED BY <1>4, <1>6, <1>7, Zenon DEF AreFieldsOf

LEMMA RawsRead ==
    ASSUME NEW ss, RawList(ss)
    PROVE  \E bs : AreRaws(ss, bs)
<1>1. \A q \in 1..Len(ss) : \E u : IsRaw(ss[q], u)
    BY Zenon DEF RawList
<1>2. \A q \in 1..Len(ss) : \E b : ReadAs(ss[q], b)
    BY <1>1, RawReads
<1> DEFINE bs == [q \in 1..Len(ss) |-> CHOOSE b : ReadAs(ss[q], b)]
<1>3. \A q \in 1..Len(ss) : ReadAs(ss[q], bs[q])
    BY <1>2
<1>4. AreRaws(ss, bs)
    <2> HIDE DEF bs
    <2>1. QED BY <1>1, <1>3, Zenon DEF AreRaws
<1>5. QED BY <1>4

\* Blobs with a header in front can be read if each of them can.
LEMMA HeadedRaws ==
    ASSUME NEW R, \A r \in R : \E u : IsRaw(r.raw, u), NEW bs \in Seq(R)
    PROVE  RawList(Raws(Headed(bs)))
<1>1. PICK h : h = Opaque(1, HeaderBlob)
    OBVIOUS
<1>2. h.raw = HeaderBlob
    BY <1>1 DEF Opaque
<1>3. PICK T : T = R \cup {h}
    OBVIOUS
<1>4. \A r \in T : \E u : IsRaw(r.raw, u)
    BY <1>2, <1>3, HeaderIsRaw
<1>5. bs \in Seq(T) /\ << h >> \in Seq(T)
    BY <1>3
<1>6. PICK hs : hs = Headed(bs)
    OBVIOUS
<1>7. hs = bs \/ hs = << h >> \o bs
    BY <1>1, <1>6, Zenon DEF Headed
<1>8. hs \in Seq(T)
    BY <1>5, <1>7, ConcatProperties
<1>9. Len(hs) \in Nat /\ DOMAIN hs = 1..Len(hs) /\ \A j \in 1..Len(hs) : hs[j] \in T
    BY <1>8, LenProperties
<1>10. PICK N, ss : N = Len(hs) /\ ss = Raws(hs)
    OBVIOUS
<1>11. N \in Nat /\ ss = [j \in 1..N |-> hs[j].raw]
    BY <1>9, <1>10, Zenon DEF Raws
<1>12. ss = [j \in 1..N |-> ss[j]] /\ \A j \in 1..N : ss[j] = hs[j].raw
    BY <1>11
<1>13. Len(ss) = N
    BY <1>11, <1>12, LenOfList
<1>14. \A q \in 1..N : \E u : IsRaw(ss[q], u)
    BY <1>4, <1>9, <1>10, <1>12
<1>15. RawList(ss)
    BY <1>11, <1>12, <1>13, <1>14, Zenon DEF RawList
<1>16. QED BY <1>6, <1>10, <1>15, Zenon

LEMMA NoPadding == AreFields(<< >>)
    BY DEF AreFields, IsList

\* How long a file of such blobs is.
LEMMA FileLength ==
    ASSUME NEW bs, RawList(Raws(Headed(bs)))
    PROVE  FileOf(bs).to \in Nat
<1>1. PICK ss, fs : ss = Raws(Headed(bs)) /\ fs = FlattenSeq(ss)
    OBVIOUS
<1>2. PICK X : AreFieldsOf(X, ss, << >>)
    BY <1>1, NoPadding, RawFields
<1>3. Sized(X) /\ ss \in Seq(Seq(X))
    BY <1>2, Zenon DEF AreFieldsOf
<1>4. fs \in Seq(X)
    BY <1>1, <1>3, FlattenFacts
<1>5. PICK e : e = Ends(fs)
    OBVIOUS
<1>6. Laid(fs).to = e[Len(fs)] /\ Run(e, fs)
    BY <1>3, <1>4, <1>5, LaidSpaced, EndsIs, Zenon
<1>7. Len(fs) \in 0..Len(fs)
    <2>1. Len(fs) \in Nat
        BY <1>4, LenProperties
    <2>2. QED BY <2>1
<1>8. e[Len(fs)] \in Nat
    BY <1>6, <1>7 DEF Run
<1>9. QED BY <1>1, <1>6, <1>8, Zenon DEF FileOf

-----------------------------------------------------------------------------
(* A save, whole or cut off, and what is read of it.                        *)

\* The keybox that a command finds, and what it reads of it.
Found0(x) == Laid(FlattenSeq(x.box) \o x.padding)

LEMMA ImportIs ==
    ASSUME NEW x \in Imports
    PROVE  /\ IsStream(x.block) /\ x.fprSize \in {20, 32} /\ RawList(x.box) /\ AreFields(x.padding)
           /\ x.padding # << >> => x.padding[1].size = 4 /\ x.padding[1].val = 0
           /\ DOMAIN x.box = 1..Len(x.box)
           /\ \A j \in 1..Len(x.box) : BoxBlob(x.box[j], Ends(x.box[j]))
<1>1. /\ IsStream(x.block) /\ x.fprSize \in {20, 32}
      /\ IsList(x.box) /\ \A j \in DOMAIN x.box : AreFields(x.box[j]) /\ IsBlob(x.box[j])
      /\ AreFields(x.padding)
      /\ x.padding # <<>> => x.padding[1].size = 4 /\ x.padding[1].val = 0
    BY ImportsAssumption, Zenon
<1>2. PICK box : box = x.box
    OBVIOUS
<1>3. Len(box) \in Nat /\ box = [j \in 1..Len(box) |-> box[j]]
    BY <1>1, <1>2, Zenon DEF IsList
<1>4. DOMAIN box = 1..Len(box)
    BY <1>3, LenOfList
<1>5. ASSUME NEW j \in 1..Len(box) PROVE BoxBlob(box[j], Ends(box[j]))
    <2>1. PICK raw : raw = box[j]
        OBVIOUS
    <2>2. AreFields(raw) /\ IsBlob(raw)
        BY <1>1, <1>2, <1>4, <2>1, Zenon
    <2>3. BoxBlob(raw, Ends(raw))
        BY <2>2, BlobOfBox
    <2>4. QED BY <2>1, <2>3, Zenon
<1>6. \A j \in 1..Len(box) : \E u : IsRaw(box[j], u)
    BY <1>5, Zenon DEF BoxBlob
<1>7. RawList(box)
    BY <1>3, <1>6, Zenon DEF RawList
<1>8. QED BY <1>1, <1>2, <1>4, <1>5, <1>7, Zenon

\* One entry for each blob of the keybox, with its bytes, and of a key with its fingerprint.
ReadOf(box, old) ==
    /\ Len(old) = Len(box) /\ old = [q \in 1..Len(box) |-> old[q]]
    /\ \A q \in 1..Len(box) :
          /\ old[q].raw = box[q] /\ \E u : IsRaw(old[q].raw, u)
          /\ old[q].type = OpenPGP => old[q].fprs[1] = box[q][9].val

LEMMA BoxIsRead ==
    ASSUME NEW x \in Imports, NEW old, old = Parse(Found0(x).fields, Found0(x).to)
    PROVE  ReadOf(x.box, old)
<1>1. PICK box, pad, fs : box = x.box /\ pad = x.padding /\ fs = FlattenSeq(box) \o pad
    OBVIOUS
<1>2. /\ RawList(box) /\ AreFields(pad)
      /\ pad # << >> => pad[1].size = 4 /\ pad[1].val = 0
      /\ \A j \in 1..Len(box) : BoxBlob(box[j], Ends(box[j]))
    BY <1>1, ImportIs, Zenon
<1>3. PICK X : AreFieldsOf(X, box, pad)
    BY <1>2, RawFields
<1>4. Sized(X) /\ box \in Seq(Seq(X)) /\ pad \in Seq(X)
    BY <1>3, Zenon DEF AreFieldsOf
<1>5. PICK bs : AreRaws(box, bs)
    BY <1>2, RawsRead
<1>6. Parse(Laid(fs).fields, Laid(fs).to) = [q \in 1..Len(box) |-> bs[q]]
    <2>1. fs = FlattenSeq(box) \o pad
        BY <1>1
    <2>2. PadOf(pad)
        BY <1>2, Zenon DEF PadOf
    <2>3. ReadWhole(fs, box, bs)
        BY <1>4, <1>5, <2>1, <2>2, WholeBoxRead
    <2>4. QED BY <2>3, Zenon DEF ReadWhole
<1>7. old = [q \in 1..Len(box) |-> bs[q]]
    BY <1>1, <1>6, Zenon DEF Found0
<1>8. Len(box) \in Nat
    BY <1>2, Zenon DEF RawList
<1>9. old = [q \in 1..Len(box) |-> old[q]] /\ \A q \in 1..Len(box) : old[q] = bs[q]
    BY <1>7
<1>10. Len(old) = Len(box)
    BY <1>8, <1>9, LenOfList
<1>11. ASSUME NEW q \in 1..Len(box)
       PROVE  /\ old[q].raw = box[q] /\ \E u : IsRaw(old[q].raw, u)
              /\ old[q].type = OpenPGP => old[q].fprs[1] = box[q][9].val
    <2>1. PICK raw, b : raw = box[q] /\ b = old[q]
        OBVIOUS
    <2>2. ReadAs(raw, b) /\ (\E u : IsRaw(raw, u)) /\ BoxBlob(raw, Ends(raw))
        BY <1>2, <1>5, <1>9, <2>1, Zenon DEF AreRaws
    <2>3. b.raw = raw
        BY <2>2, Zenon DEF ReadAs
    <2>4. b.type = OpenPGP => b.fprs[1] = raw[9].val
        BY <2>2, FirstOfBox
    <2>5. \E u : IsRaw(b.raw, u)
        BY <2>2, <2>3
    <2>6. QED BY <2>1, <2>3, <2>4, <2>5, Zenon
<1>12. ReadOf(box, old)
    BY <1>9, <1>10, <1>11, Zenon DEF ReadOf
<1>13. QED BY <1>1, <1>12, Zenon

\* What can be saved of them and of the keys of a block.
Stored(box, ks, bs) ==
    /\ RawList(Raws(Headed(bs)))
    /\ \A j \in DOMAIN box :
          \/ bs[j].raw = box[j]
          \/ \E k \in DOMAIN ks : FprOf(ks[k]) = box[j][9].val

IsNew(ks, fprSize, new) ==
    /\ Len(ks) \in Nat /\ DOMAIN ks = 1..Len(ks)
    /\ Len(new) = Len(ks) /\ DOMAIN new = 1..Len(ks)
    /\ \A k \in 1..Len(ks) :
          /\ IsKeyBlock(ks[k])
          /\ new[k].raw = NewOpenPGPBlob(ks[k], fprSize)
          /\ new[k].raw # Refused => new[k].fprs[1] = FprOf(ks[k])

LEMMA NewBlobs ==
    ASSUME NEW ks, AreKeys(ks), NEW new, new = BlobsOf(ks)
    PROVE  IsNew(ks, import.fprSize, new)
<1>1. /\ Len(ks) \in Nat /\ DOMAIN ks = 1..Len(ks)
      /\ \A k \in 1..Len(ks) : IsKeyBlock(ks[k])
    BY Zenon DEF AreKeys
<1>2. PICK N, size : N = Len(ks) /\ size = import.fprSize
    OBVIOUS
<1> DEFINE raw(k) == NewOpenPGPBlob(ks[k], size)
           one(k) == [type |-> OpenPGP, raw |-> raw(k), keyblock |-> Walk(ks[k]),
                      fprs |-> IF raw(k) = Refused THEN <<>> ELSE Fingerprints(Walk(ks[k]))]
<1>3. new = [k \in 1..N |-> one(k)]
    BY <1>1, <1>2, Zenon DEF BlobsOf, EntryFor
<1>4. ASSUME NEW k \in 1..N
      PROVE  /\ new[k].raw = raw(k)
             /\ raw(k) # Refused => new[k].fprs = Fingerprints(Walk(ks[k]))
    <2>1. PICK r, w, f : /\ r = raw(k) /\ w = Walk(ks[k])
                         /\ f = IF r = Refused THEN <<>> ELSE Fingerprints(w)
        OBVIOUS
    <2>2. new[k] = [type |-> OpenPGP, raw |-> r, keyblock |-> w, fprs |-> f]
        <3> HIDE DEF raw
        <3>1. QED BY <1>3, <2>1
    <2>3. new[k].raw = r /\ new[k].fprs = f
        BY <2>2
    <2>4. QED BY <2>1, <2>3
<1>5. N \in Nat /\ new = [k \in 1..N |-> new[k]]
    <2> HIDE DEF one
    <2>1. QED BY <1>1, <1>2, <1>3
<1>6. Len(new) = N /\ DOMAIN new = 1..N
    BY <1>5, LenOfList
<1>7. ASSUME NEW k \in 1..N, new[k].raw # Refused
      PROVE  new[k].fprs[1] = FprOf(ks[k])
    <2>1. PICK kb : kb = ks[k]
        OBVIOUS
    <2>2. IsKeyBlock(kb)
        BY <1>1, <1>2, <2>1, Zenon
    <2>3. Fingerprints(Walk(kb))[1] = FprOf(kb)
        BY <2>2, FirstFingerprint
    <2>4. new[k].fprs = Fingerprints(Walk(ks[k]))
        <3> HIDE DEF raw
        <3>1. QED BY <1>4, <1>7
    <2>5. QED BY <2>1, <2>3, <2>4, Zenon
<1>8. QED BY <1>1, <1>2, <1>4, <1>6, <1>7, Zenon DEF IsNew

LEMMA AllStored ==
    ASSUME NEW box, NEW old, ReadOf(box, old), Len(box) \in Nat, DOMAIN box = 1..Len(box),
           NEW ks, NEW fprSize \in {20, 32}, NEW new, IsNew(ks, fprSize, new),
           \A k \in DOMAIN new : new[k].raw # Refused
    PROVE  Stored(box, ks, AddAll(old, new))
<1>1. PICK M, N : M = Len(box) /\ N = Len(ks)
    OBVIOUS
<1>2. /\ M \in Nat /\ Len(old) = M /\ old = [q \in 1..M |-> old[q]]
      /\ \A q \in 1..M :
          /\ old[q].raw = box[q] /\ \E u : IsRaw(old[q].raw, u)
          /\ old[q].type = OpenPGP => old[q].fprs[1] = box[q][9].val
    BY <1>1, Zenon DEF ReadOf
<1>3. /\ N \in Nat /\ DOMAIN ks = 1..N /\ Len(new) = N /\ DOMAIN new = 1..N
      /\ \A k \in 1..N :
          /\ IsKeyBlock(ks[k])
          /\ new[k].raw = NewOpenPGPBlob(ks[k], fprSize)
          /\ new[k].raw # Refused => new[k].fprs[1] = FprOf(ks[k])
    BY <1>1, Zenon DEF IsNew
<1> DEFINE R == {old[q] : q \in 1..M} \cup {new[k] : k \in 1..N}
<1>4. ASSUME NEW k \in 1..N PROVE \E u : IsRaw(new[k].raw, u)
    <2>1. PICK kb, raw : kb = ks[k] /\ raw = new[k].raw
        OBVIOUS
    <2>2. IsKeyBlock(kb) /\ raw = NewOpenPGPBlob(kb, fprSize) /\ raw # Refused
        BY <1>3, <2>1, Zenon
    <2>3. \E u : IsRaw(raw, u)
        BY <2>2, BlobIsRaw
    <2>4. QED BY <2>1, <2>3, Zenon
<1>5. \A r \in R : \E u : IsRaw(r.raw, u)
    BY <1>2, <1>4
<1>6. old \in Seq(R)
    <2>1. old \in Seq({old[q] : q \in 1..M})
        BY <1>2, LenOfList
    <2>2. {old[q] : q \in 1..M} \subseteq R
        OBVIOUS
    <2> HIDE DEF R
    <2>3. QED BY <2>1, <2>2
<1>7. \A k \in 1..N : new[k] \in R
    OBVIOUS
<1> HIDE DEF R
<1>8. PICK bs : bs = AddAll(old, new)
    OBVIOUS
<1>9. AddsAll(R, old, new, N, bs)
    BY <1>3, <1>6, <1>7, <1>8, AddAllIs
<1>10. /\ bs \in Seq(R)
       /\ \A j \in 1..M :
             \/ bs[j] = old[j]
             \/ \E i \in 1..N : old[j].type = OpenPGP /\ old[j].fprs[1] = new[i].fprs[1]
    BY <1>2, <1>9, Zenon DEF AddsAll
<1>11. RawList(Raws(Headed(bs)))
    BY <1>5, <1>10, HeadedRaws
<1>12. ASSUME NEW j \in 1..M
       PROVE  \/ bs[j].raw = box[j]
              \/ \E k \in 1..N : FprOf(ks[k]) = box[j][9].val
    <2>1. CASE bs[j] = old[j]
        BY <1>2, <2>1
    <2>2. CASE \E i \in 1..N : old[j].type = OpenPGP /\ old[j].fprs[1] = new[i].fprs[1]
        <3>1. PICK i \in 1..N : old[j].type = OpenPGP /\ old[j].fprs[1] = new[i].fprs[1]
            BY <2>2
        <3>2. new[i].fprs[1] = FprOf(ks[i])
            BY <1>3
        <3>3. old[j].fprs[1] = box[j][9].val
            BY <1>2, <3>1
        <3>4. FprOf(ks[i]) = box[j][9].val
            BY <3>1, <3>2, <3>3
        <3>5. QED BY <3>4
    <2>3. QED BY <1>10, <2>1, <2>2
<1>13. QED BY <1>1, <1>3, <1>8, <1>11, <1>12, Zenon DEF Stored

\* The blobs read of a file that may have been cut off are those before the cut.
CutIs(ss, to, read) ==
    LET whole == {m \in 0..Len(ss) : to = Bytesize(FlattenSeq(SubSeq(ss, 1, m)))}
    IN  IF whole = {} THEN read = Refused ELSE Raws(read) = SubSeq(ss, 1, Max(whole))

LEMMA CutReadRaws ==
    ASSUME NEW ss, RawList(ss), NEW bs, AreRaws(ss, bs), NEW to, NEW read,
           CutRead(ss, bs, to, read)
    PROVE  CutIs(ss, to, read)
<1> DEFINE whole == {m \in 0..Len(ss) : to = Bytesize(FlattenSeq(SubSeq(ss, 1, m)))}
<1>1. IF whole = {} THEN read = Refused
      ELSE Max(whole) \in 0..Len(ss) /\ read = [q \in 1..Max(whole) |-> bs[q]]
    BY Zenon DEF CutRead
<1>2. (IF whole = {} THEN read = Refused ELSE Raws(read) = SubSeq(ss, 1, Max(whole)))
        => CutIs(ss, to, read)
    BY Zenon DEF CutIs
<1> HIDE DEF whole
<1>3. CASE whole = {}
    BY <1>1, <1>2, <1>3
<1>4. CASE whole # {}
    <2>1. PICK m : m = Max(whole)
        OBVIOUS
    <2>2. m \in 0..Len(ss) /\ read = [q \in 1..m |-> bs[q]]
        BY <1>1, <1>4, <2>1
    <2>3. Len(ss) \in Nat /\ \A q \in 1..Len(ss) : ReadAs(ss[q], bs[q])
        BY Zenon DEF RawList, AreRaws
    <2>4. m \in Nat /\ \A q \in 1..m : q \in 1..Len(ss)
        BY <2>2, <2>3
    <2>5. \A q \in 1..m : bs[q].raw = ss[q]
        BY <2>3, <2>4, Zenon DEF ReadAs
    <2>6. DOMAIN read = 1..m /\ \A q \in 1..m : read[q] = bs[q]
        BY <2>2
    <2>7. Raws(read) = [q \in 1..m |-> ss[q]]
        <3>1. Raws(read) = [q \in 1..m |-> read[q].raw]
            BY <2>6, Zenon DEF Raws
        <3>2. \A q \in 1..m : read[q].raw = ss[q]
            BY <2>5, <2>6
        <3>3. QED BY <3>1, <3>2
    <2>8. SubSeq(ss, 1, m) = [q \in 1..m |-> ss[q]]
        BY <2>4, FirstOf
    <2>9. Raws(read) = SubSeq(ss, 1, Max(whole))
        BY <2>1, <2>7, <2>8
    <2>10. QED BY <1>2, <1>4, <2>9
<1>5. QED BY <1>3, <1>4

\* What a save that may be cut off leaves of a file.
CutOff(d, file) == d.fields = file.fields /\ d.to \in Nat /\ d.to <= file.to

LEMMA CutFileRead ==
    ASSUME NEW bs, RawList(Raws(Headed(bs))), NEW d, CutOff(d, FileOf(bs))
    PROVE  CutIs(Raws(Headed(bs)), d.to, Parse(d.fields, d.to))
<1>1. PICK ss, fs : ss = Raws(Headed(bs)) /\ fs = FlattenSeq(ss)
    OBVIOUS
<1>2. PICK pad : pad = << >>
    OBVIOUS
<1>3. RawList(ss) /\ AreFields(pad)
    BY <1>1, <1>2, NoPadding
<1>4. PICK X : AreFieldsOf(X, ss, pad)
    BY <1>3, RawFields
<1>5. Sized(X) /\ ss \in Seq(Seq(X))
    BY <1>4, Zenon DEF AreFieldsOf
<1>6. PICK rs : AreRaws(ss, rs)
    BY <1>3, RawsRead
<1>7. PICK to, read : to = d.to /\ read = Parse(Laid(fs).fields, to)
    OBVIOUS
<1>8. FileOf(bs) = Laid(fs)
    BY <1>1, Zenon DEF FileOf
<1>9. to \in Nat /\ to <= Laid(fs).to /\ read = Parse(d.fields, d.to)
    BY <1>7, <1>8, Zenon DEF CutOff
<1>10. CutRead(ss, rs, to, Parse(Laid(fs).fields, to))
    BY <1>1, <1>5, <1>6, <1>9, CutBoxRead
<1>11. CutIs(ss, to, read)
    BY <1>3, <1>6, <1>7, <1>10, CutReadRaws, Zenon
<1>12. QED BY <1>1, <1>7, <1>9, <1>11, Zenon

LEMMA CutOfFile ==
    ASSUME NEW bs, FileOf(bs).to \in Nat, NEW to,
           to \in 0..FileOf(bs).to - 1 \/ to = FileOf(bs).to
    PROVE  CutOff([FileOf(bs) EXCEPT !.to = to], FileOf(bs))
<1>1. PICK a, b : FileOf(bs) = [to |-> a, fields |-> b]
    BY DEF FileOf, Laid
<1>2. PICK file, d : file = FileOf(bs) /\ d = [FileOf(bs) EXCEPT !.to = to]
    OBVIOUS
<1>3. file = [to |-> a, fields |-> b] /\ d = [to |-> to, fields |-> b]
    BY <1>1, <1>2
<1>4. d.fields = file.fields /\ d.to = to /\ file.to = a
    BY <1>3
<1>5. a \in Nat /\ (to \in 0..a - 1 \/ to = a)
    BY <1>2, <1>4
<1>6. to \in Nat /\ to <= a
    BY <1>5
<1>7. QED BY <1>2, <1>4, <1>6, Zenon DEF CutOff

\* What the keybox is at each step: until something is saved, what was found; then
\* what was to be saved, the whole or the part that a save cut off has left.
SaveInv ==
    /\ packets \in Seq(Sound) \cup {Refused}
    /\ AreKeys(keys)
    /\ pc \notin {"saved", "opened"} => blobs = << >> /\ disk = Found0(import)
    /\ blobs # << >> => /\ Stored(import.box, keys, blobs)
                        /\ CutOff(disk, FileOf(blobs))
    /\ pc = "opened" => listed = Parse(disk.fields, disk.to)

LEMMA SaveInit == Init => SaveInv
<1> SUFFICES ASSUME Init PROVE SaveInv
    OBVIOUS
<1>1. /\ pc = "parse" /\ packets = << >> /\ keys = << >> /\ blobs = << >>
      /\ disk = Laid(FlattenSeq(import.box) \o import.padding)
    BY Zenon DEF Init
<1>2. disk = Found0(import)
    BY <1>1, Zenon DEF Found0
<1>3. packets \in Seq(Sound) /\ pc # "opened"
    BY <1>1
<1>4. AreKeys(keys)
    <2>1. Len(keys) = 0 /\ DOMAIN keys = 1..0 /\ 1..0 = {}
        BY <1>1
    <2>2. QED BY <2>1 DEF AreKeys
<1>5. QED BY <1>1, <1>2, <1>3, <1>4, Zenon DEF SaveInv

LEMMA ParsingSaves == BlockInv /\ SaveInv /\ (StrictParse \/ Repair \/ Retry) => SaveInv'
<1> SUFFICES ASSUME BlockInv, SaveInv, StrictParse \/ Repair \/ Retry PROVE SaveInv'
    OBVIOUS
<1>1. /\ import' = import /\ blobs' = blobs /\ disk' = disk
      /\ pc \in {"parse", "repair", "retry"}
    <2>1. import' = import /\ blobs' = blobs /\ disk' = disk
        BY Zenon DEF StrictParse, Repair, Retry
    <2>2. pc = "parse" \/ pc = "repair" \/ pc = "retry"
        BY Zenon DEF StrictParse, Repair, Retry
    <2>3. QED BY <2>1, <2>2
<1>2. pc' \in {"parsed", "repair", "retry", "failed"}
    <2>1. pc' = "parsed" \/ pc' = "repair" \/ pc' = "retry" \/ pc' = "failed"
        BY Zenon DEF StrictParse, Repair, Retry
    <2>2. QED BY <2>1
<1>3. blobs = << >> /\ disk = Found0(import)
    <2>1. pc \notin {"saved", "opened"}
        BY <1>1
    <2>2. QED BY <2>1, Zenon DEF SaveInv
<1>4. import \in Imports /\ packets \in Seq(Sound) \cup {Refused}
    BY Zenon DEF BlockInv, SaveInv
<1>5. packets' \in Seq(Sound) \cup {Refused}
    <2>1. CASE StrictParse
        <3>1. packets' = Walk(import.block)
            BY <2>1, Zenon DEF StrictParse
        <3>2. IsStream(import.block)
            BY <1>4, ImportsAssumption, Zenon
        <3>3. Walk(import.block) \in Seq(Sound) \cup {Refused}
            BY <3>2, WalkSound
        <3>4. QED BY <3>1, <3>3, Zenon
    <2>2. CASE Repair
        <3>1. CASE packets' = packets
            BY <1>4, <3>1, Zenon
        <3>2. CASE packets' # packets
            <4>1. packets # Refused /\ packets' = Sanitized(packets).kept
                BY <2>2, <3>2, Zenon DEF Repair
            <4>2. packets \in Seq(Sound) /\ packets \in Seq(Packets)
                <5>1. packets \in Seq(Sound)
                    BY <1>4, <4>1
                <5>2. packets \in Seq(Packets) \cup {Refused}
                    BY Zenon DEF BlockInv
                <5>3. QED BY <4>1, <5>1, <5>2
            <4>3. PICK st : st = Sanitized(packets)
                OBVIOUS
            <4>4. st.kept = FlattenSeq(Placed(packets))
                BY <4>2, <4>3, SanitizedIs
            <4>5. FlattenSeq(Placed(packets)) \in Seq(Sound)
                BY <4>2, PlacedSound
            <4>6. QED BY <4>1, <4>3, <4>4, <4>5, Zenon
        <3>3. QED BY <3>1, <3>2
    <2>3. CASE Retry
        <3>1. packets' = packets
            BY <2>3, Zenon DEF Retry
        <3>2. QED BY <1>4, <3>1, Zenon
    <2>4. QED BY <2>1, <2>2, <2>3
<1>6. pc' \notin {"saved", "opened"} /\ pc' # "opened"
    BY <1>2
<1>7. blobs' = << >> /\ disk' = Found0(import')
    BY <1>1, <1>3, Zenon
<1>8. AreKeys(keys')
    <2>1. CASE keys' = keys
        BY <2>1, Zenon DEF SaveInv
    <2>2. CASE StrictParse /\ keys' # keys
        <3>1. keys' \in Readings(LibraryPackets(import.block))
            BY <2>2, Zenon DEF StrictParse
        <3>2. IsStream(import.block) /\ FourFit(import.block.len)
            BY <1>4, ImportsAssumption, Zenon DEF FourFit
        <3>3. LibraryPackets(import.block) \in Seq(Sound)
            BY <3>2, LibrarySound
        <3>4. QED BY <3>1, <3>3, ReadingsAre
    <2>3. CASE Repair
        BY <2>1, <2>3, Zenon DEF Repair
    <2>4. CASE Retry /\ keys' # keys
        <3>1. keys' \in Readings(packets) /\ pc = "retry"
            BY <2>4, Zenon DEF Retry
        <3>2. Walk(import.block) # Refused /\ packets = FlattenSeq(Placed(Walk(import.block)))
            BY <3>1, Zenon DEF BlockInv
        <3>3. Walk(import.block) \in Seq(Sound) \cup {Refused}
            BY <1>4, ImportsAssumption, WalkSound, Zenon
        <3>4. Walk(import.block) \in Seq(Sound)
            BY <3>2, <3>3
        <3>5. packets \in Seq(Sound)
            BY <3>2, <3>4, PlacedSound, Zenon
        <3>6. QED BY <3>1, <3>5, ReadingsAre
    <2>5. QED BY <2>1, <2>2, <2>3, <2>4
<1>9. QED BY <1>5, <1>6, <1>7, <1>8, Zenon DEF SaveInv

LEMMA SaveSaves == BlockInv /\ SaveInv /\ Save => SaveInv'
<1> SUFFICES ASSUME BlockInv, SaveInv, Save PROVE SaveInv'
    OBVIOUS
<1>1. PICK old, new : old = Parse(disk.fields, disk.to) /\ new = BlobsOf(keys)
    OBVIOUS
<1>2. /\ pc = "parsed" /\ import' = import /\ packets' = packets /\ keys' = keys
      /\ IF old = Refused \/ \E k \in DOMAIN new : new[k].raw = Refused
           THEN pc' = "refused" /\ blobs' = blobs /\ disk' = disk
           ELSE /\ blobs' = AddAll(old, new) /\ pc' = "saved"
                /\ \E to \in CutPoints(FileOf(blobs')) \cup {FileOf(blobs').to} :
                      disk' = [FileOf(blobs') EXCEPT !.to = to]
    BY <1>1, Zenon DEF Save
<1>3. /\ import \in Imports /\ AreKeys(keys)
      /\ packets' \in Seq(Sound) \cup {Refused} /\ AreKeys(keys')
    BY <1>2, Zenon DEF BlockInv, SaveInv
<1>4. blobs = << >> /\ disk = Found0(import)
    <2>1. pc \notin {"saved", "opened"}
        BY <1>2
    <2>2. QED BY <2>1, Zenon DEF SaveInv
<1>5. CASE old = Refused \/ \E k \in DOMAIN new : new[k].raw = Refused
    <2>1. pc' = "refused" /\ blobs' = << >> /\ disk' = Found0(import')
        BY <1>2, <1>4, <1>5, Zenon
    <2>2. pc' # "opened"
        BY <2>1
    <2>3. QED BY <1>3, <2>1, <2>2, Zenon DEF SaveInv
<1>6. CASE ~(old = Refused \/ \E k \in DOMAIN new : new[k].raw = Refused)
    <2>1. /\ blobs' = AddAll(old, new) /\ pc' = "saved"
          /\ \E to \in CutPoints(FileOf(blobs')) \cup {FileOf(blobs').to} :
                disk' = [FileOf(blobs') EXCEPT !.to = to]
          /\ \A k \in DOMAIN new : new[k].raw # Refused
        BY <1>2, <1>6, Zenon
    <2>2. PICK box, fprSize : box = import.box /\ fprSize = import.fprSize
        OBVIOUS
    <2>3. fprSize \in {20, 32} /\ RawList(box) /\ DOMAIN box = 1..Len(box)
        BY <1>3, <2>2, ImportIs, Zenon
    <2>4. ReadOf(box, old)
        <3>1. old = Parse(Found0(import).fields, Found0(import).to)
            BY <1>1, <1>4, Zenon
        <3>2. ReadOf(import.box, old)
            BY <1>3, <3>1, BoxIsRead
        <3>3. QED BY <2>2, <3>2, Zenon
    <2>5. IsNew(keys, fprSize, new)
        BY <1>1, <1>3, <2>2, NewBlobs
    <2>6. Len(box) \in Nat
        BY <2>3, Zenon DEF RawList
    <2>7. Stored(box, keys, AddAll(old, new))
        BY <2>1, <2>3, <2>4, <2>5, <2>6, AllStored
    <2>8. PICK bs : bs = blobs'
        OBVIOUS
    <2>9. Stored(box, keys, bs)
        BY <2>1, <2>7, <2>8, Zenon
    <2>10. RawList(Raws(Headed(bs)))
        BY <2>9, Zenon DEF Stored
    <2>11. FileOf(bs).to \in Nat
        BY <2>10, FileLength
    <2>12. PICK to : /\ to \in CutPoints(FileOf(bs)) \cup {FileOf(bs).to}
                     /\ disk' = [FileOf(bs) EXCEPT !.to = to]
        BY <2>1, <2>8, Zenon
    <2>13. to \in 0..FileOf(bs).to - 1 \/ to = FileOf(bs).to
        <3>1. PICK file : file = FileOf(bs)
            OBVIOUS
        <3>2. CutPoints(file) \subseteq 0..file.to - 1
            <4> DEFINE P == {file.fields[j].at + d : j \in {k \in DOMAIN file.fields : file.fields[k].size = 1},
                                                     d \in import.cuts}
            <4>1. CutPoints(file) = P \cap (0..file.to - 1)
                BY DEF CutPoints
            <4> HIDE DEF P
            <4>2. QED BY <4>1, Zenon
        <3>3. to \in CutPoints(file) \/ to = file.to
            BY <2>12, <3>1
        <3>4. to \in 0..file.to - 1 \/ to = file.to
            BY <3>2, <3>3
        <3>5. QED BY <3>1, <3>4, Zenon
    <2>14. CutOff([FileOf(bs) EXCEPT !.to = to], FileOf(bs))
        BY <2>11, <2>13, CutOfFile
    <2>15. CutOff(disk', FileOf(blobs'))
        BY <2>8, <2>12, <2>14, Zenon
    <2>16. Stored(import'.box, keys', blobs')
        BY <1>2, <2>2, <2>8, <2>9, Zenon
    <2>17. pc' \in {"saved", "opened"} /\ pc' # "opened"
        BY <2>1
    <2>18. QED BY <1>3, <2>15, <2>16, <2>17, Zenon DEF SaveInv
<1>7. QED BY <1>5, <1>6

LEMMA OpenSaves == SaveInv /\ Open => SaveInv'
<1> SUFFICES ASSUME SaveInv, Open PROVE SaveInv'
    OBVIOUS
<1>1. /\ listed' = Parse(disk.fields, disk.to) /\ pc' = "opened"
      /\ import' = import /\ packets' = packets /\ keys' = keys /\ blobs' = blobs /\ disk' = disk
    BY Zenon DEF Open
<1>2. pc' \in {"saved", "opened"}
    BY <1>1
<1>3. QED BY <1>1, <1>2, Zenon DEF SaveInv

LEMMA SaveNext == BlockInv /\ SaveInv /\ [Next]_vars => SaveInv'
<1> SUFFICES ASSUME BlockInv, SaveInv, [Next]_vars PROVE SaveInv'
    OBVIOUS
<1>1. CASE StrictParse \/ Repair \/ Retry
    BY <1>1, ParsingSaves
<1>2. CASE Save
    BY <1>2, SaveSaves
<1>3. CASE Open
    BY <1>3, OpenSaves
<1>4. CASE UNCHANGED vars
    <2>1. /\ import' = import /\ pc' = pc /\ packets' = packets /\ keys' = keys
          /\ blobs' = blobs /\ disk' = disk /\ listed' = listed
        BY <1>4 DEF vars
    <2>2. QED BY <2>1, Zenon DEF SaveInv
<1>5. QED BY <1>1, <1>2, <1>3, <1>4, Zenon DEF Next

\* A keybox whose save was cut off at any byte, with any blobs of GnuPG's or of this
\* program's before it and any number of keys saved into it, is refused by
\* Parse, or read as the blobs that are there as a whole, byte for byte; and a
\* save (AddPublic, SavePublic) replaces no blob but those of the keys it saves.
THEOREM CutIsSeen == Spec => []CutSeen
<1>1. Init => BlockInv /\ SaveInv
    BY BlockInit, SaveInit
<1>2. BlockInv /\ SaveInv /\ [Next]_vars => BlockInv' /\ SaveInv'
    BY BlockNext, SaveNext
<1>3. SaveInv => CutSeen
    <2> SUFFICES ASSUME SaveInv, pc = "opened", blobs # << >>
                 PROVE  /\ CutIs(Raws(Headed(blobs)), disk.to, listed)
                        /\ \A j \in DOMAIN import.box :
                             \/ blobs[j].raw = import.box[j]
                             \/ \E k \in DOMAIN keys : FprOf(keys[k]) = import.box[j][9].val
        BY Zenon DEF CutSeen, CutIs
    <2>1. /\ Stored(import.box, keys, blobs) /\ CutOff(disk, FileOf(blobs))
          /\ listed = Parse(disk.fields, disk.to)
        BY Zenon DEF SaveInv
    <2>2. RawList(Raws(Headed(blobs)))
        BY <2>1, Zenon DEF Stored
    <2>3. CutIs(Raws(Headed(blobs)), disk.to, Parse(disk.fields, disk.to))
        BY <2>1, <2>2, CutFileRead
    <2>4. QED BY <2>1, <2>3, Zenon DEF Stored
<1>4. QED BY <1>1, <1>2, <1>3, PTL DEF Spec

=============================================================================
