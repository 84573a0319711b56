--------------------------- MODULE DialogueProofs ---------------------------
(***************************************************************************)
(* What holds of the options and of the commands that ask, for any command *)
(* lines, gpg.conf, and anything typed.  First the options: what has been  *)
(* applied is a prefix of `seen`, and each of the two looks at the command *)
(* line stands where one of its words begins.  Then the questions.         *)
(***************************************************************************)
EXTENDS Dialogue, SequenceLemmas

IsSeq(s) == s \in Seq(ToSet(s))

LEMMA Joined ==
    ASSUME NEW s, NEW t, IsSeq(s), IsSeq(t)
    PROVE  /\ IsSeq(s \o t) /\ Len(s) \in Nat /\ Len(t) \in Nat
           /\ DOMAIN s = 1 .. Len(s) /\ DOMAIN t = 1 .. Len(t)
           /\ Len(s \o t) = Len(s) + Len(t) /\ DOMAIN (s \o t) = 1 .. (Len(s) + Len(t))
           /\ \A k \in 1 .. (Len(s) + Len(t)) :
                (s \o t)[k] = IF k <= Len(s) THEN s[k] ELSE t[k - Len(s)]
<1> DEFINE S == ToSet(s) \union ToSet(t)
<1>1. s \in Seq(S) /\ t \in Seq(S)
    BY SeqMonotonic DEF IsSeq
<1> HIDE DEF S
<1>2. s \o t \in Seq(S)
    BY <1>1, ConcatProperties
<1>3. IsSeq(s \o t)
    BY <1>2, SeqFacts DEF IsSeq
<1>4. QED BY <1>1, <1>2, <1>3, ConcatProperties, LenProperties

LEMMA Longer ==
    ASSUME NEW s, NEW x, IsSeq(s)
    PROVE  /\ IsSeq(Append(s, x)) /\ Len(s) \in Nat /\ DOMAIN s = 1 .. Len(s)
           /\ Len(Append(s, x)) = Len(s) + 1 /\ DOMAIN Append(s, x) = 1 .. (Len(s) + 1)
           /\ \A k \in 1 .. Len(s) : Append(s, x)[k] = s[k]
           /\ Append(s, x)[Len(s) + 1] = x
<1> DEFINE S == ToSet(s) \union {x}
<1>1. s \in Seq(S) /\ x \in S
    BY SeqMonotonic DEF IsSeq
<1> HIDE DEF S
<1>2. /\ Append(s, x) \in Seq(S) /\ Len(Append(s, x)) = Len(s) + 1
      /\ \A k \in 1 .. Len(s) : Append(s, x)[k] = s[k]
      /\ Append(s, x)[Len(s) + 1] = x
    BY <1>1, AppendProperties
<1>3. IsSeq(Append(s, x))
    BY <1>2, SeqFacts DEF IsSeq
<1>4. QED BY <1>1, <1>2, <1>3, LenProperties

-----------------------------------------------------------------------------
(* Options, one after the other.                                            *)

\* r is op after an option.
Effect(r, op, name, v) ==
    /\ DOMAIN r = DOMAIN OpNone
    /\ r.op = IF name \in Command THEN name
              ELSE IF op.op = None /\ name = "sign" THEN "sign"
              ELSE IF op.op = None /\ name \in Listing THEN "list-keys" ELSE op.op
    /\ r.sign = IF name = "sign" THEN TRUE ELSE op.sign
    /\ r.homedir = IF name = "homedir" THEN v ELSE op.homedir
    /\ r.passphrase = IF name = "passphrase" THEN v ELSE op.passphrase
    /\ r.passphraseSet = IF name = "passphrase" THEN TRUE ELSE op.passphraseSet
    /\ r.passphraseFile = IF name = "passphrase-file" THEN v ELSE op.passphraseFile
    /\ r.args = op.args
    /\ name \notin Known => r = op

LEMMA ApplyFacts ==
    ASSUME NEW op, DOMAIN op = DOMAIN OpNone, NEW name, NEW v
    PROVE  Effect(Apply(op, name, v), op, name, v)
<1> USE DEF Command, Listing, Arg, Flag, Known, OpNone, Effect
<1>1. CASE name \in Command \union Listing \union {"sign"}
    BY <1>1 DEF Apply
<1>2. CASE name \in Flag
    BY <1>2 DEF Apply
<1>3. CASE name \in Arg
    BY <1>3 DEF Apply
<1>4. CASE name \notin Known
    BY <1>4 DEF Apply
<1>5. QED BY <1>1, <1>2, <1>3, <1>4

\* The first m of s have been applied.
Applied(op, s, m) ==
    /\ DOMAIN op = DOMAIN OpNone
    /\ op.op \in Command \union {"sign", None}
    /\ op.op = "sign" => op.sign
    /\ op.op = None => \A k \in 1 .. m : s[k].name \in Arg \union Flag
    /\ (\E k \in 1 .. m : s[k].name \in Command) =>
         op.op \in Command /\ \E k \in 1 .. m : s[k].name = op.op
    /\ (\E k \in 1 .. m : s[k].name = "sign") => op.sign
    /\ op.passphraseFile # None =>
         \E k \in 1 .. m : /\ s[k].name = "passphrase-file" /\ s[k].val = op.passphraseFile
                           /\ \A n \in 1 .. m : s[n].name = "passphrase-file" => n <= k
    /\ \A k \in 1 .. m : s[k].name = "passphrase-file" =>
         op.passphraseFile = s[k].val \/ \E n \in 1 .. m : k < n /\ s[n].name = "passphrase-file"
    /\ \A k \in 1 .. m : s[k].name = "passphrase" =>
         /\ op.passphraseSet
         /\ op.passphrase = s[k].val \/ \E n \in 1 .. m : k < n /\ s[n].name = "passphrase"

LEMMA ApplyOne ==
    ASSUME NEW op, NEW s, NEW m \in Nat, Applied(op, s, m), s[m + 1].name \in Known
    PROVE  Applied(Apply(op, s[m + 1].name, s[m + 1].val), s, m + 1)
<1> DEFINE name == s[m + 1].name
           r == Apply(op, name, s[m + 1].val)
<1>1. /\ DOMAIN r = DOMAIN OpNone
      /\ r.op = IF name \in Command THEN name
                ELSE IF op.op = None /\ name = "sign" THEN "sign"
                ELSE IF op.op = None /\ name \in Listing THEN "list-keys" ELSE op.op
      /\ r.sign = IF name = "sign" THEN TRUE ELSE op.sign
      /\ r.passphrase = IF name = "passphrase" THEN s[m + 1].val ELSE op.passphrase
      /\ r.passphraseSet = IF name = "passphrase" THEN TRUE ELSE op.passphraseSet
      /\ r.passphraseFile = IF name = "passphrase-file" THEN s[m + 1].val ELSE op.passphraseFile
    <2>1. DOMAIN op = DOMAIN OpNone
        BY DEF Applied
    <2>2. Effect(r, op, name, s[m + 1].val)
        BY <2>1, ApplyFacts
    <2> HIDE DEF name, r
    <2>3. QED BY <2>2 DEF Effect
<1>2. name \in Command \union Listing \union Arg \union Flag \union {"sign"}
    BY DEF Known
<1>3. /\ "list-keys" \in Command /\ "sign" \notin Command
      /\ None \notin Command \union {"sign"}
    BY OptionsAssumption DEF Known, Command
<1>4. \A k \in 1 .. (m + 1) : k \in 1 .. m \/ k = m + 1
    OBVIOUS
<1>5. m + 1 \in 1 .. (m + 1) /\ \A k \in 1 .. m : k \in 1 .. (m + 1) /\ k < m + 1
    OBVIOUS
<1> HIDE DEF name, r
<1>6. name = s[m + 1].name
    BY DEF name
<1>7. r.op \in Command \union {"sign", None} /\ (r.op = "sign" => r.sign)
    BY <1>1, <1>3 DEF Applied
<1>8. r.op = None => \A k \in 1 .. (m + 1) : s[k].name \in Arg \union Flag
    BY <1>1, <1>2, <1>3, <1>4, <1>6 DEF Applied
<1>9. (\E k \in 1 .. (m + 1) : s[k].name \in Command) =>
         r.op \in Command /\ \E k \in 1 .. (m + 1) : s[k].name = r.op
    <2>1. CASE name \in Command
        BY <1>1, <1>5, <1>6, <2>1
    <2>2. CASE name \notin Command /\ \E k \in 1 .. m : s[k].name \in Command
        BY <1>1, <1>3, <1>5, <2>2 DEF Applied
    <2>3. QED BY <1>4, <1>6, <2>1, <2>2
<1>10. (\E k \in 1 .. (m + 1) : s[k].name = "sign") => r.sign
    BY <1>1, <1>4, <1>6 DEF Applied
<1>11. ASSUME r.passphraseFile # None
       PROVE  \E k \in 1 .. (m + 1) :
                 /\ s[k].name = "passphrase-file" /\ s[k].val = r.passphraseFile
                 /\ \A n \in 1 .. (m + 1) : s[n].name = "passphrase-file" => n <= k
    <2>1. CASE name = "passphrase-file"
        <3>1. s[m + 1].name = "passphrase-file" /\ s[m + 1].val = r.passphraseFile
            BY <1>1, <1>6, <2>1
        <3>2. \A n \in 1 .. (m + 1) : n <= m + 1
            OBVIOUS
        <3>3. QED BY <1>5, <3>1, <3>2
    <2>2. CASE name # "passphrase-file"
        <3>1. op.passphraseFile # None /\ r.passphraseFile = op.passphraseFile
            BY <1>1, <1>11, <2>2
        <3>2. PICK k \in 1 .. m : /\ s[k].name = "passphrase-file" /\ s[k].val = op.passphraseFile
                                  /\ \A n \in 1 .. m : s[n].name = "passphrase-file" => n <= k
            BY <3>1 DEF Applied
        <3>3. \A n \in 1 .. (m + 1) : s[n].name = "passphrase-file" => n <= k
            BY <1>4, <1>6, <2>2, <3>2
        <3>4. QED BY <1>5, <3>1, <3>2, <3>3
    <2>3. QED BY <2>1, <2>2
<1>12. ASSUME NEW k \in 1 .. (m + 1), s[k].name = "passphrase-file"
       PROVE  r.passphraseFile = s[k].val \/ \E n \in 1 .. (m + 1) : k < n /\ s[n].name = "passphrase-file"
    <2>1. CASE name = "passphrase-file"
        BY <1>1, <1>4, <1>5, <1>6, <1>12, <2>1
    <2>2. CASE name # "passphrase-file"
        <3>1. k \in 1 .. m
            BY <1>4, <1>6, <1>12, <2>2
        <3>2. op.passphraseFile = s[k].val \/ \E n \in 1 .. m : k < n /\ s[n].name = "passphrase-file"
            BY <1>12, <3>1 DEF Applied
        <3>3. QED BY <1>1, <1>5, <2>2, <3>2
    <2>3. QED BY <2>1, <2>2
<1>13. ASSUME NEW k \in 1 .. (m + 1), s[k].name = "passphrase"
       PROVE  /\ r.passphraseSet
              /\ r.passphrase = s[k].val \/ \E n \in 1 .. (m + 1) : k < n /\ s[n].name = "passphrase"
    <2>1. CASE name = "passphrase"
        BY <1>1, <1>4, <1>5, <1>6, <1>13, <2>1
    <2>2. CASE name # "passphrase"
        <3>1. k \in 1 .. m
            BY <1>4, <1>6, <1>13, <2>2
        <3>2. /\ op.passphraseSet
              /\ op.passphrase = s[k].val \/ \E n \in 1 .. m : k < n /\ s[n].name = "passphrase"
            BY <1>13, <3>1 DEF Applied
        <3>3. QED BY <1>1, <1>5, <2>2, <3>2
    <2>3. QED BY <2>1, <2>2
<1>14. Applied(r, s, m + 1)
    BY <1>1, <1>7, <1>8, <1>9, <1>10, <1>11, <1>12, <1>13 DEF Applied
<1>15. QED BY <1>14 DEF r, name

\* ApplyAll goes through a function with a recursive equation; there is one.
Stage(opts, options, f, n) ==
    IF n = 0 THEN opts ELSE Apply(f[n - 1], options[n].name, options[n].val)

LEMMA ApplyAllExists ==
    ASSUME NEW opts, NEW options, NEW N \in Nat
    PROVE  \E f : f = [n \in 0 .. N |-> Stage(opts, options, f, n)]
<1> DEFINE Nx(h, n) == Stage(opts, options, h, n)
           Is(f, m) == f = [n \in 0 .. m |-> Nx(f, n)]
           S == {n \in Nat : \E f : Is(f, n)}
<1>1. 0 \in S
    <2> DEFINE g == [n \in 0 .. 0 |-> opts]
    <2>1. \A n \in 0 .. 0 : n = 0 /\ Nx(g, n) = opts
        BY DEF Stage
    <2> HIDE DEF Nx
    <2>2. Is(g, 0)
        BY <2>1
    <2>3. QED BY <2>2
<1>2. \A n \in Nat : n \in S => n + 1 \in S
    <2> SUFFICES ASSUME NEW n \in Nat, NEW f, Is(f, n) PROVE \E g : Is(g, n + 1)
        <3> HIDE DEF Is
        <3>1. QED OBVIOUS
    <2> DEFINE g == [k \in 0 .. (n + 1) |-> IF k = n + 1 THEN Nx(f, n + 1) ELSE f[k]]
    <2>1. \A k \in 0 .. n : f[k] = Nx(f, k)
        <3> HIDE DEF Nx
        <3>1. QED OBVIOUS
    <2>2. \A k \in 0 .. (n + 1) : k \in 0 .. n \/ k = n + 1
        OBVIOUS
    <2>3. /\ \A k \in 0 .. n : k \in 0 .. (n + 1) /\ k # n + 1
          /\ \A k \in 0 .. (n + 1) : k # 0 => k - 1 \in 0 .. n
          /\ n + 1 \in 0 .. (n + 1)
        OBVIOUS
    <2>4. \A k \in 0 .. n : g[k] = f[k]
        <3> HIDE DEF Nx
        <3>1. QED BY <2>3
    <2>5. g[n + 1] = Nx(f, n + 1)
        <3> HIDE DEF Nx
        <3>1. QED BY <2>3
    <2>6. DOMAIN g = 0 .. (n + 1) /\ g = [k \in 0 .. (n + 1) |-> g[k]]
        OBVIOUS
    <2> HIDE DEF g
    <2>7. \A k \in 0 .. (n + 1) : Nx(g, k) = Nx(f, k)
        BY <2>3, <2>4 DEF Stage
    <2>8. \A k \in 0 .. (n + 1) : g[k] = Nx(g, k)
        <3> HIDE DEF Nx
        <3>1. QED BY <2>1, <2>2, <2>4, <2>5, <2>7
    <2>9. Is(g, n + 1)
        <3> HIDE DEF Nx
        <3>1. [k \in 0 .. (n + 1) |-> g[k]] = [k \in 0 .. (n + 1) |-> Nx(g, k)]
            BY <2>8
        <3>2. QED BY <2>6, <3>1
    <2>10. QED BY <2>9
<1> HIDE DEF S
<1>3. N \in S
    BY <1>1, <1>2, NatSetInduction
<1> HIDE DEF Nx
<1>4. \E f : Is(f, N)
    BY <1>3 DEF S
<1>5. QED BY <1>4 DEF Nx

\* What comes of opts, option by option.
Applying(f, opts, options) ==
    /\ f[0] = opts /\ ApplyAll(opts, options) = f[Len(options)]
    /\ \A n \in 1 .. Len(options) : f[n] = Apply(f[n - 1], options[n].name, options[n].val)

LEMMA ApplyAllFacts ==
    ASSUME NEW opts, NEW options, Len(options) \in Nat
    PROVE  \E f : Applying(f, opts, options)
<1> DEFINE N == Len(options)
           Nx(h, n) == Stage(opts, options, h, n)
           f == CHOOSE h : h = [n \in 0 .. N |-> Nx(h, n)]
<1>1. ApplyAll(opts, options) = f[N]
    BY Zenon DEF ApplyAll, Stage
<1>2. \E h : h = [n \in 0 .. N |-> Nx(h, n)]
    BY ApplyAllExists
<1> HIDE DEF Nx
<1>3. f = [n \in 0 .. N |-> Nx(f, n)]
    BY <1>2
<1> HIDE DEF f
<1>4. \A n \in 0 .. N : f[n] = Nx(f, n)
    BY <1>3
<1>5. Nx(f, 0) = opts /\ \A n \in 1 .. N : Nx(f, n) = Apply(f[n - 1], options[n].name, options[n].val)
    BY DEF Nx, Stage
<1>6. 0 \in 0 .. N /\ \A n \in 1 .. N : n \in 0 .. N
    OBVIOUS
<1>7. Applying(f, opts, options)
    BY <1>1, <1>4, <1>5, <1>6 DEF Applying
<1>8. QED BY <1>7

LEMMA AllApplied ==
    ASSUME NEW op, NEW s, NEW options, IsSeq(s), IsSeq(options), Applied(op, s, Len(s)),
           \A k \in 1 .. Len(options) : options[k].name \in Known
    PROVE  /\ Applied(ApplyAll(op, options), s \o options, Len(s \o options))
           /\ (\A k \in 1 .. Len(options) : options[k].name # "homedir") =>
                ApplyAll(op, options).homedir = op.homedir
           /\ ApplyAll(op, options).args = op.args
<1> DEFINE st == s \o options
           M == Len(s)
           N == Len(options)
<1>1. /\ M \in Nat /\ N \in Nat /\ Len(st) = M + N
      /\ \A k \in 1 .. (M + N) : st[k] = IF k <= M THEN s[k] ELSE options[k - M]
    BY Joined
<1>2. PICK f : /\ f[0] = op /\ ApplyAll(op, options) = f[N]
               /\ \A n \in 1 .. N : f[n] = Apply(f[n - 1], options[n].name, options[n].val)
    <2>1. PICK f : Applying(f, op, options)
        BY <1>1, ApplyAllFacts
    <2>2. QED BY <2>1 DEF Applying
<1>3. (\A k \in 1 .. M : k \in 1 .. (M + N) /\ st[k] = s[k])
    BY <1>1
<1>4. \A n \in 1 .. N : M + n \in 1 .. (M + N) /\ st[M + n] = options[n]
    <2> SUFFICES ASSUME NEW n \in 1 .. N PROVE M + n \in 1 .. (M + N) /\ st[M + n] = options[n]
        OBVIOUS
    <2>1. M \in Nat /\ N \in Nat
        BY <1>1
    <2>2. M + n \in 1 .. (M + N) /\ ~(M + n <= M) /\ (M + n) - M = n
        <3> HIDE DEF M, N
        <3>1. QED BY <2>1
    <2>3. QED BY <1>1, <2>2
<1> HIDE DEF st, M, N
<1>5. Applied(op, st, M)
    BY <1>3 DEF Applied, M
<1> DEFINE S == {n \in Nat : n <= N => /\ Applied(f[n], st, M + n)
                                       /\ (\A k \in 1 .. N : options[k].name # "homedir") =>
                                            f[n].homedir = op.homedir
                                       /\ f[n].args = op.args}
<1>6. 0 \in S
    BY <1>1, <1>2, <1>5
<1>7. ASSUME NEW n \in Nat, n \in S PROVE n + 1 \in S
    <2> SUFFICES ASSUME n + 1 <= N
                 PROVE  /\ Applied(f[n + 1], st, M + (n + 1))
                        /\ (\A k \in 1 .. N : options[k].name # "homedir") =>
                             f[n + 1].homedir = op.homedir
                        /\ f[n + 1].args = op.args
        OBVIOUS
    <2>1. n + 1 \in 1 .. N /\ (n + 1) - 1 = n /\ n <= N /\ M + n \in Nat /\ M + (n + 1) = (M + n) + 1
        BY <1>1
    <2>2. f[n + 1] = Apply(f[n], options[n + 1].name, options[n + 1].val)
        BY <1>2, <2>1
    <2>3. st[(M + n) + 1] = options[n + 1] /\ options[n + 1].name \in Known
        BY <1>4, <2>1 DEF N
    <2>4. Applied(f[n], st, M + n)
        BY <1>7, <2>1
    <2>5. Applied(f[n + 1], st, M + (n + 1))
        BY <2>1, <2>2, <2>3, <2>4, ApplyOne
    <2>6. DOMAIN f[n] = DOMAIN OpNone
        BY <2>4 DEF Applied
    <2>7. /\ f[n + 1].homedir = IF options[n + 1].name = "homedir" THEN options[n + 1].val ELSE f[n].homedir
          /\ f[n + 1].args = f[n].args
        <3> DEFINE opt == options[n + 1]
        <3>1. Effect(f[n + 1], f[n], opt.name, opt.val)
            BY <2>2, <2>6, ApplyFacts
        <3>2. QED BY <3>1 DEF Effect
    <2>8. QED BY <1>7, <2>1, <2>5, <2>7
<1> HIDE DEF S
<1>8. N \in S
    BY <1>1, <1>6, <1>7, NatSetInduction
<1>9. QED BY <1>1, <1>2, <1>8 DEF S, N, st

-----------------------------------------------------------------------------
(* Where the words of a command line begin.                                 *)

\* Is the word at k the value of the one before it, by v for the words before?
ValueBy(v, T, E, k) ==
    /\ k > 1 /\ ~v[k - 1] /\ (k - 1) \in T
    /\ \A j \in 1 .. (k - 1) : j \in E => v[j]

LEMMA ValueSame ==
    ASSUME NEW T, NEW E, NEW k \in Nat, NEW f, NEW g, \A j \in Nat : j < k => f[j] = g[j]
    PROVE  ValueBy(f, T, E, k) = ValueBy(g, T, E, k)
<1>1. CASE k > 1
    <2>1. k - 1 \in Nat /\ k - 1 < k /\ \A j \in 1 .. (k - 1) : j \in Nat /\ j < k
        BY <1>1
    <2>2. ValueBy(f, T, E, k) <=> ValueBy(g, T, E, k)
        BY <2>1 DEF ValueBy
    <2>3. QED BY <2>2 DEF ValueBy
<1>2. CASE ~(k > 1)
    BY <1>2 DEF ValueBy
<1>3. QED BY <1>1, <1>2

ValuesTo(f, T, E, m) == f = [k \in 0 .. m |-> ValueBy(f, T, E, k)]

LEMMA ValuesUnique ==
    ASSUME NEW T, NEW E, NEW m \in Nat, NEW n \in Nat, NEW f, NEW g, ValuesTo(f, T, E, m), ValuesTo(g, T, E, n)
    PROVE  \A k \in Nat : k <= m /\ k <= n => f[k] = g[k]
<1> DEFINE S == {k \in Nat : \A j \in Nat : j < k /\ j <= m /\ j <= n => f[j] = g[j]}
<1>1. /\ \A k \in 0 .. m : f[k] = ValueBy(f, T, E, k)
      /\ \A k \in 0 .. n : g[k] = ValueBy(g, T, E, k)
    BY DEF ValuesTo
<1>2. 0 \in S
    OBVIOUS
<1>3. ASSUME NEW k \in Nat, k \in S PROVE k + 1 \in S
    <2> SUFFICES ASSUME NEW j \in Nat, j < k + 1, j <= m, j <= n PROVE f[j] = g[j]
        OBVIOUS
    <2>1. \A x \in Nat : x < j => f[x] = g[x]
        BY <1>3
    <2>2. ValueBy(f, T, E, j) = ValueBy(g, T, E, j)
        BY <2>1, ValueSame
    <2>3. j \in 0 .. m /\ j \in 0 .. n
        OBVIOUS
    <2>4. QED BY <1>1, <2>2, <2>3
<1>4. \A k \in Nat : k \in S
    <2> HIDE DEF S
    <2>1. QED BY <1>2, <1>3, NatSetInduction
<1>5. SUFFICES ASSUME NEW k \in Nat, k <= m, k <= n PROVE f[k] = g[k]
    OBVIOUS
<1>6. k + 1 \in S
    <2> HIDE DEF S
    <2>1. QED BY <1>4
<1>7. \A j \in Nat : j < k + 1 /\ j <= m /\ j <= n => f[j] = g[j]
    BY <1>6
<1>8. k < k + 1
    OBVIOUS
<1>9. QED BY <1>5, <1>7, <1>8

LEMMA ValuesExist ==
    ASSUME NEW T, NEW E, NEW m \in Nat
    PROVE  \E f : ValuesTo(f, T, E, m)
<1> DEFINE S == {n \in Nat : \E f : ValuesTo(f, T, E, n)}
<1>1. 0 \in S
    <2> DEFINE g == [k \in 0 .. 0 |-> FALSE]
    <2>1. \A k \in 0 .. 0 : ValueBy(g, T, E, k) = FALSE
        BY DEF ValueBy
    <2>2. g = [k \in 0 .. 0 |-> ValueBy(g, T, E, k)]
        BY <2>1
    <2> HIDE DEF g
    <2>3. ValuesTo(g, T, E, 0)
        BY <2>2 DEF ValuesTo
    <2>4. QED BY <2>3
<1>2. ASSUME NEW n \in Nat, n \in S PROVE n + 1 \in S
    <2>1. PICK f : ValuesTo(f, T, E, n)
        BY <1>2
    <2> DEFINE g == [k \in 0 .. (n + 1) |-> IF k = n + 1 THEN ValueBy(f, T, E, n + 1) ELSE f[k]]
    <2>2. \A k \in 0 .. n : f[k] = ValueBy(f, T, E, k)
        BY <2>1 DEF ValuesTo
    <2>3. \A k \in 0 .. (n + 1) : k \in 0 .. n \/ k = n + 1
        OBVIOUS
    <2>4. \A k \in 0 .. n : k \in 0 .. (n + 1) /\ k # n + 1
        OBVIOUS
    <2>5. \A k \in 0 .. n : g[k] = f[k]
        BY <2>4
    <2>6. g[n + 1] = ValueBy(f, T, E, n + 1)
        OBVIOUS
    <2>7. DOMAIN g = 0 .. (n + 1) /\ g = [k \in 0 .. (n + 1) |-> g[k]]
        OBVIOUS
    <2> HIDE DEF g
    <2>8. ASSUME NEW k \in 0 .. (n + 1) PROVE g[k] = ValueBy(g, T, E, k)
        <3>1. \A j \in Nat : j < k => f[j] = g[j]
            BY <2>5
        <3>2. ValueBy(f, T, E, k) = ValueBy(g, T, E, k)
            BY <3>1, ValueSame
        <3>3. QED BY <2>2, <2>3, <2>5, <2>6, <3>2
    <2>9. [k \in 0 .. (n + 1) |-> g[k]] = [k \in 0 .. (n + 1) |-> ValueBy(g, T, E, k)]
        BY <2>8
    <2>10. ValuesTo(g, T, E, n + 1)
        BY <2>7, <2>9 DEF ValuesTo
    <2>11. QED BY <2>10
<1> HIDE DEF S
<1>3. m \in S
    BY <1>1, <1>2, NatSetInduction
<1>4. QED BY <1>3 DEF S

\* Values chooses a function by its recursive equation; there is one.
LEMMA ValueFacts ==
    ASSUME NEW T, NEW E
    PROVE  \A k \in Nat : Values(T, E)[k] = ValueBy(Values(T, E), T, E, k)
<1> DEFINE v == CHOOSE f : f = [k \in Nat |-> ValueBy(f, T, E, k)]
           part(m) == CHOOSE f : ValuesTo(f, T, E, m)
           all == [k \in Nat |-> part(k)[k]]
<1>1. Values(T, E) = v
    BY Zenon DEF Values, ValueBy
<1>2. \A m \in Nat : ValuesTo(part(m), T, E, m)
    BY ValuesExist
<1> HIDE DEF part
<1>3. ASSUME NEW k \in Nat PROVE all[k] = ValueBy(all, T, E, k)
    <2>1. \A j \in Nat : j < k => all[j] = part(k)[j]
        <3> SUFFICES ASSUME NEW j \in Nat, j < k PROVE part(j)[j] = part(k)[j]
            OBVIOUS
        <3>1. ValuesTo(part(j), T, E, j) /\ ValuesTo(part(k), T, E, k)
            BY <1>2
        <3>2. QED BY <3>1, ValuesUnique
    <2>2. all[k] = part(k)[k]
        OBVIOUS
    <2> HIDE DEF all
    <2>3. ValueBy(all, T, E, k) = ValueBy(part(k), T, E, k)
        BY <2>1, ValueSame
    <2>4. k \in 0 .. k /\ part(k) = [n \in 0 .. k |-> ValueBy(part(k), T, E, n)]
        BY <1>2 DEF ValuesTo
    <2>5. part(k)[k] = ValueBy(part(k), T, E, k)
        BY <2>4
    <2>6. QED BY <2>2, <2>3, <2>5
<1>4. all = [k \in Nat |-> all[k]]
    OBVIOUS
<1> HIDE DEF all
<1>5. [k \in Nat |-> all[k]] = [k \in Nat |-> ValueBy(all, T, E, k)]
    BY <1>3
<1>6. \E f : f = [k \in Nat |-> ValueBy(f, T, E, k)]
    BY <1>4, <1>5
<1>7. v = [k \in Nat |-> ValueBy(v, T, E, k)]
    BY <1>6
<1> HIDE DEF v
<1>8. QED BY <1>1, <1>7

\* What the words of argv are, and what the first look takes them for.
LEMMA WordValues ==
    ASSUME NEW k \in Nat
    PROVE  /\ IsValue[k] = (/\ k > 1 /\ ~IsValue[k - 1] /\ (k - 1) \in Takers
                            /\ \A j \in 1 .. (k - 1) : j \in Ends => IsValue[j])
           /\ Guessed[k] = (/\ k > 1 /\ ~Guessed[k - 1] /\ k - 1 \in DOMAIN argv
                            /\ argv[k - 1].lex = "long"
                            /\ argv[k - 1].names \in {<<"homedir">>, <<"options">>})
<1> DEFINE G == {n \in DOMAIN argv : argv[n].lex = "long" /\ argv[n].names \in {<<"homedir">>, <<"options">>}}
<1>1. IsValue[k] = ValueBy(IsValue, Takers, Ends, k)
    BY Zenon, ValueFacts DEF IsValue
<1>2. Guessed = Values(G, {})
    BY Zenon DEF Guessed
<1>3. Guessed[k] = ValueBy(Guessed, G, {}, k)
    BY Zenon, <1>2, ValueFacts
<1>4. Guessed[k] = (k > 1 /\ ~Guessed[k - 1] /\ (k - 1) \in G)
    <2>1. \A j \in 1 .. (k - 1) : j \in {} => Guessed[j]
        OBVIOUS
    <2>2. ValueBy(Guessed, G, {}, k) = (k > 1 /\ ~Guessed[k - 1] /\ (k - 1) \in G)
        BY Zenon, <2>1 DEF ValueBy
    <2>3. QED BY Zenon, <1>3, <2>2
<1>5. (k - 1) \in G <=> /\ k - 1 \in DOMAIN argv /\ argv[k - 1].lex = "long"
                        /\ argv[k - 1].names \in {<<"homedir">>, <<"options">>}
    BY Zenon
<1> HIDE DEF G
<1>6. QED BY Zenon, <1>1, <1>4, <1>5 DEF ValueBy

\* A word of a starts at k, by the values v, before any --.
Starts(v, a, k) == ~v[k] /\ \A j \in 1 .. (k - 1) : a[j].lex = "end" => v[j]

LEMMA ValuesStay ==
    ASSUME argv' = argv PROVE IsValue' = IsValue /\ Guessed' = Guessed /\ Homes' = Homes
BY DEF IsValue, Guessed, Takers, Ends, Homes

\* The word after the one at k, and the one after that when it is a value.
LEMMA NextStarts ==
    ASSUME NEW k \in 1 .. Len(argv), DOMAIN argv = 1 .. Len(argv), Len(argv) \in Nat,
           Starts(IsValue, argv, k), argv[k].lex # "end"
    PROVE  /\ TakesNext(argv[k]) => IsValue[k + 1] /\ Starts(IsValue, argv, k + 2)
           /\ ~TakesNext(argv[k]) => Starts(IsValue, argv, k + 1)
<1>1. /\ k \in Nat /\ k > 0
      /\ k + 1 \in Nat /\ k + 1 > 1 /\ (k + 1) - 1 = k /\ k + 2 \in Nat /\ (k + 2) - 1 = k + 1
      /\ \A j \in 1 .. k : j \in 1 .. (k - 1) \/ j = k
      /\ \A j \in 1 .. (k + 1) : j \in 1 .. k \/ j = k + 1
    OBVIOUS
<1>2. \A j \in 1 .. k : argv[j].lex = "end" => IsValue[j]
    BY <1>1 DEF Starts
<1>3. \A j \in 1 .. k : j \in Ends => IsValue[j]
    BY <1>2 DEF Ends
<1>4. IsValue[k + 1] <=> TakesNext(argv[k])
    <2>1. IsValue[k + 1] <=> ~IsValue[k] /\ k \in Takers /\ \A j \in 1 .. k : j \in Ends => IsValue[j]
        <3>1. IsValue[k + 1] = (/\ k + 1 > 1 /\ ~IsValue[(k + 1) - 1] /\ ((k + 1) - 1) \in Takers
                                /\ \A j \in 1 .. ((k + 1) - 1) : j \in Ends => IsValue[j])
            BY Zenon, <1>1, WordValues
        <3>2. QED BY <1>1, <3>1
    <2>2. k \in Takers <=> TakesNext(argv[k])
        BY DEF Takers
    <2>3. ~IsValue[k]
        BY DEF Starts
    <2>4. QED BY Zenon, <1>3, <2>1, <2>2, <2>3
<1>5. IsValue[k + 1] => ~IsValue[k + 2]
    BY <1>1, WordValues
<1>6. QED BY <1>1, <1>2, <1>4, <1>5 DEF Starts

\* Behind -- no word starts.
LEMMA NoneStarts ==
    ASSUME NEW k \in Nat, k > 0, Starts(IsValue, argv, k), argv[k].lex = "end", NEW n \in Nat, k < n
    PROVE  ~Starts(IsValue, argv, n)
<1>1. k \in 1 .. (n - 1)
    OBVIOUS
<1>2. QED BY <1>1 DEF Starts

LEMMA StartFacts ==
    ASSUME DOMAIN argv = 1 .. Len(argv), Len(argv) \in Nat, NEW k \in 1 .. Len(argv)
    PROVE  Starts(IsValue, argv, k) <=> ~IsValue[k] /\ ~AfterEnd(k)
<1>1. \A j \in 1 .. (k - 1) : j \in DOMAIN argv
    OBVIOUS
<1>2. QED BY <1>1 DEF Starts, AfterEnd, Ends

-----------------------------------------------------------------------------
(* The home directory that the words before n name: h, of those in H.  If   *)
(* there is none and c, it is not named at all.                             *)

IsHome(a, k)  == a[k].lex \in {"long", "assigned"} /\ a[k].names = <<"homedir">>
HomeVal(a, k) == IF a[k].lex = "assigned" THEN a[k].val ELSE Text(a[k + 1])
NoHome(H, k, n) == \A j \in H : ~(k < j /\ j < n)
HomeUpTo(a, H, c, h, n) ==
    \/ NoHome(H, 0, n) /\ (c => h = None)
    \/ \E k \in H : k < n /\ h = HomeVal(a, k) /\ NoHome(H, k, n)

\* The words that the first look, and the second, take the directory from.
FirstHomes  == {k \in Homes : ~Guessed[k]}
SecondHomes == {k \in Homes : ~IsValue[k] /\ ~AfterEnd(k)}

LEMMA HomesStay ==
    ASSUME argv' = argv
    PROVE  /\ FirstHomes' = FirstHomes /\ SecondHomes' = SecondHomes
<1>1. Ends' = Ends
    BY DEF Ends
<1>2. QED BY <1>1, ValuesStay DEF FirstHomes, SecondHomes, AfterEnd

LEMMA HomeKept ==
    ASSUME NEW a, NEW H, H \subseteq Nat, NEW c, NEW d, d => c, NEW h, NEW n \in Nat, NEW m \in Nat, n > 0, n <= m,
           HomeUpTo(a, H, c, h, n), NoHome(H, n - 1, m)
    PROVE  HomeUpTo(a, H, d, h, m)
<1>1. ASSUME NEW k \in Nat, k < n, NoHome(H, k, n) PROVE NoHome(H, k, m)
    <2> SUFFICES ASSUME NEW j \in H, k < j, j < m PROVE FALSE
        BY DEF NoHome
    <2>1. j \in Nat /\ (j < n \/ n - 1 < j)
        OBVIOUS
    <2>2. QED BY <1>1, <2>1 DEF NoHome
<1>2. CASE NoHome(H, 0, n) /\ (c => h = None)
    BY <1>1, <1>2 DEF HomeUpTo
<1>3. CASE \E k \in H : k < n /\ h = HomeVal(a, k) /\ NoHome(H, k, n)
    <2>1. PICK k \in H : k < n /\ h = HomeVal(a, k) /\ NoHome(H, k, n)
        BY <1>3
    <2>2. k \in Nat /\ k < m
        BY <2>1
    <2>3. NoHome(H, k, m)
        BY <1>1, <2>1, <2>2
    <2>4. QED BY <2>1, <2>2, <2>3 DEF HomeUpTo
<1>4. QED BY <1>2, <1>3 DEF HomeUpTo

LEMMA HomeNamed ==
    ASSUME NEW a, NEW H, NEW c, NEW n \in H, NEW m, n < m, NoHome(H, n, m)
    PROVE  HomeUpTo(a, H, c, HomeVal(a, n), m)
BY DEF HomeUpTo

\* At the end, it is what the last of them names.
LEMMA HomeEnd ==
    ASSUME NEW H, H \subseteq 1 .. Len(argv), Len(argv) \in Nat, NEW c, NEW h, NEW n \in Nat, n > Len(argv),
           HomeUpTo(argv, H, c, h, n), H # {} \/ c
    PROVE  LastNames(H, HomeOf(h))
<1>1. \A j \in H : j \in Nat /\ 0 < j /\ j < n
    OBVIOUS
<1>2. CASE NoHome(H, 0, n) /\ (c => h = None)
    <2>1. H = {}
        BY <1>1, <1>2 DEF NoHome
    <2>2. QED BY <1>2, <2>1 DEF LastNames, HomeOf
<1>3. CASE \E k \in H : k < n /\ h = HomeVal(argv, k) /\ NoHome(H, k, n)
    <2>1. PICK k \in H : h = HomeVal(argv, k) /\ NoHome(H, k, n)
        BY <1>3
    <2>2. \A j \in H : j <= k
        BY <1>1, <2>1 DEF NoHome
    <2>3. HomeOf(h) = HomeAt(k)
        BY <2>1 DEF HomeAt, HomeVal
    <2>4. QED BY <2>1, <2>2, <2>3 DEF LastNames
<1>4. QED BY <1>2, <1>3 DEF HomeUpTo

-----------------------------------------------------------------------------
(* The inductive invariant of the options.                                  *)

NoConfHome(s) == \A k \in DOMAIN s : s[k].from = "conf" => s[k].name # "homedir"

Typed ==
    /\ argv \in Argvs /\ conf \in Confs
    /\ pc \in {"prescan", "config", "parse", "done", "error"}
    /\ i \in Nat /\ 1 <= i /\ i <= Len(IF pc = "config" THEN Lines ELSE argv) + 2
    /\ DOMAIN found = {"homedir", "file", "none"}
    /\ pc = "config" => Lines # Unreadable

Gathered ==
    /\ IsSeq(seen) /\ Applied(o, seen, Len(seen))
    /\ pc = "prescan" => o = OpNone /\ seen = << >>
    /\ pc = "config" => \A k \in DOMAIN seen : seen[k].from = "conf"
    /\ \A j, k \in DOMAIN seen : j < k /\ seen[j].from = "argv" => seen[k].from = "argv"

\* What the looks make of the words so far; the end of a look is where it stands
\* behind the last word.
Looking ==
    /\ pc = "prescan" =>
         /\ HomeUpTo(argv, FirstHomes, TRUE, found.homedir, i)
         /\ i \in DOMAIN argv => ~Guessed[i]
    /\ pc \in {"config", "parse", "done"} => HomeUpTo(argv, FirstHomes, TRUE, found.homedir, Len(argv) + 2)
    /\ pc = "config" /\ NoConfHome(seen) => o.homedir = None
    /\ pc = "parse" =>
         /\ HomeUpTo(argv, SecondHomes, NoConfHome(seen), o.homedir, i)
         /\ i \in DOMAIN argv => Starts(IsValue, argv, i)
    /\ pc = "done" => HomeUpTo(argv, SecondHomes, NoConfHome(seen), o.homedir, Len(argv) + 2)

OptionsInv == Typed /\ Gathered /\ Looking

LEMMA WordFacts ==
    ASSUME argv \in Argvs
    PROVE  /\ IsSeq(argv) /\ Len(argv) \in Nat /\ DOMAIN argv = 1 .. Len(argv)
           /\ \A k \in 1 .. Len(argv) :
                /\ argv[k].lex \in {"long", "assigned", "short", "end", "plain"}
                /\ argv[k].names \in Seq(STRING)
                /\ argv[k].lex \in {"long", "assigned"} => Len(argv[k].names) = 1
                /\ argv[k].lex = "short" =>
                     argv[k].names # << >> /\ "homedir" \notin ToSet(argv[k].names)
                /\ argv[k].lex \in {"end", "plain"} => argv[k].names = << >>
<1>1. IsSeq(argv)
    BY OptionsAssumption DEF IsSeq
<1>2. Len(argv) \in Nat /\ DOMAIN argv = 1 .. Len(argv)
    BY <1>1, LenProperties DEF IsSeq
<1>3. \A k \in 1 .. Len(argv) : argv[k] \in ToSet(argv)
    BY <1>2 DEF ToSet
<1>4. QED BY <1>1, <1>2, <1>3, OptionsAssumption

\* A word that is one long option is that option's word.
LEMMA OneName ==
    ASSUME argv \in Argvs, NEW k \in 1 .. Len(argv), argv[k].lex \in {"long", "assigned"}, NEW n
    PROVE  argv[k].names = << n >> <=> argv[k].names[1] = n
<1> DEFINE names == argv[k].names
<1>1. names \in Seq(STRING) /\ Len(names) = 1
    BY WordFacts
<1> HIDE DEF names
<1>2. ASSUME names[1] = n PROVE names = << n >>
    <2>1. n \in STRING
        BY <1>1, <1>2, ElementOfSeq
    <2>2. << n >> \in Seq(STRING) /\ Len(<< n >>) = 1 /\ << n >>[1] = n
        BY <2>1
    <2>3. QED BY <1>1, <1>2, <2>2, SeqEqual
<1>3. QED BY <1>2 DEF names

LEMMA HomeStart ==
    ASSUME NEW a, NEW H, H \subseteq Nat \ {0}, NEW c, NEW h, c => h = None PROVE HomeUpTo(a, H, c, h, 1)
<1>1. NoHome(H, 0, 1)
    BY DEF NoHome
<1>2. QED BY <1>1 DEF HomeUpTo

LEMMA HomesFacts ==
    ASSUME argv \in Argvs
    PROVE  /\ FirstHomes \subseteq 1 .. Len(argv) /\ SecondHomes \subseteq 1 .. Len(argv)
           /\ \A k \in Homes : k \in 1 .. Len(argv) /\ IsHome(argv, k)
BY WordFacts DEF FirstHomes, SecondHomes, Homes, IsHome

LEMMA FirstStarts == Starts(IsValue, argv, 1) /\ ~Guessed[1]
<1>1. ~IsValue[1] /\ ~Guessed[1]
    <2>1. 1 \in Nat /\ ~(1 > 1)
        OBVIOUS
    <2>2. QED BY <2>1, WordValues
<1>2. QED BY <1>1 DEF Starts

-----------------------------------------------------------------------------
(* The steps, first for the types.                                          *)

LEMMA LinesFacts ==
    ASSUME conf \in Confs, Lines # Unreadable
    PROVE  IsSeq(Lines) /\ Len(Lines) \in Nat /\ DOMAIN Lines = 1 .. Len(Lines)
<1>1. IsSeq(Lines)
    <2>1. CASE Place \in DOMAIN conf
        BY <2>1, OptionsAssumption DEF Lines, IsSeq
    <2>2. CASE Place \notin DOMAIN conf
        <3>1. << >> \in Seq(ToSet(<< >>))
            BY EmptySeq
        <3>2. QED BY <2>2, <3>1 DEF Lines, IsSeq
    <2>3. QED BY <2>1, <2>2
<1>2. QED BY <1>1, LenProperties DEF IsSeq

LEMMA LinesStay ==
    ASSUME conf' = conf, found' = found PROVE Lines' = Lines /\ Place' = Place
BY DEF Lines, Place

LEMMA TypedStep == Typed /\ [Next]_vars => Typed'
<1> SUFFICES ASSUME Typed, [Next]_vars PROVE Typed'
    OBVIOUS
<1>1. /\ argv \in Argvs /\ conf \in Confs /\ i \in Nat /\ 1 <= i
      /\ pc \in {"prescan", "config", "parse", "done", "error"}
      /\ i <= Len(IF pc = "config" THEN Lines ELSE argv) + 2
      /\ DOMAIN found = {"homedir", "file", "none"}
      /\ pc = "config" => Lines # Unreadable
    BY DEF Typed
<1>2. Len(argv) \in Nat /\ DOMAIN argv = 1 .. Len(argv)
    BY <1>1, WordFacts
<1>3. ASSUME PrescanWord PROVE Typed'
    <2>1. /\ pc = "prescan" /\ i \in 1 .. Len(argv) /\ UNCHANGED <<argv, conf, pc>>
          /\ i' = i + 1 \/ (i < Len(argv) /\ i' = i + 2)
          /\ DOMAIN found' = DOMAIN found
        BY <1>2, <1>3 DEF PrescanWord, PrescanField, given
    <2>2. QED BY <1>1, <1>2, <2>1 DEF Typed
<1>4. ASSUME OpenConfig PROVE Typed'
    <2>1. /\ UNCHANGED <<argv, conf, found>> /\ i' = 1 /\ pc' \in {"parse", "error", "config"}
          /\ pc' = "config" => Lines # Unreadable
        BY <1>4 DEF OpenConfig, given
    <2>2. Lines' = Lines
        BY <2>1, LinesStay
    <2>3. pc' = "config" => Len(Lines) \in Nat
        BY <1>1, <2>1, LinesFacts
    <2>4. QED BY <1>1, <1>2, <2>1, <2>2, <2>3 DEF Typed
<1>5. ASSUME ConfigLine PROVE Typed'
    <2>1. UNCHANGED <<argv, conf, found, pc>> /\ i' = i + 1 /\ pc = "config" /\ i \in DOMAIN Lines
        BY <1>5 DEF ConfigLine, given
    <2>2. Lines' = Lines
        BY <2>1, LinesStay
    <2>3. Len(Lines) \in Nat /\ DOMAIN Lines = 1 .. Len(Lines)
        BY <1>1, <2>1, LinesFacts
    <2>4. QED BY <1>1, <1>2, <2>1, <2>2, <2>3 DEF Typed
<1>6. ASSUME ConfigEnd PROVE Typed'
    BY <1>1, <1>2, <1>6 DEF ConfigEnd, given, Typed
<1>7. ASSUME ParseEnd PROVE Typed'
    BY <1>1, <1>2, <1>7 DEF ParseEnd, Parsing, given, Typed
<1>8. ASSUME ParseArg PROVE Typed'
    BY <1>1, <1>2, <1>8 DEF ParseArg, Parsing, given, Typed
<1>9. ASSUME ParseOption PROVE Typed'
    BY <1>1, <1>2, <1>9 DEF ParseOption, Parsing, given, Typed
<1>10. ASSUME ParseIgnored PROVE Typed'
    BY <1>1, <1>2, <1>10 DEF ParseIgnored, Parsing, given, Typed
<1>11. ASSUME ParseError PROVE Typed'
    BY <1>1, <1>2, <1>11 DEF ParseError, Parsing, given, Typed
<1>12. ASSUME Parsed PROVE Typed'
    BY <1>1, <1>2, <1>12 DEF Parsed, given, Typed
<1>13. ASSUME UNCHANGED vars PROVE Typed'
    <2>1. Lines' = Lines
        BY <1>13, LinesStay DEF vars, given
    <2>2. QED BY <1>1, <1>13, <2>1 DEF vars, given, Typed
<1>14. QED
    BY <1>3, <1>4, <1>5, <1>6, <1>7, <1>8, <1>9, <1>10, <1>11, <1>12, <1>13 DEF Next, Stopped

\* The options a word of these names stands for.
Meant(opts, names, v) ==
    /\ IsSeq(opts) /\ Len(names) \in Nat /\ Len(opts) = Len(names)
    /\ \A n \in 1 .. Len(names) :
         /\ opts[n].name = names[n] /\ opts[n].from = "argv"
         /\ n = Len(names) => opts[n].val = v

LEMMA OptionsFacts ==
    ASSUME argv \in Argvs, NEW k \in 1 .. Len(argv), NEW v
    PROVE  Meant(Options(argv[k], v), argv[k].names, v)
<1> DEFINE w == argv[k]
           N == Len(w.names)
           opt(n) == [from |-> "argv", name |-> w.names[n], val |-> IF n = N THEN v ELSE None]
           s == [n \in 1 .. N |-> opt(n)]
<1>1. N \in Nat /\ DOMAIN w.names = 1 .. N
    BY WordFacts, LenProperties
<1>2. Options(w, v) = s
    BY <1>1 DEF Options
<1>3. \A n \in 1 .. N : s[n] = opt(n)
    OBVIOUS
<1>4. \A n \in 1 .. N : opt(n).name = w.names[n] /\ opt(n).from = "argv" /\ (n = N => opt(n).val = v)
    OBVIOUS
<1> HIDE DEF opt
<1>5. DOMAIN s = 1 .. N
    OBVIOUS
<1> HIDE DEF s
<1>6. s \in Seq(ToSet(s)) /\ Len(s) = N
    <2>1. \A n \in 1 .. N : s[n] \in ToSet(s)
        BY <1>5 DEF ToSet
    <2>2. s = [n \in 1 .. N |-> s[n]]
        BY <1>5 DEF s
    <2>3. s \in [1 .. N -> ToSet(s)]
        BY <2>1, <2>2
    <2>4. s \in Seq(ToSet(s))
        BY <1>1, <2>3
    <2>5. QED BY <1>1, <1>5, <2>4, LenProperties
<1> HIDE DEF N, w
<1>7. QED BY <1>1, <1>2, <1>3, <1>4, <1>6 DEF Meant, IsSeq, N, w

LEMMA GatheredUse ==
    ASSUME argv \in Argvs, NEW k \in 1 .. Len(argv), NEW v, pc = "parse", pc' = "parse",
           Gathered, UseOptions(argv[k], v), Recognized(argv[k])
    PROVE  Gathered'
<1> DEFINE opts == Options(argv[k], v)
           names == argv[k].names
<1>1. o' = ApplyAll(o, opts) /\ seen' = seen \o opts
    BY DEF UseOptions
<1>2. Meant(opts, names, v)
    BY OptionsFacts
<1>3. DOMAIN names = 1 .. Len(names) /\ \A n \in DOMAIN names : names[n] \in Known
    BY WordFacts, LenProperties DEF Recognized
<1> HIDE DEF opts, names
<1>4. /\ IsSeq(opts) /\ Len(opts) \in Nat
      /\ \A n \in 1 .. Len(opts) : opts[n].name \in Known /\ opts[n].from = "argv"
    BY <1>2, <1>3 DEF Meant
<1>5. IsSeq(seen) /\ Applied(o, seen, Len(seen))
    BY DEF Gathered
<1>6. /\ IsSeq(seen \o opts) /\ Len(seen) \in Nat
      /\ DOMAIN seen = 1 .. Len(seen) /\ DOMAIN (seen \o opts) = 1 .. (Len(seen) + Len(opts))
      /\ \A n \in 1 .. (Len(seen) + Len(opts)) :
           (seen \o opts)[n] = IF n <= Len(seen) THEN seen[n] ELSE opts[n - Len(seen)]
    BY <1>4, <1>5, Joined
<1>7. Applied(o', seen', Len(seen'))
    BY <1>1, <1>4, <1>5, AllApplied
<1>8. ASSUME NEW m \in DOMAIN seen', NEW n \in DOMAIN seen', m < n, seen'[m].from = "argv"
      PROVE  seen'[n].from = "argv"
    <2>1. CASE n <= Len(seen)
        <3>1. m \in DOMAIN seen /\ n \in DOMAIN seen /\ seen'[m] = seen[m] /\ seen'[n] = seen[n]
            BY <1>1, <1>4, <1>6, <1>8, <2>1
        <3>2. QED BY <1>8, <3>1 DEF Gathered
    <2>2. CASE ~(n <= Len(seen))
        <3>1. n - Len(seen) \in 1 .. Len(opts) /\ seen'[n] = opts[n - Len(seen)]
            BY <1>1, <1>4, <1>6, <2>2
        <3>2. QED BY <1>4, <3>1
    <2>3. QED BY <2>1, <2>2
<1>9. QED BY <1>1, <1>6, <1>7, <1>8 DEF Gathered

\* The arguments are of no account here.
LEMMA ArgsApplied ==
    ASSUME NEW op, NEW s, NEW m, NEW args, Applied(op, s, m)
    PROVE  Applied([op EXCEPT !.args = args], s, m)
<1> DEFINE r == [op EXCEPT !.args = args]
<1>1. /\ DOMAIN r = DOMAIN op /\ r.op = op.op /\ r.sign = op.sign /\ r.passphrase = op.passphrase
      /\ r.passphraseSet = op.passphraseSet /\ r.passphraseFile = op.passphraseFile
    BY DEF Applied, OpNone
<1> HIDE DEF r
<1>2. Applied(r, s, m)
    BY <1>1 DEF Applied
<1>3. QED BY <1>2 DEF r

LEMMA GatheredStep == Typed /\ Gathered /\ [Next]_vars => Gathered'
<1> SUFFICES ASSUME Typed, Gathered, [Next]_vars PROVE Gathered'
    OBVIOUS
<1>1. argv \in Argvs /\ (i \in DOMAIN argv => i \in 1 .. Len(argv))
    BY WordFacts DEF Typed
<1>2. ASSUME UNCHANGED <<o, seen>>, pc' = "prescan" => pc = "prescan",
             pc' = "config" => pc \in {"prescan", "config"}
      PROVE  Gathered'
    BY <1>2 DEF Gathered
<1>3. ASSUME NEW args, o' = [o EXCEPT !.args = args], seen' = seen, pc = "parse", pc' = "parse"
      PROVE  Gathered'
    BY <1>3, ArgsApplied DEF Gathered
<1>4. ASSUME ConfigLine PROVE Gathered'
    <2> DEFINE line == Lines[i]
               rec == [from |-> "conf", name |-> line.name, val |-> line.val]
               M == Len(seen)
    <2>1. /\ pc = "config" /\ pc' = "config" /\ o' = Apply(o, line.name, line.val)
          /\ seen' = IF line.name \in Known THEN Append(seen, rec) ELSE seen
        BY <1>4 DEF ConfigLine
    <2>2. /\ IsSeq(seen) /\ Applied(o, seen, M) /\ \A k \in DOMAIN seen : seen[k].from = "conf"
        BY <2>1 DEF Gathered
    <2>3. rec.from = "conf" /\ rec.name = line.name /\ rec.val = line.val
        OBVIOUS
    <2> HIDE DEF rec, line
    <2>4. CASE line.name \in Known
        <3>1. seen' = Append(seen, rec)
            BY <2>1, <2>4
        <3>2. /\ IsSeq(seen') /\ M \in Nat /\ DOMAIN seen = 1 .. M
              /\ Len(seen') = M + 1 /\ DOMAIN seen' = 1 .. (M + 1)
              /\ (\A k \in 1 .. M : seen'[k] = seen[k]) /\ seen'[M + 1] = rec
            BY <2>2, <3>1, Longer
        <3> HIDE DEF M
        <3>3. Applied(o, seen', M)
            BY <2>2, <3>2 DEF Applied
        <3>4. Applied(o', seen', M + 1)
            BY <2>1, <2>3, <2>4, <3>2, <3>3, ApplyOne
        <3>5. \A k \in DOMAIN seen' : seen'[k].from = "conf"
            <4>1. \A k \in 1 .. (M + 1) : k \in 1 .. M \/ k = M + 1
                BY <3>2
            <4>2. QED BY <2>2, <2>3, <3>2, <4>1
        <3>6. QED BY <2>1, <3>2, <3>4, <3>5 DEF Gathered
    <2>5. CASE line.name \notin Known
        <3>1. DOMAIN o = DOMAIN OpNone
            BY <2>2 DEF Applied
        <3>2. Effect(o', o, line.name, line.val)
            BY <2>1, <3>1, ApplyFacts
        <3>3. o' = o /\ seen' = seen
            BY <2>1, <2>5, <3>2 DEF Effect
        <3>4. QED BY <1>2, <2>1, <3>3
    <2>6. QED BY <2>4, <2>5
<1>5. ASSUME ParseOption PROVE Gathered'
    <2>1. pc = "parse" /\ pc' = "parse" /\ i \in 1 .. Len(argv) /\ Recognized(argv[i])
        BY <1>1, <1>5 DEF ParseOption, Parsing, Word
    <2>2. UseOptions(argv[i], Text(argv[i + 1])) \/ UseOptions(argv[i], argv[i].val)
        BY <1>5 DEF ParseOption, Word
    <2>3. QED BY <1>1, <2>1, <2>2, GatheredUse
<1>6. ASSUME ParseEnd PROVE Gathered'
    BY <1>3, <1>6 DEF ParseEnd, Parsing
<1>7. ASSUME ParseArg PROVE Gathered'
    BY <1>3, <1>7 DEF ParseArg, Parsing
<1>8. CASE PrescanWord
    BY <1>2, <1>8 DEF PrescanWord
<1>9. CASE OpenConfig
    BY <1>2, <1>9 DEF OpenConfig
<1>10. CASE ConfigEnd
    BY <1>2, <1>10 DEF ConfigEnd
<1>11. CASE ParseIgnored
    BY <1>2, <1>11 DEF ParseIgnored, Parsing
<1>12. CASE ParseError
    BY <1>2, <1>12 DEF ParseError, Parsing
<1>13. CASE Parsed
    BY <1>2, <1>13 DEF Parsed
<1>14. CASE UNCHANGED vars
    BY <1>2, <1>14 DEF vars
<1>15. QED
    BY <1>4, <1>5, <1>6, <1>7, <1>8, <1>9, <1>10, <1>11, <1>12, <1>13, <1>14 DEF Next, Stopped
-----------------------------------------------------------------------------
(* The steps, for the home directory.                                       *)

\* From one word to the next, over one that is not in H or over none.
LEMMA Between ==
    ASSUME NEW H, H \subseteq Nat, NEW k \in Nat, NEW n \in {k + 1, k + 2}, n = k + 2 => k + 1 \notin H
    PROVE  NoHome(H, k, n) /\ (k \notin H => NoHome(H, k - 1, n))
<1>1. ASSUME NEW j \in H
      PROVE  ~(k < j /\ j < n) /\ (k - 1 < j /\ j < n => j = k)
    <2>1. j \in Nat /\ (n = k + 2 => j # k + 1)
        BY <1>1
    <2>2. QED BY <2>1
<1>2. QED BY <1>1 DEF NoHome

\* Behind the last word there is none.
LEMMA Beyond ==
    ASSUME NEW a, NEW H, NEW m \in Nat, H \subseteq 1 .. m, NEW c, NEW h, NEW k \in Nat, m < k,
           NEW n \in Nat, k <= n, HomeUpTo(a, H, c, h, k)
    PROVE  HomeUpTo(a, H, c, h, n)
<1>1. \A j \in H : ~(k - 1 < j)
    OBVIOUS
<1>2. NoHome(H, k - 1, n)
    BY <1>1 DEF NoHome
<1>3. k > 0 /\ H \subseteq Nat
    OBVIOUS
<1>4. QED BY <1>2, <1>3, HomeKept

\* The first look goes on behind the word at k, and behind what it takes for its
\* value.
LEMMA FirstAdvance ==
    ASSUME argv \in Argvs, NEW k \in 1 .. Len(argv), ~Guessed[k], NEW n \in {k + 1, k + 2},
           n = k + 2 => /\ argv[k].lex = "long" /\ argv[k].names \in {<<"homedir">>, <<"options">>},
           n = k + 1 /\ k < Len(argv) =>
              ~(argv[k].lex = "long" /\ argv[k].names \in {<<"homedir">>, <<"options">>})
    PROVE  /\ n \in Nat /\ k < n
           /\ NoHome(FirstHomes, k, n) /\ (k \notin FirstHomes => NoHome(FirstHomes, k - 1, n))
           /\ n \in DOMAIN argv => ~Guessed[n]
<1>1. /\ Len(argv) \in Nat /\ DOMAIN argv = 1 .. Len(argv) /\ k \in Nat /\ k \in DOMAIN argv
      /\ FirstHomes \subseteq 1 .. Len(argv)
    BY WordFacts, HomesFacts
<1>2. /\ k + 1 \in Nat /\ k + 1 > 1 /\ (k + 1) - 1 = k /\ k + 2 \in Nat /\ (k + 2) - 1 = k + 1
      /\ n \in Nat /\ k < n /\ k + 1 # k + 2 /\ FirstHomes \subseteq Nat
    BY <1>1
<1>3. CASE n = k + 1
    <2>1. n \in DOMAIN argv => k < Len(argv)
        BY <1>1, <1>3
    <2>2. n \in DOMAIN argv => ~Guessed[n]
        BY <1>1, <1>2, <1>3, <2>1, WordValues
    <2>3. QED BY <1>1, <1>2, <1>3, <2>2, Between
<1>4. CASE n = k + 2
    <2>1. Guessed[k + 1]
        BY <1>1, <1>2, <1>4, WordValues
    <2>2. ~Guessed[k + 2]
        BY <1>2, <2>1, WordValues
    <2>3. k + 1 \notin FirstHomes
        BY <2>1 DEF FirstHomes
    <2>4. QED BY <1>1, <1>2, <1>4, <2>2, <2>3, Between
<1>5. QED BY <1>3, <1>4

\* The second look is done with the word at k, and the next one is at n.
Advanced(k, n) ==
    /\ n \in Nat /\ k < n
    /\ NoHome(SecondHomes, k, n) /\ (k \notin SecondHomes => NoHome(SecondHomes, k - 1, n))
    /\ n \in DOMAIN argv => Starts(IsValue, argv, n)

LEMMA HomeTakes ==
    ASSUME NEW w, w.names = <<"homedir">>, w.lex = "long" PROVE TakesNext(w)
BY DEF TakesNext, Arg

LEMMA Advance ==
    ASSUME argv \in Argvs, NEW k \in 1 .. Len(argv), Starts(IsValue, argv, k), argv[k].lex # "end"
    PROVE  Advanced(k, IF TakesNext(argv[k]) THEN k + 2 ELSE k + 1)
<1>1. /\ Len(argv) \in Nat /\ DOMAIN argv = 1 .. Len(argv) /\ k \in Nat /\ SecondHomes \subseteq 1 .. Len(argv)
    BY WordFacts, HomesFacts
<1>2. /\ k + 1 \in Nat /\ k + 2 \in Nat /\ k < k + 1 /\ k < k + 2 /\ k + 1 # k + 2 /\ SecondHomes \subseteq Nat
    BY <1>1
<1>3. CASE TakesNext(argv[k])
    <2>1. IsValue[k + 1] /\ Starts(IsValue, argv, k + 2)
        BY <1>1, <1>3, NextStarts
    <2>2. k + 1 \notin SecondHomes
        BY <2>1 DEF SecondHomes
    <2>3. NoHome(SecondHomes, k, k + 2) /\ (k \notin SecondHomes => NoHome(SecondHomes, k - 1, k + 2))
        BY <1>1, <1>2, <2>2, Between
    <2>4. QED BY <1>2, <1>3, <2>1, <2>3 DEF Advanced
<1>4. CASE ~TakesNext(argv[k])
    <2>1. Starts(IsValue, argv, k + 1)
        BY <1>1, <1>4, NextStarts
    <2>2. NoHome(SecondHomes, k, k + 1) /\ (k \notin SecondHomes => NoHome(SecondHomes, k - 1, k + 1))
        BY <1>1, <1>2, Between
    <2>3. QED BY <1>2, <1>4, <2>1, <2>2 DEF Advanced
<1>5. QED BY <1>3, <1>4

\* Behind -- there is nothing to be found.
LEMMA AdvanceEnd ==
    ASSUME argv \in Argvs, NEW k \in 1 .. Len(argv), Starts(IsValue, argv, k), argv[k].lex = "end"
    PROVE  Advanced(k, Len(argv) + 1)
<1>1. /\ Len(argv) \in Nat /\ DOMAIN argv = 1 .. Len(argv) /\ SecondHomes \subseteq 1 .. Len(argv)
      /\ k \in Nat /\ k > 0
    BY WordFacts, HomesFacts
<1>2. ASSUME NEW j \in SecondHomes, k <= j PROVE FALSE
    <2>1. j \in 1 .. Len(argv) /\ j \in Nat /\ IsHome(argv, j) /\ ~IsValue[j] /\ ~AfterEnd(j)
        BY <1>1, HomesFacts DEF SecondHomes
    <2>2. CASE j = k
        BY <2>1, <2>2 DEF IsHome
    <2>3. CASE k < j
        <3>1. ~Starts(IsValue, argv, j)
            BY <1>1, <2>1, <2>3, NoneStarts
        <3>2. QED BY <1>1, <2>1, <3>1, StartFacts
    <2>4. QED BY <1>1, <1>2, <2>1, <2>2, <2>3
<1>3. ASSUME NEW j \in SecondHomes PROVE ~(k < j) /\ ~(k - 1 < j)
    <2>1. j \in Nat /\ ~(k <= j)
        BY <1>1, <1>2, <1>3
    <2>2. QED BY <1>1, <2>1
<1>4. NoHome(SecondHomes, k, Len(argv) + 1) /\ NoHome(SecondHomes, k - 1, Len(argv) + 1)
    BY <1>3 DEF NoHome
<1>5. Len(argv) + 1 \in Nat /\ k < Len(argv) + 1 /\ Len(argv) + 1 \notin DOMAIN argv
    BY <1>1
<1>6. QED BY <1>4, <1>5 DEF Advanced

\* What the second look makes of a word.
LEMMA LookingParse ==
    ASSUME Typed, Looking, pc = "parse", i \in 1 .. Len(argv), Advanced(i, i'),
           argv' = argv, found' = found, pc' = "parse", NoConfHome(seen') => NoConfHome(seen),
           o'.homedir = IF i \in SecondHomes THEN HomeVal(argv, i) ELSE o.homedir
    PROVE  Looking'
<1>1. Len(argv) \in Nat /\ i \in Nat /\ i > 0 /\ SecondHomes \subseteq Nat
    BY WordFacts, HomesFacts DEF Typed
<1>2. IsValue' = IsValue /\ FirstHomes' = FirstHomes /\ SecondHomes' = SecondHomes
    BY ValuesStay, HomesStay
<1>3. /\ i' \in Nat /\ i < i'
      /\ NoHome(SecondHomes, i, i') /\ (i \notin SecondHomes => NoHome(SecondHomes, i - 1, i'))
      /\ i' \in DOMAIN argv => Starts(IsValue, argv, i')
    BY DEF Advanced
<1>4. HomeUpTo(argv, SecondHomes, NoConfHome(seen'), o'.homedir, i')
    <2>1. HomeUpTo(argv, SecondHomes, NoConfHome(seen), o.homedir, i)
        BY DEF Looking
    <2>2. CASE i \in SecondHomes
        BY <1>3, <2>2, HomeNamed
    <2>3. CASE i \notin SecondHomes
        <3>1. NoHome(SecondHomes, i - 1, i') /\ i <= i' /\ o'.homedir = o.homedir
            BY <1>1, <1>3, <2>3
        <3>2. QED BY <1>1, <1>3, <2>1, <3>1, HomeKept
    <2>4. QED BY <2>2, <2>3
<1>5. HomeUpTo(argv, FirstHomes, TRUE, found.homedir, Len(argv) + 2)
    BY DEF Looking
<1>6. QED BY <1>2, <1>3, <1>4, <1>5 DEF Looking

\* What a word's options make of the home directory.
LEMMA HomeUsed ==
    ASSUME argv \in Argvs, NEW k \in 1 .. Len(argv), NEW v, Gathered, Recognized(argv[k]),
           UseOptions(argv[k], v), IsHome(argv, k) => v = HomeVal(argv, k)
    PROVE  /\ o'.homedir = IF IsHome(argv, k) THEN HomeVal(argv, k) ELSE o.homedir
           /\ NoConfHome(seen') => NoConfHome(seen)
<1> DEFINE opts == Options(argv[k], v)
           names == argv[k].names
<1>1. o' = ApplyAll(o, opts) /\ seen' = seen \o opts
    BY DEF UseOptions
<1>2. Meant(opts, names, v)
    BY OptionsFacts
<1>3. /\ names \in Seq(STRING) /\ DOMAIN names = 1 .. Len(names)
      /\ \A n \in DOMAIN names : names[n] \in Known
    BY WordFacts, LenProperties DEF Recognized
<1>4. IsHome(argv, k) => Len(names) = 1 /\ names[1] = "homedir"
    BY DEF IsHome
<1>5. ASSUME ~IsHome(argv, k), NEW n \in 1 .. Len(names) PROVE names[n] # "homedir"
    <2>1. CASE argv[k].lex \in {"long", "assigned"}
        <3>1. Len(names) = 1
            BY <2>1, WordFacts
        <3>2. names # <<"homedir">>
            BY <1>5, <2>1 DEF IsHome
        <3>3. n = 1 /\ names[1] # "homedir"
            BY <2>1, <3>1, <3>2, OneName
        <3>4. QED BY <3>3
    <2>2. CASE argv[k].lex = "short"
        <3>1. "homedir" \notin ToSet(names)
            BY <2>2, WordFacts
        <3>2. QED BY <1>3, <3>1 DEF ToSet
    <2>3. CASE argv[k].lex \in {"end", "plain"}
        <3>1. names = << >>
            BY <2>3, WordFacts
        <3>2. Len(names) = 0
            BY <3>1
        <3>3. QED BY <3>2
    <2>4. QED BY <2>1, <2>2, <2>3, WordFacts
<1> HIDE DEF opts, names
<1>6. /\ IsSeq(opts) /\ Len(opts) \in Nat /\ Len(opts) = Len(names)
      /\ \A n \in 1 .. Len(opts) : opts[n].name = names[n] /\ opts[n].name \in Known
                                   /\ (n = Len(names) => opts[n].val = v)
    BY <1>2, <1>3 DEF Meant
<1>7. IsSeq(seen) /\ Applied(o, seen, Len(seen)) /\ DOMAIN o = DOMAIN OpNone
    BY DEF Gathered, Applied
<1>8. ASSUME IsHome(argv, k) PROVE o'.homedir = HomeVal(argv, k)
    <2>1. 1 \in 1 .. Len(opts) /\ Len(opts) = 1 /\ opts[1].name = "homedir" /\ opts[1].val = v
        BY <1>4, <1>6, <1>8
    <2>2. PICK f : Applying(f, o, opts)
        BY <1>6, ApplyAllFacts
    <2>3. f[0] = o /\ o' = f[1] /\ f[1] = Apply(f[1 - 1], opts[1].name, opts[1].val)
        BY <1>1, <2>1, <2>2 DEF Applying
    <2>4. o' = Apply(o, "homedir", v)
        BY <2>1, <2>3
    <2>5. Effect(o', o, "homedir", v)
        BY <1>7, <2>4, ApplyFacts
    <2>6. QED BY <1>8, <2>5 DEF Effect
<1>9. ASSUME ~IsHome(argv, k) PROVE o'.homedir = o.homedir
    <2>1. \A n \in 1 .. Len(opts) : opts[n].name # "homedir"
        BY <1>5, <1>6, <1>9
    <2>2. ApplyAll(o, opts).homedir = o.homedir
        BY <1>6, <1>7, <2>1, AllApplied
    <2>3. QED BY <1>1, <1>9, <2>2
<1>10. NoConfHome(seen') => NoConfHome(seen)
    <2>1. /\ Len(seen) \in Nat /\ Len(opts) \in Nat
          /\ DOMAIN seen = 1 .. Len(seen) /\ DOMAIN seen' = 1 .. (Len(seen) + Len(opts))
          /\ \A n \in 1 .. (Len(seen) + Len(opts)) :
               seen'[n] = IF n <= Len(seen) THEN seen[n] ELSE opts[n - Len(seen)]
        BY <1>1, <1>6, <1>7, Joined
    <2>2. \A n \in DOMAIN seen : n \in DOMAIN seen' /\ seen'[n] = seen[n]
        BY <2>1
    <2>3. QED BY <2>2 DEF NoConfHome
<1>11. QED BY <1>8, <1>9, <1>10

\* Where the second look begins.
LEMMA LookingBegins ==
    ASSUME argv \in Argvs, argv' = argv, i' = 1, pc' = "parse",
           HomeUpTo(argv, FirstHomes, TRUE, found'.homedir, Len(argv) + 2),
           NoConfHome(seen') => o'.homedir = None
    PROVE  Looking'
<1>1. Len(argv) \in Nat /\ SecondHomes \subseteq Nat \ {0}
    BY WordFacts, HomesFacts
<1>2. IsValue' = IsValue /\ FirstHomes' = FirstHomes /\ SecondHomes' = SecondHomes
    BY ValuesStay, HomesStay
<1>3. HomeUpTo(argv, SecondHomes, NoConfHome(seen'), o'.homedir, 1) /\ Starts(IsValue, argv, 1)
    BY <1>1, HomeStart, FirstStarts
<1>4. QED BY <1>2, <1>3 DEF Looking

LEMMA LookingPrescan ==
    ASSUME Typed, Looking, PrescanWord PROVE Looking'
<1>1. /\ argv \in Argvs /\ Len(argv) \in Nat /\ DOMAIN argv = 1 .. Len(argv)
      /\ pc = "prescan" /\ pc' = "prescan" /\ argv' = argv /\ i \in 1 .. Len(argv) /\ i \in Nat /\ i > 0
      /\ DOMAIN found = {"homedir", "file", "none"} /\ Word = argv[i]
    BY WordFacts DEF Typed, PrescanWord, given, Word
<1>2. HomeUpTo(argv, FirstHomes, TRUE, found.homedir, i) /\ ~Guessed[i]
    BY <1>1 DEF Looking
<1>3. Guessed' = Guessed /\ FirstHomes' = FirstHomes
    BY <1>1, ValuesStay, HomesStay
<1>4. SUFFICES /\ HomeUpTo(argv, FirstHomes, TRUE, found'.homedir, i')
               /\ i' \in DOMAIN argv => ~Guessed[i']
    BY <1>1, <1>3 DEF Looking
<1>5. FirstHomes \subseteq Nat /\ i + 1 \in Nat /\ i + 2 \in Nat /\ i <= i + 1 /\ i <= i + 2 /\ i + 1 # i + 2
    BY <1>1, HomesFacts
<1>6. /\ i \in FirstHomes <=> IsHome(argv, i) /\ (argv[i].lex = "long" => i < Len(argv))
      /\ i < Len(argv) => i # Len(argv)
    BY <1>1, <1>2 DEF FirstHomes, Homes, IsHome
<1> DEFINE Takes == argv[i].lex = "long" /\ argv[i].names \in {<<"homedir">>, <<"options">>}
<1>7. ASSUME i \notin FirstHomes, found'.homedir = found.homedir,
             (i' = i + 1 /\ (i < Len(argv) => ~Takes)) \/ (i' = i + 2 /\ Takes)
      PROVE  HomeUpTo(argv, FirstHomes, TRUE, found'.homedir, i') /\ (i' \in DOMAIN argv => ~Guessed[i'])
    <2>1. i' \in {i + 1, i + 2} /\ (i' = i + 2 => Takes) /\ (i' = i + 1 /\ i < Len(argv) => ~Takes)
        BY <1>5, <1>7
    <2>2. NoHome(FirstHomes, i - 1, i') /\ (i' \in DOMAIN argv => ~Guessed[i'])
        BY <1>1, <1>2, <1>7, <2>1, FirstAdvance
    <2>3. i <= i' /\ i' \in Nat
        BY <1>5, <2>1
    <2>4. QED BY <1>1, <1>2, <1>5, <1>7, <2>2, <2>3, HomeKept
<1>8. ASSUME i \in FirstHomes, found'.homedir = HomeVal(argv, i),
             (i' = i + 1 /\ ~Takes) \/ (i' = i + 2 /\ Takes)
      PROVE  HomeUpTo(argv, FirstHomes, TRUE, found'.homedir, i') /\ (i' \in DOMAIN argv => ~Guessed[i'])
    <2>1. i' \in {i + 1, i + 2} /\ (i' = i + 2 => Takes) /\ (i' = i + 1 /\ i < Len(argv) => ~Takes)
        BY <1>5, <1>8
    <2>2. NoHome(FirstHomes, i, i') /\ (i' \in DOMAIN argv => ~Guessed[i']) /\ i < i'
        BY <1>1, <1>2, <2>1, FirstAdvance
    <2>3. QED BY <1>8, <2>2, HomeNamed
<1>9. <<"homedir">>[1] = "homedir" /\ <<"options">>[1] = "options" /\ <<"no-options">>[1] = "no-options"
    OBVIOUS
<1>10. CASE PrescanField("homedir", "homedir")
    <2>1. IsHome(argv, i)
        BY <1>1, <1>10 DEF PrescanField, IsOption, IsHome
    <2>2. CASE argv[i].lex = "assigned"
        <3>1. i' = i + 1 /\ found'.homedir = HomeVal(argv, i)
            BY <1>1, <1>10, <2>2 DEF PrescanField, HomeVal
        <3>2. i \in FirstHomes /\ ~Takes
            BY <1>6, <2>1, <2>2
        <3> HIDE DEF Takes
        <3>3. QED BY Zenon, <1>8, <3>1, <3>2
    <2>3. CASE argv[i].lex = "long" /\ i < Len(argv)
        <3>1. i' = i + 2 /\ found'.homedir = HomeVal(argv, i)
            <4> DEFINE v == Text(argv[i + 1])
            <4>1. v = HomeVal(argv, i)
                BY <2>3 DEF HomeVal
            <4>2. i # Len(argv) /\ argv[i].lex # "assigned"
                BY <1>6, <2>3
            <4>3. i' = i + 2 /\ found' = [found EXCEPT !["homedir"] = v]
                BY Zenon, <1>1, <1>10, <4>2 DEF PrescanField
            <4> HIDE DEF v
            <4>4. QED BY <1>1, <4>1, <4>3
        <3>2. i \in FirstHomes /\ Takes
            BY <1>6, <2>1, <2>3 DEF IsHome
        <3>3. QED BY Zenon, <1>8, <3>1, <3>2
    <2>4. CASE argv[i].lex = "long" /\ i = Len(argv)
        <3>1. i' = i + 1 /\ found' = found /\ ~(i < Len(argv))
            BY <1>1, <1>10, <2>4 DEF PrescanField
        <3>2. i \notin FirstHomes
            BY <1>6, <2>4, <3>1
        <3> HIDE DEF Takes
        <3>3. QED BY Zenon, <1>7, <3>1, <3>2
    <2>5. QED BY <1>1, <1>10, <2>2, <2>3, <2>4 DEF PrescanField
<1>11. CASE PrescanField("options", "file")
    <2>1. argv[i].names = <<"options">> /\ argv[i].lex \in {"long", "assigned"}
        BY <1>1, <1>11 DEF PrescanField, IsOption
    <2>2. i \notin FirstHomes
        BY <1>6, <1>9, <2>1 DEF IsHome
    <2>3. /\ found'.homedir = found.homedir
          /\ \/ i' = i + 1 /\ (argv[i].lex = "assigned" \/ i = Len(argv))
             \/ i' = i + 2 /\ argv[i].lex = "long"
        BY <1>1, <1>11 DEF PrescanField
    <2>4. (i' = i + 1 /\ (i < Len(argv) => ~Takes)) \/ (i' = i + 2 /\ Takes)
        <3>1. argv[i].names \in {<<"homedir">>, <<"options">>}
            BY <2>1
        <3>2. argv[i].lex = "assigned" => argv[i].lex # "long"
            OBVIOUS
        <3>3. QED BY Zenon, <1>6, <2>3, <3>1, <3>2
    <2> HIDE DEF Takes
    <2>5. QED BY Zenon, <1>7, <2>2, <2>3, <2>4
<1>12. CASE IsOption("no-options") /\ Word.lex = "long" /\ found' = [found EXCEPT !.none = TRUE] /\ i' = i + 1
    <2>1. ~IsHome(argv, i) /\ ~Takes
        BY <1>1, <1>9, <1>12 DEF IsHome, IsOption
    <2>2. found'.homedir = found.homedir
        BY <1>1, <1>12
    <2>3. i \notin FirstHomes
        BY <1>6, <2>1
    <2> HIDE DEF Takes
    <2>4. QED BY Zenon, <1>7, <1>12, <2>1, <2>2, <2>3
<1>13. CASE ~IsOption("homedir") /\ ~IsOption("options") /\ i' = i + 1 /\ UNCHANGED found
    <2>1. ~IsHome(argv, i) /\ ~Takes
        BY <1>1, <1>13 DEF IsHome, IsOption
    <2>2. i \notin FirstHomes
        BY <1>6, <2>1
    <2> HIDE DEF Takes
    <2>3. QED BY Zenon, <1>7, <1>13, <2>1, <2>2
<1>14. QED BY <1>10, <1>11, <1>12, <1>13 DEF PrescanWord

LEMMA LookingStep == OptionsInv /\ [Next]_vars => Looking'
<1> SUFFICES ASSUME Typed, Gathered, Looking, [Next]_vars PROVE Looking'
    BY DEF OptionsInv
<1>1. argv' = argv
    BY DEF Next, vars, given, PrescanWord, OpenConfig, ConfigLine, ConfigEnd, ParseEnd, ParseArg,
           ParseOption, ParseIgnored, ParseError, Parsed, Stopped
<1>2. /\ IsValue' = IsValue /\ Guessed' = Guessed
      /\ FirstHomes' = FirstHomes /\ SecondHomes' = SecondHomes
    BY <1>1, ValuesStay, HomesStay
<1>4. /\ argv \in Argvs /\ Len(argv) \in Nat /\ DOMAIN argv = 1 .. Len(argv)
      /\ i \in Nat /\ i > 0 /\ Word = argv[i] /\ Len(argv) + 2 \in Nat
      /\ FirstHomes \subseteq 1 .. Len(argv) /\ SecondHomes \subseteq 1 .. Len(argv)
      /\ FirstHomes \subseteq Nat /\ SecondHomes \subseteq Nat
    <2>1. /\ argv \in Argvs /\ Len(argv) \in Nat /\ DOMAIN argv = 1 .. Len(argv)
          /\ FirstHomes \subseteq 1 .. Len(argv) /\ SecondHomes \subseteq 1 .. Len(argv)
          /\ i \in Nat /\ i > 0 /\ Word = argv[i]
        BY WordFacts, HomesFacts DEF Typed, Word
    <2>2. QED BY <2>1
<1>5. ASSUME OpenConfig PROVE Looking'
    <2>1. /\ pc = "prescan" /\ i > Len(argv) /\ i' = 1 /\ found' = found /\ o' = o /\ seen' = seen
          /\ pc' \in {"parse", "error", "config"}
        BY <1>4, <1>5 DEF OpenConfig
    <2>2. o'.homedir = None
        BY <2>1 DEF Gathered, OpNone
    <2>3. HomeUpTo(argv, FirstHomes, TRUE, found.homedir, Len(argv) + 2)
        <3>1. i <= Len(argv) + 2
            BY <2>1 DEF Typed
        <3>2. HomeUpTo(argv, FirstHomes, TRUE, found.homedir, i)
            BY <2>1 DEF Looking
        <3>3. QED BY <1>4, <2>1, <3>1, <3>2, Beyond
    <2>4. CASE pc' = "parse"
        BY <1>1, <1>4, <2>1, <2>2, <2>3, <2>4, LookingBegins
    <2>5. CASE pc' # "parse"
        BY <1>1, <1>2, <2>1, <2>2, <2>3, <2>5 DEF Looking
    <2>6. QED BY <2>4, <2>5
<1>6. ASSUME ConfigLine PROVE Looking'
    <2> DEFINE line == Lines[i]
               rec == [from |-> "conf", name |-> line.name, val |-> line.val]
    <2>1. /\ pc = "config" /\ pc' = "config" /\ found' = found /\ o' = Apply(o, line.name, line.val)
          /\ seen' = IF line.name \in Known THEN Append(seen, rec) ELSE seen
        BY <1>6 DEF ConfigLine
    <2>2. rec.from = "conf" /\ rec.name = line.name /\ "homedir" \in Known
        BY DEF Known, Arg
    <2>3. IsSeq(seen) /\ DOMAIN o = DOMAIN OpNone
        BY DEF Gathered, Applied
    <2> HIDE DEF rec, line
    <2>4. Effect(o', o, line.name, line.val)
        BY <2>1, <2>3, ApplyFacts
    <2>5. NoConfHome(seen') => NoConfHome(seen) /\ line.name # "homedir"
        <3>1. CASE line.name \in Known
            <4>1. /\ Len(seen) \in Nat /\ DOMAIN seen = 1 .. Len(seen) /\ DOMAIN seen' = 1 .. (Len(seen) + 1)
                  /\ (\A k \in 1 .. Len(seen) : seen'[k] = seen[k]) /\ seen'[Len(seen) + 1] = rec
                BY <2>1, <2>3, <3>1, Longer
            <4>2. /\ Len(seen) + 1 \in DOMAIN seen' /\ seen'[Len(seen) + 1] = rec
                  /\ \A k \in DOMAIN seen : k \in DOMAIN seen' /\ seen'[k] = seen[k]
                BY <4>1
            <4>3. QED BY <2>2, <4>2 DEF NoConfHome
        <3>2. CASE line.name \notin Known
            BY <2>1, <2>2, <3>2
        <3>3. QED BY <3>1, <3>2
    <2>6. NoConfHome(seen') => o'.homedir = None
        BY <2>1, <2>4, <2>5 DEF Effect, Looking
    <2>7. HomeUpTo(argv, FirstHomes, TRUE, found.homedir, Len(argv) + 2)
        BY <2>1 DEF Looking
    <2>8. QED BY <1>1, <1>2, <2>1, <2>6, <2>7 DEF Looking
<1>7. ASSUME ConfigEnd PROVE Looking'
    <2>1. pc = "config" /\ pc' = "parse" /\ i' = 1 /\ found' = found /\ o' = o /\ seen' = seen
        BY <1>7 DEF ConfigEnd
    <2>2. HomeUpTo(argv, FirstHomes, TRUE, found.homedir, Len(argv) + 2)
        BY <2>1 DEF Looking
    <2>3. NoConfHome(seen) => o.homedir = None
        BY <2>1 DEF Looking
    <2>4. QED BY <1>1, <1>4, <2>1, <2>2, <2>3, LookingBegins
<1>8. ASSUME Parsing
      PROVE  /\ pc = "parse" /\ i \in 1 .. Len(argv) /\ Starts(IsValue, argv, i)
             /\ i \in SecondHomes <=> IsHome(argv, i) /\ (argv[i].lex = "long" => i < Len(argv))
    <2>1. pc = "parse" /\ i \in 1 .. Len(argv) /\ Starts(IsValue, argv, i)
        BY <1>4, <1>8 DEF Parsing, Looking
    <2>2. ~IsValue[i] /\ ~AfterEnd(i)
        BY <1>4, <2>1, StartFacts
    <2>3. QED BY <1>4, <2>1, <2>2 DEF SecondHomes, Homes, IsHome
<1>9. ASSUME ParseEnd PROVE Looking'
    <2>1. /\ Parsing /\ argv[i].lex = "end" /\ i' = Len(argv) + 1 /\ found' = found /\ seen' = seen
          /\ pc' = pc /\ o' = [o EXCEPT !.args = @ \o [k \in 1 .. (Len(argv) - i) |-> Text(argv[i + k])]]
        BY <1>4, <1>9 DEF ParseEnd
    <2>2. Advanced(i, i')
        BY <1>4, <1>8, <2>1, AdvanceEnd
    <2>3. o'.homedir = o.homedir
        BY <2>1
    <2>4. i \notin SecondHomes
        BY <1>8, <2>1 DEF IsHome
    <2>5. QED BY <1>1, <1>8, <2>1, <2>2, <2>3, <2>4, LookingParse
<1>10. ASSUME ParseArg PROVE Looking'
    <2>1. /\ Parsing /\ argv[i].lex = "plain" /\ i' = i + 1 /\ found' = found /\ seen' = seen
          /\ pc' = pc /\ o' = [o EXCEPT !.args = Append(@, Word.val)]
        BY <1>4, <1>10 DEF ParseArg
    <2>2. ~TakesNext(argv[i]) /\ i \notin SecondHomes /\ argv[i].lex # "end"
        BY <1>8, <2>1 DEF TakesNext, IsHome
    <2>3. Advanced(i, i')
        <3>1. Advanced(i, IF TakesNext(argv[i]) THEN i + 2 ELSE i + 1)
            BY <1>4, <1>8, <2>1, <2>2, Advance
        <3>2. QED BY <2>1, <2>2, <3>1
    <2>4. o'.homedir = o.homedir
        BY <2>1
    <2>5. QED BY <1>1, <1>8, <2>1, <2>2, <2>3, <2>4, LookingParse
<1>11. ASSUME ParseOption PROVE Looking'
    <2>1. /\ Parsing /\ argv[i].names # << >> /\ Recognized(argv[i]) /\ ~Ignored(argv[i])
          /\ IF TakesNext(argv[i])
             THEN i < Len(argv) /\ UseOptions(argv[i], Text(argv[i + 1])) /\ i' = i + 2
             ELSE UseOptions(argv[i], argv[i].val) /\ i' = i + 1
          /\ found' = found /\ pc' = pc
        BY <1>4, <1>11 DEF ParseOption
    <2>2. argv[i].lex # "end"
        BY <1>4, <1>8, <2>1, WordFacts
    <2>3. Advanced(i, i')
        <3>1. Advanced(i, IF TakesNext(argv[i]) THEN i + 2 ELSE i + 1)
            BY <1>4, <1>8, <2>1, <2>2, Advance
        <3>2. QED BY <2>1, <3>1
    <2>4. IsHome(argv, i) => TakesNext(argv[i]) = (argv[i].lex = "long")
        BY HomeTakes DEF IsHome, TakesNext
    <2> DEFINE v == IF TakesNext(argv[i]) THEN Text(argv[i + 1]) ELSE argv[i].val
    <2>5. UseOptions(argv[i], v)
        BY <2>1
    <2>6. IsHome(argv, i) => v = HomeVal(argv, i)
        BY <2>4 DEF HomeVal, IsHome
    <2> HIDE DEF v
    <2>7. /\ o'.homedir = IF IsHome(argv, i) THEN HomeVal(argv, i) ELSE o.homedir
          /\ NoConfHome(seen') => NoConfHome(seen)
        BY <1>4, <1>8, <2>1, <2>5, <2>6, HomeUsed
    <2>8. IsHome(argv, i) <=> i \in SecondHomes
        BY <1>8, <2>1, <2>4
    <2>9. QED BY <1>1, <1>8, <2>1, <2>3, <2>7, <2>8, LookingParse
<1>12. ASSUME ParseIgnored PROVE Looking'
    <2>1. /\ Parsing /\ Ignored(argv[i]) /\ found' = found /\ pc' = pc /\ o' = o /\ seen' = seen
          /\ i' = IF TakesNext(argv[i]) THEN i + 2 ELSE i + 1
        BY <1>4, <1>12 DEF ParseIgnored
    <2>2. i \notin SecondHomes /\ argv[i].lex # "end"
        <3>1. argv[i].names[1] # "homedir"
            BY <2>1 DEF Ignored, IgnoredNoArg, IgnoredWithArg
        <3>2. <<"homedir">>[1] = "homedir"
            OBVIOUS
        <3>3. QED BY <1>8, <2>1, <3>1, <3>2 DEF IsHome, Ignored
    <2>3. Advanced(i, i')
        BY <1>4, <1>8, <2>1, <2>2, Advance
    <2>4. QED BY <1>1, <1>8, <2>1, <2>2, <2>3, LookingParse
<1>13. ASSUME ParseError PROVE Looking'
    BY <1>13 DEF ParseError, Looking
<1>14. ASSUME Parsed PROVE Looking'
    <2>1. /\ pc = "parse" /\ pc' = "done" /\ i > Len(argv) /\ found' = found /\ o' = o /\ seen' = seen
        BY <1>4, <1>14 DEF Parsed
    <2>2. /\ HomeUpTo(argv, FirstHomes, TRUE, found.homedir, Len(argv) + 2)
          /\ HomeUpTo(argv, SecondHomes, NoConfHome(seen), o.homedir, i)
        BY <2>1 DEF Looking
    <2>3. HomeUpTo(argv, SecondHomes, NoConfHome(seen), o.homedir, Len(argv) + 2)
        <3>1. i <= Len(argv) + 2
            BY <2>1 DEF Typed
        <3>2. QED BY <1>4, <2>1, <2>2, <3>1, Beyond
    <2>4. QED BY <1>1, <1>2, <2>1, <2>2, <2>3 DEF Looking
<1>15. ASSUME UNCHANGED vars PROVE Looking'
    BY <1>2, <1>15 DEF Looking, vars, given
<1>16. CASE PrescanWord
    BY <1>16, LookingPrescan
<1>17. QED
    BY <1>5, <1>6, <1>7, <1>9, <1>10, <1>11, <1>12, <1>13, <1>14, <1>15, <1>16 DEF Next, Stopped

LEMMA OptionsBegin == Init => OptionsInv
<1> SUFFICES ASSUME Init PROVE OptionsInv
    OBVIOUS
<1>1. /\ argv \in Argvs /\ conf \in Confs /\ pc = "prescan" /\ i = 1 /\ o = OpNone /\ seen = << >>
      /\ found = [homedir |-> None, file |-> None, none |-> FALSE]
    BY DEF Init
<1>2. Len(argv) \in Nat
    BY <1>1, WordFacts
<1>3. Typed
    BY <1>1, <1>2 DEF Typed
<1>4. Gathered
    <2>1. IsSeq(<< >>) /\ Len(<< >>) = 0 /\ DOMAIN << >> = {}
        BY EmptySeq DEF IsSeq
    <2>2. /\ OpNone.op = None /\ None \notin Command \union {"sign"} /\ OpNone.passphraseFile = None
        BY OptionsAssumption DEF OpNone, Known
    <2>3. \A k \in 1 .. 0 : FALSE
        OBVIOUS
    <2>4. Applied(OpNone, << >>, 0)
        BY <2>2, <2>3 DEF Applied
    <2>5. QED BY <1>1, <2>1, <2>4 DEF Gathered
<1>5. Looking
    <2>1. FirstHomes \subseteq Nat \ {0}
        BY <1>1, <1>2, HomesFacts
    <2>2. HomeUpTo(argv, FirstHomes, TRUE, None, 1)
        BY <2>1, HomeStart
    <2>3. QED BY <1>1, <2>2, FirstStarts DEF Looking
<1>6. QED BY <1>3, <1>4, <1>5 DEF OptionsInv

LEMMA OptionsStep == OptionsInv /\ [Next]_vars => OptionsInv'
BY TypedStep, GatheredStep, LookingStep DEF OptionsInv

\* What the invariant says at the end.
LEMMA OptionsEnd == OptionsInv => TypeOK /\ CommandsCombine /\ HomeAgrees
<1> SUFFICES ASSUME OptionsInv PROVE TypeOK /\ CommandsCombine /\ HomeAgrees
    OBVIOUS
<1>1. /\ IsSeq(seen) /\ Applied(o, seen, Len(seen)) /\ argv \in Argvs
      /\ Len(argv) \in Nat /\ DOMAIN argv = 1 .. Len(argv)
    BY WordFacts DEF OptionsInv, Typed, Gathered
<1>2. Len(seen) \in Nat /\ DOMAIN seen = 1 .. Len(seen)
    BY <1>1, LenProperties DEF IsSeq
<1>3. TypeOK
    <2>1. i \in 1 .. (Len(IF pc = "config" THEN Lines ELSE argv) + 2)
        <3>1. Len(IF pc = "config" THEN Lines ELSE argv) \in Nat
            BY <1>1, LinesFacts DEF OptionsInv, Typed
        <3>2. QED BY <3>1 DEF OptionsInv, Typed
    <2>2. /\ pc \in {"prescan", "config", "parse", "done", "error"}
          /\ pc = "prescan" => o = OpNone /\ seen = << >>
        BY DEF OptionsInv, Typed, Gathered
    <2>3. /\ o.op \in Command \union {"sign", None} /\ (o.op = "sign" => o.sign)
          /\ o.op = None => \A k \in DOMAIN seen : seen[k].name \in Arg \union Flag
        BY <1>1, <1>2 DEF Applied
    <2>4. QED BY <2>1, <2>2, <2>3 DEF TypeOK
<1>4. CommandsCombine
    <2> DEFINE names == {seen[k].name : k \in DOMAIN seen}
    <2> SUFFICES ASSUME "sign" \in names, names \intersect Command = {"encrypt"}
                 PROVE  o.op = "encrypt" /\ o.sign
        BY DEF CommandsCombine
    <2>1. \E k \in 1 .. Len(seen) : seen[k].name = "sign"
        BY <1>2
    <2>2. \E k \in 1 .. Len(seen) : seen[k].name \in Command
        BY <1>2
    <2>3. o.op \in Command /\ \E k \in 1 .. Len(seen) : seen[k].name = o.op
        BY <1>1, <2>2 DEF Applied
    <2>4. o.op \in names
        BY <1>2, <2>3
    <2>5. o.sign
        BY <1>1, <2>1 DEF Applied
    <2>6. QED BY <2>3, <2>4, <2>5
<1>5. HomeAgrees
    <2> SUFFICES ASSUME pc = "done"
                 PROVE  /\ found.file = None => LastNames(FirstHomes, Place)
                        /\ SecondHomes # {} \/ NoConfHome(seen) => LastNames(SecondHomes, HomeOf(o.homedir))
        BY DEF HomeAgrees, NoConfHome, FirstHomes, SecondHomes
    <2>1. /\ HomeUpTo(argv, FirstHomes, TRUE, found.homedir, Len(argv) + 2)
          /\ HomeUpTo(argv, SecondHomes, NoConfHome(seen), o.homedir, Len(argv) + 2)
        BY DEF OptionsInv, Looking
    <2>2. /\ FirstHomes \subseteq 1 .. Len(argv) /\ SecondHomes \subseteq 1 .. Len(argv)
          /\ Len(argv) + 2 \in Nat /\ Len(argv) + 2 > Len(argv)
        BY <1>1, HomesFacts
    <2>3. LastNames(FirstHomes, HomeOf(found.homedir))
        BY <1>1, <2>1, <2>2, HomeEnd
    <2>4. SecondHomes # {} \/ NoConfHome(seen) => LastNames(SecondHomes, HomeOf(o.homedir))
        BY <1>1, <2>1, <2>2, HomeEnd
    <2>5. QED BY <2>3, <2>4 DEF Place
<1>6. QED BY <1>3, <1>4, <1>5

-----------------------------------------------------------------------------
(* The commands that ask: they leave the options alone, and the options'    *)
(* steps come before them.                                                  *)

LEMMA TalkKeeps == Talk => UNCHANGED vars
BY DEF Talk, Begin, GenKey, QuickGenKey, Symmetric, Answer, AnswerMissing, Generate, Look, Appear, Write

LEMMA DialogueOptions == [DialogueNext]_allVars => [Next]_vars
BY TalkKeeps DEF DialogueNext, Told, allVars

THEOREM OptionsInvariant == DialogueSpec => []OptionsInv
<1>1. DialogueInit => OptionsInv
    BY OptionsBegin DEF DialogueInit
<1>2. OptionsInv /\ [DialogueNext]_allVars => OptionsInv'
    BY DialogueOptions, OptionsStep
<1>3. QED BY <1>1, <1>2, PTL DEF DialogueSpec

\* The phases come in order and o.op is a command the dispatcher knows, whatever
\* is in gpg.conf and on the command line (config.go, options.go).
THEOREM TypeCorrect == DialogueSpec => []TypeOK
<1>1. OptionsInv => TypeOK
    BY OptionsEnd
<1>2. QED BY <1>1, OptionsInvariant, PTL

\* -s and -e make one command in either order, from gpg.conf or the command line.
THEOREM CommandsAreOne == DialogueSpec => []CommandsCombine
<1>1. OptionsInv => CommandsCombine
    BY OptionsEnd
<1>2. QED BY <1>1, OptionsInvariant, PTL

\* Each look at the command line has the home directory of the last --homedir of
\* those it takes for one, on any command line and with any gpg.conf: the first
\* takes another option's value for a --homedir, the second does not (config.go,
\* parse.go).
THEOREM HomesAgree == DialogueSpec => []HomeAgrees
<1>1. OptionsInv => HomeAgrees
    BY OptionsEnd
<1>2. QED BY <1>1, OptionsInvariant, PTL

-----------------------------------------------------------------------------
(* What the answers say.                                                    *)

AnsweredBy(a, q) == (CHOOSE r \in ToSet(a) : r.question = q).line
AskedIn(a, q)    == \E r \in ToSet(a) : r.question = q

LEMMA AnswersOf == \A q : AnswerTo(q) = AnsweredBy(answers, q) /\ WasAsked(q) = AskedIn(answers, q)
BY Zenon DEF AnswerTo, AnsweredBy, WasAsked, AskedIn

LEMMA AnswersThen ==
    \A q : AnswerTo(q)' = AnsweredBy(answers', q) /\ WasAsked(q)' = AskedIn(answers', q)
BY Zenon DEF AnswerTo, AnsweredBy, WasAsked, AskedIn

LEMMA NewAnswer ==
    ASSUME NEW a, IsSeq(a), NEW r
    PROVE  /\ IsSeq(Append(a, r)) /\ Append(a, r) # << >>
           /\ \A x : x \in ToSet(Append(a, r)) <=> x \in ToSet(a) \/ x = r
<1>1. /\ IsSeq(Append(a, r)) /\ Len(a) \in Nat /\ DOMAIN a = 1 .. Len(a)
      /\ Len(Append(a, r)) = Len(a) + 1 /\ DOMAIN Append(a, r) = 1 .. (Len(a) + 1)
      /\ \A k \in 1 .. Len(a) : Append(a, r)[k] = a[k]
      /\ Append(a, r)[Len(a) + 1] = r
    BY Longer
<1> DEFINE b == Append(a, r)
<1> HIDE DEF b
<1>2. \A x : x \in ToSet(b) <=> \E k \in 1 .. (Len(a) + 1) : x = b[k]
    BY <1>1 DEF ToSet, b
<1>3. \A x : x \in ToSet(a) <=> \E k \in 1 .. Len(a) : x = a[k]
    BY <1>1 DEF ToSet
<1>4. \A k \in 1 .. (Len(a) + 1) : k \in 1 .. Len(a) \/ k = Len(a) + 1
    BY <1>1
<1>5. Len(a) + 1 \in 1 .. (Len(a) + 1) /\ \A k \in 1 .. Len(a) : k \in 1 .. (Len(a) + 1)
    BY <1>1
<1>6. \A x : x \in ToSet(b) <=> x \in ToSet(a) \/ x = r
    BY <1>1, <1>2, <1>3, <1>4, <1>5 DEF b
<1>7. b # << >>
    <2>1. Len(b) # 0
        BY <1>1 DEF b
    <2>2. Len(<< >>) = 0
        OBVIOUS
    <2>3. QED BY <2>1, <2>2
<1>8. QED BY <1>1, <1>6, <1>7 DEF b

LEMMA FirstAnswer ==
    ASSUME NEW a, IsSeq(a), NEW q, ~AskedIn(a, q), NEW l
    PROVE  LET b == Append(a, [question |-> q, line |-> l])
           IN  AskedIn(b, q) /\ AnsweredBy(b, q) = l
<1> DEFINE r == [question |-> q, line |-> l]
           b == Append(a, r)
<1>1. r.question = q /\ r.line = l
    OBVIOUS
<1> HIDE DEF r
<1>2. \A x : x \in ToSet(b) <=> x \in ToSet(a) \/ x = r
    BY NewAnswer
<1> HIDE DEF b
<1>3. AskedIn(b, q)
    BY <1>1, <1>2 DEF AskedIn
<1>4. \A x \in ToSet(b) : x.question = q => x = r
    BY <1>2 DEF AskedIn
<1> DEFINE c == CHOOSE x \in ToSet(b) : x.question = q
<1>5. c \in ToSet(b) /\ c.question = q
    BY <1>3 DEF AskedIn
<1>6. c = r
    BY <1>4, <1>5
<1>7. AnsweredBy(b, q) = r.line
    BY <1>6 DEF AnsweredBy
<1>8. QED BY <1>1, <1>3, <1>7 DEF b, r

\* The invariant of the answers: each question is only asked where it may be.
Asked ==
    /\ IsSeq(answers)
    /\ dpc = "idle" => answers = << >>
    /\ o.batch => answers = << >> /\ dpc \notin Question
    /\ dpc \notin {"write", "written", "failed"} => ~WasAsked("overwrite")

Agreed == o.yes \/ late \/ (WasAsked("overwrite") /\ AnswerTo("overwrite") \in {"y", "yes"})

Untouched ==
    /\ target = "replaced" => dpc = "written" /\ Agreed
    /\ dpc = "write" => target = "absent" \/ Agreed

\* A passphrase of the options is not overruled by an answer.
Passed ==
    IF o.passphraseFile # None
    THEN o.passphraseFile \in DOMAIN Files /\ pass = Files[o.passphraseFile]
    ELSE o.passphraseSet => pass = o.passphrase

Resolved ==
    /\ dpc \in {"gen-key", "selection", "size", "expire", "name", "email", "comment", "confirm", "pass1",
               "pass2"} => o.op = "gen-key"
    /\ dpc \in {"quickpass", "passphrase", "repeat"} => o.passphraseFile = None /\ ~o.passphraseSet
    /\ dpc \in {"output", "overwrite", "write", "written"}
       \/ (dpc \in {"generate", "generated"} /\ o.op = "quick-gen-key") => Passed

DialogueInv == Asked /\ Untouched /\ Resolved

LEMMA AgreedStays ==
    ASSUME answers' = answers, o' = o, late' = late PROVE Agreed' = Agreed
BY AnswersOf, AnswersThen DEF Agreed

LEMMA AskedStep == Asked /\ [DialogueNext]_allVars => Asked'
<1> SUFFICES ASSUME Asked, [DialogueNext]_allVars PROVE Asked'
    OBVIOUS
<1>1. ASSUME answers' = answers, o' = o, o.batch => dpc' \notin Question, dpc' # "idle" \/ dpc = "idle",
             dpc \in {"write", "written", "failed"} => dpc' \in {"write", "written", "failed"}
      PROVE  Asked'
    BY <1>1, AnswersOf, AnswersThen DEF Asked
<1>2. ASSUME dpc = "idle", Next, UNCHANGED dialogueVars PROVE Asked'
    <2>1. answers = << >> /\ answers' = answers /\ dpc' = "idle" /\ "idle" \notin Question
        BY <1>2 DEF Asked, dialogueVars, Question
    <2>2. ~WasAsked("overwrite") /\ WasAsked("overwrite")' = WasAsked("overwrite")
        BY <1>2, <2>1, AnswersOf, AnswersThen DEF Asked
    <2>3. QED BY <2>1, <2>2 DEF Asked
<1>3. ASSUME Talk PROVE o' = o
    BY <1>3, TalkKeeps DEF vars
<1>4. ASSUME Begin PROVE Asked'
    <2>1. answers' = answers /\ dpc = "idle" /\ dpc' \in {"symmetric", "gen-key", "quick-gen-key"}
        BY <1>4 DEF Begin
    <2>2. QED BY <1>1, <1>3, <1>4, <2>1 DEF Talk, Question
<1>5. ASSUME GenKey PROVE Asked'
    BY <1>1, <1>3, <1>5 DEF Talk, GenKey, talk, Question
<1>6. ASSUME QuickGenKey PROVE Asked'
    BY <1>1, <1>3, <1>6 DEF Talk, QuickGenKey, ResolvePassphrase, talk, Question
<1>7. ASSUME Symmetric PROVE Asked'
    BY <1>1, <1>3, <1>7 DEF Talk, Symmetric, ResolvePassphrase, Question
<1>8. ASSUME Answer PROVE Asked'
    <2> DEFINE r == [question |-> dpc, line |-> NextLine]
    <2>1. /\ dpc \in Question /\ answers' = Append(answers, r) /\ dpc' = After(dpc, NextLine)
          /\ o' = o /\ ~o.batch
        BY <1>3, <1>8 DEF Talk, Answer, Asked
    <2>2. r.question = dpc
        OBVIOUS
    <2> HIDE DEF r
    <2>3. IsSeq(answers') /\ \A x : x \in ToSet(answers') <=> x \in ToSet(answers) \/ x = r
        BY <2>1, NewAnswer DEF Asked
    <2>4. dpc' # "idle" /\ (dpc = "overwrite" => dpc' \in {"write", "written", "failed"})
        BY <2>1 DEF After, Question
    <2>5. dpc # "overwrite" => ~AskedIn(answers, "overwrite")
        BY <2>1, AnswersOf DEF Asked, Question
    <2>6. dpc # "overwrite" => ~AskedIn(answers', "overwrite")
        BY <2>2, <2>3, <2>5 DEF AskedIn
    <2>7. QED BY <2>1, <2>3, <2>4, <2>6, AnswersThen DEF Asked
<1>9. ASSUME AnswerMissing PROVE Asked'
    BY <1>1, <1>3, <1>9 DEF Talk, AnswerMissing, talk, Question
<1>10. ASSUME Generate PROVE Asked'
    <2>1. dpc = "generate" /\ dpc' \in {"failed", "generated"} /\ answers' = answers
        BY <1>10 DEF Generate, talk
    <2>2. QED BY <1>1, <1>3, <1>10, <2>1 DEF Talk, Question
<1>11. ASSUME Look PROVE Asked'
    BY <1>1, <1>3, <1>11 DEF Talk, Look, talk, Question
<1>12. ASSUME Appear PROVE Asked'
    BY <1>1, <1>3, <1>12 DEF Talk, Appear, talk, Question
<1>13. ASSUME Write PROVE Asked'
    BY <1>1, <1>3, <1>13 DEF Talk, Write, talk, Question
<1>14. ASSUME UNCHANGED allVars PROVE Asked'
    BY <1>1, <1>14 DEF Asked, allVars, vars, dialogueVars
<1>15. QED
    BY <1>2, <1>4, <1>5, <1>6, <1>7, <1>8, <1>9, <1>10, <1>11, <1>12, <1>13, <1>14
       DEF DialogueNext, Talk, Told

LEMMA UntouchedStep == Asked /\ Untouched /\ [DialogueNext]_allVars => Untouched'
<1> SUFFICES ASSUME Asked, Untouched, [DialogueNext]_allVars PROVE Untouched'
    OBVIOUS
<1>1. ASSUME answers' = answers, o' = o, late' = late, target' = target, dpc # "written" \/ dpc' = "written",
             dpc' = "write" => dpc = "write" \/ target = "absent" \/ o.yes
      PROVE  Untouched'
    BY <1>1, AgreedStays DEF Untouched, Agreed
<1>2. ASSUME dpc = "idle", UNCHANGED dialogueVars PROVE Untouched'
    BY <1>2 DEF Untouched, dialogueVars
<1>3. ASSUME Talk PROVE o' = o
    BY <1>3, TalkKeeps DEF vars
<1>4. ASSUME Begin PROVE Untouched'
    BY <1>4 DEF Begin, Untouched
<1>5. ASSUME GenKey PROVE Untouched'
    BY <1>1, <1>3, <1>5 DEF Talk, GenKey, talk
<1>6. ASSUME QuickGenKey PROVE Untouched'
    BY <1>1, <1>3, <1>6 DEF Talk, QuickGenKey, ResolvePassphrase, talk
<1>7. ASSUME Symmetric PROVE Untouched'
    BY <1>1, <1>3, <1>7 DEF Talk, Symmetric, ResolvePassphrase
<1>8. ASSUME Answer PROVE Untouched'
    <2> DEFINE b == Append(answers, [question |-> "overwrite", line |-> NextLine])
    <2>1. /\ dpc \in Question /\ dpc' = After(dpc, NextLine) /\ o' = o /\ target' = target /\ late' = late
          /\ answers' = Append(answers, [question |-> dpc, line |-> NextLine])
        BY <1>3, <1>8 DEF Talk, Answer
    <2>2. target # "replaced"
        BY <2>1 DEF Untouched, Question
    <2>3. dpc' = "write" => dpc = "overwrite" /\ NextLine \in {"y", "yes"}
        BY <2>1 DEF After, Question
    <2>4. ASSUME dpc = "overwrite", NextLine \in {"y", "yes"} PROVE Agreed'
        <3>1. ~AskedIn(answers, "overwrite") /\ IsSeq(answers) /\ answers' = b
            BY <2>1, <2>4, AnswersOf DEF Asked
        <3>2. AskedIn(b, "overwrite") /\ AnsweredBy(b, "overwrite") = NextLine
            BY <3>1, FirstAnswer
        <3> HIDE DEF b
        <3>3. QED BY <2>4, <3>1, <3>2, AnswersThen DEF Agreed
    <2>5. QED BY <2>1, <2>2, <2>3, <2>4 DEF Untouched
<1>9. ASSUME AnswerMissing PROVE Untouched'
    BY <1>1, <1>3, <1>9 DEF Talk, AnswerMissing, talk, Question
<1>10. ASSUME Generate PROVE Untouched'
    <2>1. /\ dpc = "generate" /\ dpc' \in {"failed", "generated"}
          /\ answers' = answers /\ target' = target /\ late' = late
        BY <1>10 DEF Generate, talk
    <2>2. QED BY <1>1, <1>3, <1>10, <2>1 DEF Talk
<1>11. ASSUME Look PROVE Untouched'
    BY <1>1, <1>3, <1>11 DEF Talk, Look, talk
<1>12. ASSUME Appear PROVE Untouched'
    <2>1. target = "absent" /\ target' = "old" /\ dpc' = dpc /\ (dpc = "write" => late')
        BY <1>12 DEF Appear
    <2>2. QED BY <2>1 DEF Untouched, Agreed
<1>13. ASSUME Write PROVE Untouched'
    <2>1. /\ dpc = "write" /\ dpc' = "written" /\ target' = IF target = "absent" THEN "new" ELSE "replaced"
          /\ answers' = answers /\ late' = late /\ o' = o
        BY <1>3, <1>13 DEF Talk, Write, talk
    <2>2. QED BY <2>1, AgreedStays DEF Untouched
<1>14. ASSUME UNCHANGED allVars PROVE Untouched'
    BY <1>1, <1>14 DEF Asked, allVars, vars, dialogueVars
<1>15. QED
    BY <1>2, <1>4, <1>5, <1>6, <1>7, <1>8, <1>9, <1>10, <1>11, <1>12, <1>13, <1>14
       DEF DialogueNext, Talk, Told

LEMMA ResolvedStep == Resolved /\ [DialogueNext]_allVars => Resolved'
<1> SUFFICES ASSUME Resolved, [DialogueNext]_allVars PROVE Resolved'
    OBVIOUS
<1>1. ASSUME dpc = "idle", UNCHANGED dialogueVars PROVE Resolved'
    BY <1>1 DEF Resolved, dialogueVars
<1>2. ASSUME Talk PROVE o' = o
    BY <1>2, TalkKeeps DEF vars
<1>3. ASSUME Begin PROVE Resolved'
    <2>1. dpc' \in {"symmetric", "gen-key", "quick-gen-key"} /\ dpc' = o.op /\ o' = o
        BY <1>2, <1>3 DEF Talk, Begin
    <2>2. QED BY <2>1 DEF Resolved
<1>4. ASSUME GenKey PROVE Resolved'
    <2>1. dpc = "gen-key" /\ dpc' \in {"failed", "selection"} /\ o' = o
        BY <1>2, <1>4 DEF Talk, GenKey
    <2>2. QED BY <2>1 DEF Resolved
<1>5. ASSUME NEW q, NEW next, ResolvePassphrase(q, next), o' = o, q \in {"quickpass", "passphrase"},
             next \in {"generate", "output"}
      PROVE  Resolved'
    BY <1>5 DEF ResolvePassphrase, Resolved, Passed
<1>6. ASSUME QuickGenKey PROVE Resolved'
    <2>1. o' = o
        BY <1>2, <1>6 DEF Talk
    <2>2. CASE dpc' = "failed"
        BY <2>2 DEF Resolved
    <2>3. CASE ~o.passphraseSet /\ o.passphraseFile = None /\ dpc' = "generate"
        BY <2>1, <2>3 DEF Resolved, Passed
    <2>4. CASE ResolvePassphrase("quickpass", "generate")
        BY <1>5, <2>1, <2>4
    <2>5. QED BY <1>6, <2>2, <2>3, <2>4 DEF QuickGenKey
<1>7. ASSUME Symmetric PROVE Resolved'
    BY <1>2, <1>5, <1>7 DEF Talk, Symmetric
<1>8. ASSUME Answer PROVE Resolved'
    <2>1. /\ dpc \in Question /\ dpc' = After(dpc, NextLine) /\ o' = o
          /\ pass' = IF dpc \in {"pass1", "quickpass", "passphrase"} THEN NextLine ELSE pass
        BY <1>2, <1>8 DEF Talk, Answer
    <2>2. CASE dpc \in {"selection", "size", "expire", "name", "email", "comment", "confirm", "pass1", "pass2"}
        <3>1. dpc' \in {"size", "expire", "name", "email", "comment", "confirm", "pass1", "pass2",
                        "generate", "failed"}
            BY <2>1, <2>2 DEF After
        <3>2. QED BY <2>1, <2>2, <3>1 DEF Resolved
    <2>3. CASE dpc \in {"quickpass", "passphrase", "repeat"}
        <3>1. dpc' \in {"generate", "repeat", "output", "failed"}
            BY <2>1, <2>3 DEF After
        <3>2. QED BY <2>1, <2>3, <3>1 DEF Resolved, Passed
    <2>4. CASE dpc = "overwrite"
        <3>1. dpc' \in {"write", "failed"} /\ pass' = pass
            BY <2>1, <2>4 DEF After
        <3>2. QED BY <2>1, <2>4, <3>1 DEF Resolved, Passed
    <2>5. QED BY <2>1, <2>2, <2>3, <2>4 DEF Question
<1>9. ASSUME AnswerMissing PROVE Resolved'
    BY <1>9 DEF AnswerMissing, Resolved
<1>10. ASSUME Generate PROVE Resolved'
    <2>1. dpc = "generate" /\ dpc' \in {"failed", "generated"} /\ pass' = pass /\ o' = o
        BY <1>2, <1>10 DEF Talk, Generate
    <2>2. QED BY <2>1 DEF Resolved, Passed
<1>11. ASSUME Look PROVE Resolved'
    BY <1>2, <1>11 DEF Talk, Look, Resolved, Passed
<1>12. ASSUME Appear PROVE Resolved'
    BY <1>2, <1>12 DEF Talk, Appear, Resolved, Passed
<1>13. ASSUME Write PROVE Resolved'
    BY <1>2, <1>13 DEF Talk, Write, Resolved, Passed
<1>14. ASSUME UNCHANGED allVars PROVE Resolved'
    BY <1>14 DEF Resolved, Passed, allVars, vars, dialogueVars
<1>15. QED
    BY <1>1, <1>3, <1>4, <1>6, <1>7, <1>8, <1>9, <1>10, <1>11, <1>12, <1>13, <1>14
       DEF DialogueNext, Talk, Told

LEMMA DialogueBegins == DialogueInit => DialogueInv
<1> SUFFICES ASSUME DialogueInit PROVE DialogueInv
    OBVIOUS
<1>1. dpc = "idle" /\ answers = << >> /\ target = "absent"
    BY DEF DialogueInit
<1>2. IsSeq(<< >>) /\ ToSet(<< >>) = {}
    BY EmptySeq, Empty DEF IsSeq
<1>3. ~WasAsked("overwrite")
    BY <1>1, <1>2 DEF WasAsked
<1>4. QED BY <1>1, <1>2, <1>3 DEF DialogueInv, Asked, Untouched, Resolved, Question

\* Nobody's file is lost without their word, but one that appears after the look;
\* a batch asks nothing; and the passphrase is that of the file named last, or,
\* without one, the passphrase named last: whatever the options, their order and
\* the lines typed (io.go, passphrase.go).
THEOREM TheUserDecides == DialogueSpec => []UserDecides
<1>1. DialogueInit => DialogueInv
    BY DialogueBegins
<1>2. DialogueInv /\ [DialogueNext]_allVars => DialogueInv'
    BY AskedStep, UntouchedStep, ResolvedStep DEF DialogueInv
<1>3. OptionsInv /\ DialogueInv => UserDecides
    <2> SUFFICES ASSUME OptionsInv, DialogueInv PROVE UserDecides
        OBVIOUS
    <2>1. target = "replaced" => Agreed
        BY DEF DialogueInv, Untouched
    <2>2. o.batch => answers = << >>
        BY DEF DialogueInv, Asked
    <2>3. ASSUME dpc = "written" \/ (dpc = "generated" /\ o.op = "quick-gen-key"), NEW k \in DOMAIN seen
          PROVE  /\ FileNamed(k) => seen[k].val \in DOMAIN Files /\ pass = Files[seen[k].val]
                 /\ NamedLast(k, "passphrase") => pass = seen[k].val \/ \E f \in DOMAIN seen : FileNamed(f)
        <3>1. IsSeq(seen) /\ Applied(o, seen, Len(seen))
            BY DEF OptionsInv, Gathered
        <3>2. DOMAIN seen = 1 .. Len(seen) /\ Len(seen) \in Nat
            BY <3>1, LenProperties DEF IsSeq
        <3>3. Passed
            BY <2>3 DEF DialogueInv, Resolved
        <3>4. ASSUME FileNamed(k) PROVE seen[k].val \in DOMAIN Files /\ pass = Files[seen[k].val]
            <4>1. /\ seen[k].name = "passphrase-file" /\ seen[k].val # None
                  /\ ~\E n \in 1 .. Len(seen) : k < n /\ seen[n].name = "passphrase-file"
                BY <3>2, <3>4 DEF FileNamed, NamedLast
            <4>2. o.passphraseFile = seen[k].val
                BY <3>1, <3>2, <4>1 DEF Applied
            <4>3. QED BY <3>3, <4>1, <4>2 DEF Passed
        <3>5. ASSUME NamedLast(k, "passphrase"), o.passphraseFile = None PROVE pass = seen[k].val
            <4>1. /\ seen[k].name = "passphrase"
                  /\ ~\E n \in 1 .. Len(seen) : k < n /\ seen[n].name = "passphrase"
                BY <3>2, <3>5 DEF NamedLast
            <4>2. o.passphraseSet /\ o.passphrase = seen[k].val
                BY <3>1, <3>2, <4>1 DEF Applied
            <4>3. QED BY <3>3, <3>5, <4>2 DEF Passed
        <3>6. ASSUME o.passphraseFile # None PROVE \E f \in DOMAIN seen : FileNamed(f)
            BY <3>1, <3>2, <3>6 DEF Applied, FileNamed, NamedLast
        <3>7. QED BY <3>4, <3>5, <3>6
    <2>4. QED BY <2>1, <2>2, <2>3 DEF UserDecides, Agreed
<1>4. QED BY <1>1, <1>2, <1>3, OptionsInvariant, PTL DEF DialogueSpec

-----------------------------------------------------------------------------
(* A key is made of the lines as they were typed.                           *)

\* The questions of --gen-key in their order; RSA has one more.
Extra == IF TypedRSA THEN 1 ELSE 0
Script ==
    IF TypedRSA
    THEN <<"selection", "size", "expire", "name", "email", "comment", "confirm", "pass1", "pass2">>
    ELSE <<"selection", "expire", "name", "email", "comment", "confirm", "pass1", "pass2">>

KeyQuestion == {"selection", "size", "expire", "name", "email", "comment", "confirm", "pass1", "pass2"}

\* The place of a question.
PlaceOf(q) ==
    CASE q = "selection" -> 1
      [] q = "size"    -> 2
      [] q = "expire"  -> 2 + Extra
      [] q = "name"    -> 3 + Extra
      [] q = "email"   -> 4 + Extra
      [] q = "comment" -> 5 + Extra
      [] q = "confirm" -> 6 + Extra
      [] q = "pass1"   -> 7 + Extra
      [] OTHER         -> 8 + Extra

LEMMA ScriptFacts ==
    /\ Extra \in {0, 1} /\ Len(Script) = 8 + Extra
    /\ \A k \in 1 .. (8 + Extra) : Script[k] \in KeyQuestion /\ k = PlaceOf(Script[k])
    /\ \A q \in KeyQuestion : (q = "size" => TypedRSA) => Script[PlaceOf(q)] = q
    /\ \A n \in Nat : TypedAt(n) = typed[n + Extra]
<1> USE DEF Script, PlaceOf, KeyQuestion, Extra, TypedAt
<1>1. CASE TypedRSA
    <2>1. Len(Script) = 9 /\ Extra = 1
        BY <1>1
    <2>2. \A k \in 1 .. 9 : k = 1 \/ k = 2 \/ k = 3 \/ k = 4 \/ k = 5 \/ k = 6 \/ k = 7 \/ k = 8 \/ k = 9
        OBVIOUS
    <2>3. \A k \in 1 .. 9 : Script[k] \in KeyQuestion /\ k = PlaceOf(Script[k])
        BY <1>1, <2>2
    <2>4. \A q \in KeyQuestion : Script[PlaceOf(q)] = q
        BY <1>1
    <2>5. QED BY <1>1, <2>1, <2>3, <2>4
<1>2. CASE ~TypedRSA
    <2>1. Len(Script) = 8 /\ Extra = 0
        BY <1>2
    <2>2. \A k \in 1 .. 8 : k = 1 \/ k = 2 \/ k = 3 \/ k = 4 \/ k = 5 \/ k = 6 \/ k = 7 \/ k = 8
        OBVIOUS
    <2>3. \A k \in 1 .. 8 : Script[k] \in KeyQuestion /\ k = PlaceOf(Script[k])
        BY <1>2, <2>2
    <2>4. \A q \in KeyQuestion \ {"size"} : Script[PlaceOf(q)] = q
        BY <1>2
    <2>5. QED BY <1>2, <2>1, <2>3, <2>4
<1>3. QED BY <1>1, <1>2

\* The streams of lines, and where --gen-key can be.
Streams == stdin \in Bursts

Tagged ==
    o.op = "gen-key" => dpc \in KeyQuestion \union {"idle", "gen-key", "generate", "generated", "failed"}

\* The answers are the first lines of what arrived, in order, and what is left on
\* standard input has the others; what was checked of them so far.
Listened ==
    /\ \A k \in 1 .. Len(answers) : /\ k <= Len(Script) /\ answers[k].question = Script[k]
                                    /\ answers[k].line = typed[k]
    /\ \A k \in 1 .. Len(stdin) : typed[Len(answers) + k] = Head(stdin[k])
    /\ dpc = "gen-key" => answers = << >>
    /\ dpc \in KeyQuestion => Len(answers) + 1 = PlaceOf(dpc) /\ (dpc = "size" => TypedRSA)
    /\ dpc \in {"generate", "generated"} => Len(answers) >= 7 + Extra

Checked ==
    /\ dpc \in {"name", "email", "comment", "confirm", "pass1", "pass2", "generate", "generated"} =>
         TypedAt(2) \in DOMAIN Days
    /\ dpc \in {"pass1", "pass2", "generate", "generated"} => TypedAt(6) # "Q"
    /\ dpc \in {"pass2", "generate", "generated"} => pass = TypedAt(7)
    /\ dpc \in {"generate", "generated"} => (pass # None => TypedAt(8) = pass)

KeyMade ==
    dpc = "generated" =>
        /\ made.algo = IF TypedRSA THEN "rsa" ELSE "ed25519"
        /\ TypedRSA => made.bits = SizeOf(typed[2])
        /\ made.life = Lifetime(TypedAt(2))
        /\ made.uid = <<TypedAt(3), TypedAt(4), TypedAt(5)>>

Heard == o.op = "gen-key" /\ dpc # "idle" => Listened /\ Checked /\ KeyMade

LEMMA ScriptStays == typed' = typed =>
    /\ Extra' = Extra /\ Script' = Script /\ TypedRSA' = TypedRSA
    /\ \A q : PlaceOf(q)' = PlaceOf(q)
    /\ \A n : TypedAt(n)' = TypedAt(n)
BY DEF Extra, Script, TypedRSA, PlaceOf, TypedAt

LEMMA StreamsStep == Streams /\ [DialogueNext]_allVars => Streams'
<1> SUFFICES ASSUME Streams, [DialogueNext]_allVars PROVE Streams'
    OBVIOUS
<1>1. stdin \in Seq(Seq(Texts) \ {<< >>}) /\ << >> \in Seq(Seq(Texts) \ {<< >>})
    BY DEF Streams, Bursts
<1>2. CASE Begin
    <2>1. PICK in \in Inputs[o.op] : stdin' = in.bursts
        BY <1>2 DEF Begin
    <2>2. o.op \in {"symmetric", "gen-key", "quick-gen-key"}
        BY <1>2 DEF Begin
    <2>3. QED BY <2>1, <2>2, DialogueAssumption DEF Streams
<1>3. CASE Answer
    <2>1. stdin # << >> /\ stdin' = Tail(stdin)
        BY <1>3 DEF Answer, Read
    <2>2. stdin' \in Seq(Seq(Texts) \ {<< >>})
        BY <1>1, <2>1, HeadTailProperties
    <2>3. QED BY <2>2 DEF Streams, Bursts
<1>4. CASE Symmetric
    BY <1>1, <1>4 DEF Symmetric, Streams, Bursts
<1>5. CASE \/ GenKey \/ QuickGenKey \/ AnswerMissing \/ Generate \/ Look \/ Appear \/ Write
           \/ UNCHANGED dialogueVars
    BY <1>5 DEF GenKey, QuickGenKey, AnswerMissing, Generate, Look, Appear, Write, dialogueVars, talk,
                Streams
<1>6. QED BY <1>2, <1>3, <1>4, <1>5 DEF DialogueNext, Talk, Told, allVars

LEMMA TaggedStep == Tagged /\ [DialogueNext]_allVars => Tagged'
<1> SUFFICES ASSUME Tagged, [DialogueNext]_allVars PROVE Tagged'
    OBVIOUS
<1>1. ASSUME Talk PROVE o' = o
    BY <1>1, TalkKeeps DEF vars
<1>2. CASE dpc = "idle" /\ UNCHANGED dialogueVars
    BY <1>2 DEF Tagged, dialogueVars
<1>3. CASE Begin
    <2>1. dpc' = o.op /\ o' = o
        BY <1>1, <1>3 DEF Talk, Begin
    <2>2. QED BY <2>1 DEF Tagged
<1>4. CASE GenKey
    <2>1. dpc' \in {"failed", "selection"}
        BY <1>4 DEF GenKey
    <2>2. QED BY <2>1 DEF Tagged, KeyQuestion
<1>5. CASE Answer
    <2>1. dpc \in Question /\ dpc' = After(dpc, NextLine) /\ o' = o
        BY <1>1, <1>5 DEF Talk, Answer
    <2>2. CASE dpc \in KeyQuestion
        <3>1. dpc' \in KeyQuestion \union {"generate", "failed"}
            BY <2>1, <2>2 DEF After, KeyQuestion
        <3>2. QED BY <3>1 DEF Tagged
    <2>3. CASE dpc \notin KeyQuestion
        BY <2>1, <2>3 DEF Tagged, Question, KeyQuestion
    <2>4. QED BY <2>2, <2>3
<1>6. CASE AnswerMissing \/ Generate
    <2>1. dpc' \in {"failed", "generated"}
        BY <1>6 DEF AnswerMissing, Generate
    <2>2. QED BY <2>1 DEF Tagged
<1>7. CASE QuickGenKey \/ Symmetric \/ Look \/ Appear \/ Write
    <2>1. dpc \in {"quick-gen-key", "symmetric", "output", "write"} /\ o' = o
        BY <1>1, <1>7 DEF Talk, QuickGenKey, Symmetric, Look, Appear, Write
    <2>2. o.op # "gen-key"
        BY <2>1 DEF Tagged, KeyQuestion
    <2>3. QED BY <2>1, <2>2 DEF Tagged
<1>8. CASE UNCHANGED allVars
    BY <1>8 DEF Tagged, allVars, vars, dialogueVars
<1>9. QED BY <1>2, <1>3, <1>4, <1>5, <1>6, <1>7, <1>8 DEF DialogueNext, Talk, Told

\* A question's answer is the line at its place.
LEMMA AnswerTyped ==
    ASSUME IsSeq(answers), Listened, NEW q \in KeyQuestion, q = "size" => TypedRSA,
           PlaceOf(q) <= Len(answers)
    PROVE  AnswerTo(q) = typed[PlaceOf(q)]
<1> DEFINE p == PlaceOf(q)
<1>1. /\ Extra \in {0, 1} /\ Len(Script) = 8 + Extra
      /\ \A k \in 1 .. (8 + Extra) : k = PlaceOf(Script[k])
      /\ Script[p] = q
    BY ScriptFacts
<1>2. p \in Nat /\ p >= 1
    BY <1>1 DEF PlaceOf
<1>3. Len(answers) \in Nat /\ DOMAIN answers = 1 .. Len(answers)
    BY LenProperties DEF IsSeq
<1> HIDE DEF p
<1>4. p \in 1 .. Len(answers)
    BY <1>2, <1>3 DEF p
<1>5. \A k \in 1 .. Len(answers) : answers[k].question = q => answers[k].line = typed[p]
    <2> SUFFICES ASSUME NEW k \in 1 .. Len(answers), answers[k].question = q
                 PROVE  answers[k].line = typed[p]
        OBVIOUS
    <2>1. k \in Nat /\ 1 <= k /\ k <= Len(Script) /\ Script[k] = q /\ answers[k].line = typed[k]
        BY <1>3 DEF Listened
    <2>2. k \in 1 .. (8 + Extra)
        BY <1>1, <2>1
    <2>3. k = p
        BY <1>1, <2>1, <2>2 DEF p
    <2>4. QED BY <2>1, <2>3
<1>6. answers[p] \in ToSet(answers) /\ answers[p].question = q
    BY <1>1, <1>3, <1>4 DEF ToSet, Listened
<1>7. \A r \in ToSet(answers) : r.question = q => r.line = typed[p]
    BY <1>3, <1>5 DEF ToSet
<1> DEFINE c == CHOOSE r \in ToSet(answers) : r.question = q
<1>8. c \in ToSet(answers) /\ c.question = q
    BY <1>6
<1>9. AnswerTo(q) = c.line
    BY DEF AnswerTo
<1> HIDE DEF c
<1>10. QED BY <1>7, <1>8, <1>9 DEF p

\* What arrived next is read, and nothing else.
LEMMA LineRead ==
    ASSUME stdin \in Bursts, stdin # << >>
    PROVE  /\ Len(stdin) \in Nat /\ 1 \in 1 .. Len(stdin) /\ Len(Tail(stdin)) = Len(stdin) - 1
           /\ NextLine = Head(stdin[1])
           /\ \A k \in 1 .. Len(Tail(stdin)) : k + 1 \in 1 .. Len(stdin) /\ Tail(stdin)[k] = stdin[k + 1]
<1>1. /\ Len(stdin) \in Nat /\ Len(stdin) # 0 /\ Len(Tail(stdin)) = Len(stdin) - 1
      /\ Head(stdin) = stdin[1]
      /\ \A k \in 1 .. Len(Tail(stdin)) : Tail(stdin)[k] = stdin[k + 1]
    BY HeadTailProperties, LenProperties, EmptySeq DEF Bursts
<1>2. QED BY <1>1 DEF NextLine

LEMMA HeardAnswer ==
    ASSUME Streams, IsSeq(answers), Listened, Checked, dpc \in KeyQuestion, Answer
    PROVE  Listened' /\ Checked' /\ KeyMade'
<1> DEFINE l == NextLine
           r == [question |-> dpc, line |-> l]
           n == Len(answers)
           rest == Tail(stdin)
<1>1. /\ stdin # << >> /\ stdin' = rest
      /\ answers' = Append(answers, r) /\ dpc' = After(dpc, l) /\ typed' = typed
      /\ pass' = IF dpc \in {"pass1", "quickpass", "passphrase"} THEN l ELSE pass
    BY DEF Answer, Read
<1>2. /\ Len(stdin) \in Nat /\ 1 \in 1 .. Len(stdin) /\ Len(rest) = Len(stdin) - 1
      /\ l = Head(stdin[1])
      /\ \A k \in 1 .. Len(rest) : k + 1 \in 1 .. Len(stdin) /\ rest[k] = stdin[k + 1]
    BY <1>1, LineRead DEF Streams
<1>3. /\ Len(answers') = n + 1 /\ n \in Nat
      /\ \A k \in 1 .. n : answers'[k] = answers[k]
      /\ answers'[n + 1] = r
    BY <1>1, Longer
<1>4. r.question = dpc /\ r.line = l
    OBVIOUS
<1>5. /\ \A k \in 1 .. n : k <= Len(Script) /\ answers[k].question = Script[k] /\ answers[k].line = typed[k]
      /\ \A k \in 1 .. Len(stdin) : typed[n + k] = Head(stdin[k])
      /\ n + 1 = PlaceOf(dpc) /\ (dpc = "size" => TypedRSA)
    BY DEF Listened
<1>6. /\ Extra \in {0, 1} /\ Len(Script) = 8 + Extra
      /\ Script[PlaceOf(dpc)] = dpc
      /\ \A k \in Nat : TypedAt(k) = typed[k + Extra]
    BY <1>5, ScriptFacts
<1>7. /\ Extra' = Extra /\ Script' = Script /\ TypedRSA' = TypedRSA
      /\ \A q : PlaceOf(q)' = PlaceOf(q)
      /\ \A k : TypedAt(k)' = TypedAt(k)
    BY <1>1, ScriptStays
<1> HIDE DEF l, r, n, rest
<1>8. l = typed[n + 1]
    BY <1>2, <1>5
<1>9. n + 1 <= Len(Script)
    BY <1>5, <1>6 DEF PlaceOf
<1>10. ASSUME NEW k \in 1 .. Len(answers')
       PROVE  k <= Len(Script) /\ answers'[k].question = Script[k] /\ answers'[k].line = typed[k]
    <2>1. k \in 1 .. n \/ k = n + 1
        BY <1>3
    <2>2. QED BY <1>3, <1>4, <1>5, <1>6, <1>8, <1>9, <2>1
<1>11. ASSUME NEW k \in 1 .. Len(rest) PROVE typed[(n + 1) + k] = Head(rest[k])
    <2>1. k + 1 \in 1 .. Len(stdin) /\ n + (k + 1) = (n + 1) + k /\ rest[k] = stdin[k + 1]
        BY <1>2, <1>3
    <2>2. QED BY <1>5, <2>1
<1>12. dpc' \in KeyQuestion \union {"generate", "failed"}
    BY <1>1 DEF After, KeyQuestion
<1>13. dpc' \in KeyQuestion => (n + 1) + 1 = PlaceOf(dpc') /\ (dpc' = "size" => TypedRSA)
    <2>1. CASE dpc = "selection"
        <3>1. n + 1 = 1 /\ (l = "2" <=> TypedRSA)
            BY <1>5, <1>8, <2>1 DEF PlaceOf, TypedRSA
        <3>2. QED BY <1>1, <2>1, <3>1 DEF After, PlaceOf, Extra
    <2>2. CASE dpc = "size"
        BY <1>1, <1>5, <2>2 DEF After, PlaceOf, Extra
    <2>3. CASE dpc \in KeyQuestion \ {"selection", "size"}
        <3>1. /\ dpc = "expire" => dpc' \in {"name", "failed"}
              /\ dpc = "name" => dpc' = "email"
              /\ dpc = "email" => dpc' = "comment"
              /\ dpc = "comment" => dpc' = "confirm"
              /\ dpc = "confirm" => dpc' \in {"pass1", "failed"}
              /\ dpc = "pass1" => dpc' \in {"pass2", "generate"}
              /\ dpc = "pass2" => dpc' \in {"generate", "failed"}
            BY <1>1 DEF After
        <3>2. \A q \in KeyQuestion \ {"selection", "size"} : n + 1 = PlaceOf(q) =>
                 /\ q = "expire" => (n + 1) + 1 = PlaceOf("name")
                 /\ q = "name" => (n + 1) + 1 = PlaceOf("email")
                 /\ q = "email" => (n + 1) + 1 = PlaceOf("comment")
                 /\ q = "comment" => (n + 1) + 1 = PlaceOf("confirm")
                 /\ q = "confirm" => (n + 1) + 1 = PlaceOf("pass1")
                 /\ q = "pass1" => (n + 1) + 1 = PlaceOf("pass2")
            BY <1>6 DEF PlaceOf
        <3>3. QED BY <1>5, <2>3, <3>1, <3>2 DEF KeyQuestion
    <2>4. QED BY <2>1, <2>2, <2>3
<1>14. dpc' = "generate" => n + 1 >= 7 + Extra
    BY <1>1, <1>5, <1>6 DEF After, PlaceOf, KeyQuestion
<1>15. Listened'
    <2>1. PlaceOf(dpc)' = PlaceOf(dpc')
        BY <1>7 DEF PlaceOf
    <2>2. Len(answers') = n + 1 /\ n \in Nat /\ dpc' # "gen-key" /\ dpc' # "generated"
        BY <1>3, <1>12 DEF KeyQuestion
    <2>3. \A k \in 1 .. Len(answers') : /\ k <= Len(Script') /\ answers'[k].question = Script'[k]
                                         /\ answers'[k].line = typed'[k]
        BY <1>1, <1>7, <1>10
    <2>4. \A k \in 1 .. Len(stdin') : typed'[Len(answers') + k] = Head(stdin'[k])
        BY <1>1, <1>11, <2>2
    <2>5. dpc' \in KeyQuestion => Len(answers') + 1 = PlaceOf(dpc)' /\ (dpc' = "size" => TypedRSA')
        BY <1>7, <1>13, <2>1, <2>2
    <2>6. dpc' \in {"generate", "generated"} => Len(answers') >= 7 + Extra'
        BY <1>7, <1>14, <2>2
    <2>7. KeyQuestion' = KeyQuestion
        BY DEF KeyQuestion
    <2>8. QED BY <2>2, <2>3, <2>4, <2>5, <2>6, <2>7 DEF Listened
<1>16. Checked'
    <2>1. \A k \in Nat : n + 1 = k + Extra => TypedAt(k) = l
        BY <1>6, <1>8
    <2>2. CASE dpc = "expire"
        <3>1. TypedAt(2) = l /\ dpc' \in {"name", "failed"} /\ (dpc' = "name" => l \in DOMAIN Days)
            BY <1>1, <1>5, <2>1, <2>2 DEF After, PlaceOf
        <3>2. QED BY <1>7, <3>1 DEF Checked
    <2>3. CASE dpc \in {"selection", "size", "name", "email", "comment"}
        <3>1. dpc' \in {"size", "expire", "email", "comment", "confirm"} /\ (dpc' # "size" /\ dpc' # "expire" => dpc \in {"name", "email", "comment"})
            BY <1>1, <2>3 DEF After
        <3>2. QED BY <1>7, <3>1 DEF Checked
    <2>4. CASE dpc = "confirm"
        <3>1. TypedAt(6) = l /\ dpc' \in {"pass1", "failed"} /\ (dpc' = "pass1" => l # "Q")
            BY <1>1, <1>5, <2>1, <2>4 DEF After, PlaceOf
        <3>2. QED BY <1>7, <2>4, <3>1 DEF Checked
    <2>5. CASE dpc = "pass1"
        <3>1. TypedAt(7) = l /\ dpc' \in {"generate", "pass2"} /\ pass' = l /\ (dpc' = "generate" => l = None)
            BY <1>1, <1>5, <2>1, <2>5 DEF After, PlaceOf
        <3>2. QED BY <1>7, <2>5, <3>1 DEF Checked
    <2>6. CASE dpc = "pass2"
        <3>1. TypedAt(8) = l /\ dpc' \in {"generate", "failed"} /\ pass' = pass /\ (dpc' = "generate" => l = pass)
            BY <1>1, <1>5, <2>1, <2>6 DEF After, PlaceOf, Same
        <3>2. QED BY <1>7, <2>6, <3>1 DEF Checked
    <2>7. QED BY <2>2, <2>3, <2>4, <2>5, <2>6 DEF KeyQuestion
<1>17. KeyMade'
    BY <1>12 DEF KeyMade, KeyQuestion
<1>18. QED BY <1>15, <1>16, <1>17

LEMMA HeardGenerate ==
    ASSUME IsSeq(answers), Listened, Checked, Generate, o.op = "gen-key"
    PROVE  Listened' /\ Checked' /\ KeyMade'
<1>1. /\ dpc = "generate" /\ dpc' \in {"failed", "generated"}
      /\ answers' = answers /\ stdin' = stdin /\ typed' = typed /\ pass' = pass
      /\ made' = [algo |-> IF AnswerTo("selection") = "2" THEN "rsa" ELSE "ed25519",
                  bits |-> IF AnswerTo("selection") = "2" THEN SizeOf(AnswerTo("size")) ELSE 0,
                  life |-> Lifetime(AnswerTo("expire")),
                  uid  |-> <<AnswerTo("name"), AnswerTo("email"), AnswerTo("comment")>>]
    BY DEF Generate, talk
<1>2. /\ Extra' = Extra /\ Script' = Script /\ TypedRSA' = TypedRSA
      /\ \A q : PlaceOf(q)' = PlaceOf(q)
      /\ \A k : TypedAt(k)' = TypedAt(k)
    BY <1>1, ScriptStays
<1>3. Listened'
    BY <1>1, <1>2 DEF Listened, KeyQuestion
<1>4. Checked'
    BY <1>1, <1>2 DEF Checked
<1>5. KeyMade'
    <2>1. /\ Extra \in {0, 1} /\ Len(answers) >= 7 + Extra /\ Len(answers) \in Nat
          /\ \A k \in Nat : TypedAt(k) = typed[k + Extra]
        BY <1>1, ScriptFacts, LenProperties DEF Listened, IsSeq
    <2>2. \A q \in {"selection", "expire", "name", "email", "comment"} : AnswerTo(q) = typed[PlaceOf(q)]
        <3>1. \A q \in {"selection", "expire", "name", "email", "comment"} :
                 q \in KeyQuestion /\ q # "size" /\ PlaceOf(q) <= Len(answers)
            BY <2>1 DEF KeyQuestion, PlaceOf
        <3>2. QED BY <3>1, AnswerTyped
    <2>3. /\ AnswerTo("selection") = typed[1] /\ AnswerTo("expire") = TypedAt(2)
          /\ AnswerTo("name") = TypedAt(3) /\ AnswerTo("email") = TypedAt(4) /\ AnswerTo("comment") = TypedAt(5)
        BY <2>1, <2>2 DEF PlaceOf
    <2>4. TypedRSA => AnswerTo("size") = typed[2]
        <3>1. "size" \in KeyQuestion /\ PlaceOf("size") = 2 /\ 2 <= Len(answers)
            BY <2>1 DEF KeyQuestion, PlaceOf
        <3>2. QED BY <3>1, AnswerTyped
    <2>5. /\ made'.algo = IF TypedRSA THEN "rsa" ELSE "ed25519"
          /\ TypedRSA => made'.bits = SizeOf(typed[2])
          /\ made'.life = Lifetime(TypedAt(2))
          /\ made'.uid = <<TypedAt(3), TypedAt(4), TypedAt(5)>>
        BY <1>1, <2>3, <2>4 DEF TypedRSA
    <2>6. QED BY <1>1, <1>2, <2>5 DEF KeyMade
<1>6. QED BY <1>3, <1>4, <1>5

HeardInv == Streams /\ Tagged /\ Heard

LEMMA HeardStep == Asked /\ HeardInv /\ [DialogueNext]_allVars => Heard'
<1> SUFFICES ASSUME Asked, Streams, Tagged, Heard, [DialogueNext]_allVars, o'.op = "gen-key", dpc' # "idle"
             PROVE  Listened' /\ Checked' /\ KeyMade'
    BY DEF Heard, HeardInv
<1>1. ASSUME Talk PROVE o' = o
    BY <1>1, TalkKeeps DEF vars
<1>2. CASE Begin
    <2>1. dpc' = "gen-key" /\ answers' = answers /\ answers = << >> /\ o' = o
        BY <1>1, <1>2 DEF Talk, Begin, Asked
    <2>2. Len(answers') = 0 /\ \A k \in 1 .. 0 : FALSE
        BY <2>1
    <2>3. \A k \in 1 .. Len(stdin') : typed'[0 + k] = Head(stdin'[k])
        <3>1. PICK in \in Inputs[o.op] : /\ stdin' = in.bursts
                                         /\ typed' = [k \in DOMAIN in.bursts |-> Head(in.bursts[k])]
            BY <1>2 DEF Begin
        <3>2. in.bursts \in Bursts
            BY <2>1, <3>1, DialogueAssumption
        <3>3. DOMAIN in.bursts = 1 .. Len(in.bursts)
            BY <3>2, LenProperties DEF Bursts
        <3>4. QED BY <3>1, <3>3
    <2>4. Listened'
        BY <2>1, <2>2, <2>3 DEF Listened, KeyQuestion
    <2>5. QED BY <2>1, <2>4 DEF Checked, KeyMade
<1>3. CASE GenKey
    <2>1. /\ dpc = "gen-key" /\ dpc' \in {"failed", "selection"} /\ answers' = answers /\ stdin' = stdin
          /\ typed' = typed /\ o' = o
        BY <1>1, <1>3 DEF Talk, GenKey, talk
    <2>2. Listened
        BY <2>1 DEF Heard
    <2>3. answers = << >> /\ Len(answers) = 0
        BY <2>1, <2>2 DEF Listened
    <2>4. /\ Extra' = Extra /\ Script' = Script /\ TypedRSA' = TypedRSA /\ \A q : PlaceOf(q)' = PlaceOf(q)
        BY <2>1, ScriptStays
    <2>5. PlaceOf("selection") = 1
        BY DEF PlaceOf
    <2>6. Listened'
        BY <2>1, <2>2, <2>3, <2>4, <2>5 DEF Listened, KeyQuestion
    <2>7. QED BY <2>1, <2>6 DEF Checked, KeyMade
<1>4. CASE Answer
    <2>1. dpc \in Question /\ o' = o
        BY <1>1, <1>4 DEF Talk, Answer
    <2>2. dpc \in KeyQuestion
        BY <2>1 DEF Tagged, Question
    <2>3. Listened /\ Checked
        BY <2>1, <2>2 DEF Heard, KeyQuestion
    <2>4. QED BY <1>4, <2>2, <2>3, HeardAnswer DEF Asked
<1>5. CASE AnswerMissing
    <2>1. /\ dpc \in Question /\ dpc' = "failed" /\ answers' = answers /\ stdin' = stdin
          /\ typed' = typed /\ o' = o
        BY <1>1, <1>5 DEF Talk, AnswerMissing, talk
    <2>2. Listened
        BY <2>1 DEF Heard, Question
    <2>3. /\ Extra' = Extra /\ Script' = Script /\ TypedRSA' = TypedRSA
        BY <2>1, ScriptStays
    <2>4. Listened'
        BY <2>1, <2>2, <2>3 DEF Listened, KeyQuestion
    <2>5. QED BY <2>1, <2>4 DEF Checked, KeyMade
<1>6. CASE Generate
    <2>1. dpc = "generate" /\ o' = o
        BY <1>1, <1>6 DEF Talk, Generate, talk
    <2>2. Listened /\ Checked
        BY <2>1 DEF Heard
    <2>3. QED BY <1>6, <2>1, <2>2, HeardGenerate DEF Asked
<1>7. CASE QuickGenKey \/ Symmetric \/ Look \/ Appear \/ Write
    <2>1. dpc \in {"quick-gen-key", "symmetric", "output", "write"} /\ o' = o
        BY <1>1, <1>7 DEF Talk, QuickGenKey, Symmetric, Look, Appear, Write
    <2>2. QED BY <2>1 DEF Tagged, KeyQuestion
<1>8. CASE UNCHANGED allVars
    <2>1. /\ dpc' = dpc /\ answers' = answers /\ stdin' = stdin /\ typed' = typed /\ o' = o
          /\ pass' = pass /\ made' = made
        BY <1>8 DEF allVars, vars, dialogueVars
    <2>2. Listened /\ Checked /\ KeyMade
        BY <2>1 DEF Heard
    <2>3. /\ Extra' = Extra /\ Script' = Script /\ TypedRSA' = TypedRSA
          /\ \A q : PlaceOf(q)' = PlaceOf(q)
          /\ \A k : TypedAt(k)' = TypedAt(k)
        BY <2>1, ScriptStays
    <2>4. Listened'
        BY <2>1, <2>2, <2>3 DEF Listened
    <2>5. Checked'
        BY <2>1, <2>2, <2>3 DEF Checked
    <2>6. KeyMade'
        BY <2>1, <2>2, <2>3 DEF KeyMade
    <2>7. QED BY <2>4, <2>5, <2>6
<1>9. CASE dpc = "idle" /\ UNCHANGED dialogueVars
    BY <1>9 DEF dialogueVars
<1>10. QED BY <1>2, <1>3, <1>4, <1>5, <1>6, <1>7, <1>8, <1>9 DEF DialogueNext, Talk, Told

\* The key is the one of the first lines of what arrived, for any lines and
\* sizes, and its lifetime the one typed exactly if 32 bits of seconds hold it
\* (genkey.go, passphrase.go, keygen.go).
THEOREM KeysAreAsTyped == DialogueSpec => []KeyAsTyped
<1>1. DialogueInit => DialogueInv /\ HeardInv
    <2> SUFFICES ASSUME DialogueInit PROVE HeardInv
        BY DialogueBegins
    <2>1. dpc = "idle" /\ stdin = << >>
        BY DEF DialogueInit
    <2>2. << >> \in Bursts
        BY EmptySeq DEF Bursts
    <2>3. QED BY <2>1, <2>2 DEF HeardInv, Streams, Tagged, Heard
<1>2. DialogueInv /\ HeardInv /\ [DialogueNext]_allVars => (DialogueInv /\ HeardInv)'
    BY AskedStep, UntouchedStep, ResolvedStep, StreamsStep, TaggedStep, HeardStep DEF DialogueInv, HeardInv
<1>3. HeardInv => KeyAsTyped
    <2> SUFFICES ASSUME HeardInv, dpc = "generated", o.op = "gen-key"
                 PROVE  /\ made.algo = IF TypedRSA THEN "rsa" ELSE "ed25519"
                        /\ TypedRSA /\ typed[2] \in DOMAIN Sizes => Sizes[typed[2]] \in {0, made.bits}
                        /\ made.life = 675 * Days[TypedAt(2)] <=> Fits(Days[TypedAt(2)])
                        /\ made.uid = <<TypedAt(3), TypedAt(4), TypedAt(5)>>
                        /\ TypedAt(6) # "Q" /\ pass = TypedAt(7)
                        /\ pass # None => TypedAt(8) = pass
        BY DEF KeyAsTyped
    <2>1. Checked /\ KeyMade
        BY DEF HeardInv, Heard
    <2>2. TypedRSA /\ typed[2] \in DOMAIN Sizes => Sizes[typed[2]] \in {0, made.bits}
        BY <2>1 DEF KeyMade, SizeOf
    <2>3. made.life = 675 * Days[TypedAt(2)] <=> Fits(Days[TypedAt(2)])
        <3> DEFINE d == Days[TypedAt(2)]
        <3>1. d \in Nat /\ made.life = (675 * d) % 33554432
            BY <2>1, DialogueAssumption DEF Checked, KeyMade, Lifetime, Units
        <3> HIDE DEF d
        <3>2. d < 49711 => (675 * d) % 33554432 = 675 * d
            BY <3>1
        <3>3. d >= 49711 => (675 * d) % 33554432 < 675 * d
            BY <3>1
        <3>4. (675 * d) % 33554432 = 675 * d <=> d < 49711
            BY <3>1, <3>2, <3>3
        <3>5. QED BY <3>1, <3>4 DEF d, Fits
    <2>4. QED BY <2>1, <2>2, <2>3 DEF Checked, KeyMade
<1>4. QED BY <1>1, <1>2, <1>3, PTL DEF DialogueSpec

-----------------------------------------------------------------------------
(* The arguments.                                                           *)

\* Is word k of a an argument, by the values v?
ArgBy(v, a, k) == (\E j \in 1 .. (k - 1) : a[j].lex = "end" /\ ~v[j]) \/ (a[k].lex = "plain" /\ ~v[k])

\* The arguments before the word n, and how many there are.
Before(v, a, n) == {k \in 1 .. Len(a) : k < n /\ ArgBy(v, a, k)}
Count(v, a, n)  == Cardinality(Before(v, a, n))

\* args are the arguments before n.
Collected(v, a, args, n) ==
    /\ IsSeq(args) /\ Len(args) = Count(v, a, n)
    /\ \A k \in Before(v, a, n) : args[Count(v, a, k + 1)] = Text(a[k])

LEMMA CountStep ==
    ASSUME NEW v, NEW a, Len(a) \in Nat, NEW n \in Nat
    PROVE  /\ IsFiniteSet(Before(v, a, n)) /\ Count(v, a, n) \in Nat
           /\ n \in 1 .. Len(a) /\ ArgBy(v, a, n) => Count(v, a, n + 1) = Count(v, a, n) + 1
           /\ ~(n \in 1 .. Len(a) /\ ArgBy(v, a, n)) => Before(v, a, n + 1) = Before(v, a, n)
<1> DEFINE B == Before(v, a, n)
           C == Before(v, a, n + 1)
<1>1. IsFiniteSet(1 .. Len(a)) /\ B \in SUBSET (1 .. Len(a)) /\ 0 \in Int /\ 1 \in Int /\ Len(a) \in Int
    BY FS_Interval DEF Before
<1>2. IsFiniteSet(B)
    BY <1>1, FS_Subset
<1>3. Cardinality(B) \in Nat
    BY <1>2, FS_CardinalityType
<1>4. \A k \in 1 .. Len(a) : k < n + 1 <=> k < n \/ k = n
    OBVIOUS
<1>5. ASSUME n \in 1 .. Len(a), ArgBy(v, a, n) PROVE Cardinality(C) = Cardinality(B) + 1
    <2>1. C = B \union {n} /\ n \notin B
        BY <1>4, <1>5 DEF Before
    <2> HIDE DEF B, C
    <2>2. QED BY <1>2, <2>1, FS_AddElement
<1>6. ASSUME ~(n \in 1 .. Len(a) /\ ArgBy(v, a, n)) PROVE C = B
    <2>1. \A k \in 1 .. Len(a) : k < n + 1 /\ ArgBy(v, a, k) <=> k < n /\ ArgBy(v, a, k)
        BY <1>4, <1>6
    <2>2. QED BY <2>1 DEF Before
<1>7. QED BY <1>2, <1>3, <1>5, <1>6 DEF Count

LEMMA CountRange ==
    ASSUME NEW v, NEW a, Len(a) \in Nat, NEW n \in Nat, NEW k \in Before(v, a, n)
    PROVE  Count(v, a, k + 1) \in 1 .. Count(v, a, n)
<1>1. k \in 1 .. Len(a) /\ k < n /\ ArgBy(v, a, k) /\ k \in Nat /\ k + 1 \in Nat
    BY DEF Before
<1>2. IsFiniteSet(Before(v, a, n)) /\ Count(v, a, n) \in Nat /\ Count(v, a, k) \in Nat /\ Count(v, a, k + 1) \in Nat
    BY <1>1, CountStep
<1>3. Count(v, a, k + 1) = Count(v, a, k) + 1
    BY <1>1, CountStep
<1>4. Before(v, a, k + 1) \in SUBSET Before(v, a, n)
    BY <1>1 DEF Before
<1>5. Cardinality(Before(v, a, k + 1)) <= Cardinality(Before(v, a, n))
    BY <1>2, <1>4, FS_Subset
<1>6. Count(v, a, k + 1) <= Count(v, a, n) /\ Count(v, a, k + 1) >= 1
    BY <1>2, <1>3, <1>5 DEF Count
<1>7. QED BY <1>2, <1>6

\* One more argument.
LEMMA CollectOne ==
    ASSUME NEW v, NEW a, Len(a) \in Nat, NEW n \in 1 .. Len(a), NEW args, Collected(v, a, args, n),
           ArgBy(v, a, n)
    PROVE  Collected(v, a, Append(args, Text(a[n])), n + 1)
<1> DEFINE new == Append(args, Text(a[n]))
           c == Count(v, a, n)
<1>1. IsSeq(args) /\ Len(args) = c /\ \A k \in Before(v, a, n) : args[Count(v, a, k + 1)] = Text(a[k])
    BY DEF Collected
<1>2. /\ IsSeq(new) /\ c \in Nat /\ Len(new) = c + 1 /\ new[c + 1] = Text(a[n])
      /\ \A k \in 1 .. c : new[k] = args[k]
    BY <1>1, Longer
<1>3. n \in Nat /\ Count(v, a, n + 1) = c + 1
    BY CountStep
<1>4. ASSUME NEW k \in Before(v, a, n + 1) PROVE new[Count(v, a, k + 1)] = Text(a[k])
    <2>1. k \in Before(v, a, n) \/ k = n
        BY DEF Before
    <2>2. CASE k \in Before(v, a, n)
        <3>1. Count(v, a, k + 1) \in 1 .. c
            BY <1>3, <2>2, CountRange
        <3>2. QED BY <1>1, <1>2, <2>2, <3>1
    <2>3. CASE k = n
        BY <1>2, <1>3, <2>3
    <2>4. QED BY <2>1, <2>2, <2>3
<1> HIDE DEF new
<1>5. Collected(v, a, new, n + 1)
    BY <1>2, <1>3, <1>4 DEF Collected
<1>6. QED BY <1>5 DEF new

\* All the words behind --.
LEMMA CollectRest ==
    ASSUME NEW v, NEW a, Len(a) \in Nat, NEW n \in 1 .. Len(a), NEW args, Collected(v, a, args, n),
           ~ArgBy(v, a, n), \A k \in 1 .. Len(a) : n < k => ArgBy(v, a, k)
    PROVE  Collected(v, a, args \o [k \in 1 .. (Len(a) - n) |-> Text(a[n + k])], Len(a) + 1)
<1> DEFINE L == Len(a)
           t == [k \in 1 .. (L - n) |-> Text(a[n + k])]
           new == args \o t
           c == Count(v, a, n)
<1>1. IsSeq(args) /\ Len(args) = c /\ \A k \in Before(v, a, n) : args[Count(v, a, k + 1)] = Text(a[k])
    BY DEF Collected
<1>2. n \in Nat /\ L \in Nat /\ n <= L /\ L - n \in Nat /\ c \in Nat
    BY CountStep
<1>3. IsSeq(t) /\ Len(t) = L - n /\ \A k \in 1 .. (L - n) : t[k] = Text(a[n + k])
    <2>1. DOMAIN t = 1 .. (L - n) /\ \A k \in 1 .. (L - n) : t[k] = Text(a[n + k])
        OBVIOUS
    <2>2. t = [k \in 1 .. (L - n) |-> t[k]]
        OBVIOUS
    <2> HIDE DEF t
    <2>3. \A k \in 1 .. (L - n) : t[k] \in ToSet(t)
        BY <2>1 DEF ToSet
    <2>4. t \in [1 .. (L - n) -> ToSet(t)]
        BY <2>2, <2>3
    <2>5. t \in Seq(ToSet(t))
        BY <1>2, <2>4
    <2>6. QED BY <1>2, <2>1, <2>5, LenProperties DEF IsSeq
<1> HIDE DEF L, t
<1>4. /\ IsSeq(new) /\ Len(new) = c + (L - n)
      /\ \A k \in 1 .. (c + (L - n)) : new[k] = IF k <= c THEN args[k] ELSE t[k - c]
    <2>1. IsSeq(args) /\ IsSeq(t) /\ Len(args) = c /\ Len(t) = L - n
        BY <1>1, <1>3
    <2> HIDE DEF c, L
    <2>2. /\ IsSeq(new) /\ Len(new) = Len(args) + Len(t)
          /\ \A k \in 1 .. (Len(args) + Len(t)) :
               new[k] = IF k <= Len(args) THEN args[k] ELSE t[k - Len(args)]
        BY <2>1, Joined
    <2>3. QED BY <2>1, <2>2
<1> HIDE DEF new
<1>5. \A m \in Nat : n + m <= L => Count(v, a, (n + m) + 1) = c + m
    <2> DEFINE S == {m \in Nat : n + m <= L => Count(v, a, (n + m) + 1) = c + m}
    <2>1. 0 \in S
        <3>1. Before(v, a, n + 1) = Before(v, a, n)
            BY CountStep
        <3>2. Count(v, a, n + 1) = c
            BY <3>1 DEF Count
        <3> HIDE DEF c
        <3>3. QED BY <1>2, <3>2
    <2>2. ASSUME NEW m \in Nat, m \in S PROVE m + 1 \in S
        <3> SUFFICES ASSUME n + (m + 1) <= L PROVE Count(v, a, (n + (m + 1)) + 1) = c + (m + 1)
            OBVIOUS
        <3> DEFINE k == (n + m) + 1
        <3>1. k \in 1 .. L /\ n < k /\ n + m <= L /\ k = n + (m + 1) /\ k \in Nat
            BY <1>2
        <3>2. Count(v, a, k) = c + m
            BY <2>2, <3>1
        <3>3. ArgBy(v, a, k)
            BY <3>1 DEF L
        <3>4. Count(v, a, k + 1) = Count(v, a, k) + 1
            BY <3>1, <3>3, CountStep DEF L
        <3> HIDE DEF k, c
        <3>5. QED BY <1>2, <3>1, <3>2, <3>4
    <2> HIDE DEF S
    <2>3. Nat \subseteq S
        BY <2>1, <2>2, NatSetInduction
    <2>4. QED BY <2>3 DEF S
<1>6. Count(v, a, L + 1) = c + (L - n)
    <2>1. L - n \in Nat /\ n + (L - n) = L
        BY <1>2
    <2>2. QED BY <1>5, <2>1
<1>7. ASSUME NEW k \in Before(v, a, L + 1) PROVE new[Count(v, a, k + 1)] = Text(a[k])
    <2>1. k \in 1 .. L /\ k \in Nat /\ ArgBy(v, a, k)
        BY <1>2 DEF Before, L
    <2>2. k < n \/ n < k
        <3>1. k # n
            BY <2>1
        <3>2. QED BY <1>2, <2>1, <3>1
    <2>3. CASE k < n
        <3>1. k \in Before(v, a, n)
            BY <2>1, <2>3 DEF Before, L
        <3>2. Count(v, a, k + 1) \in 1 .. c
            BY <1>2, <3>1, CountRange
        <3> DEFINE d == Count(v, a, k + 1)
        <3>3. args[d] = Text(a[k])
            BY <1>1, <3>1
        <3> HIDE DEF c, d
        <3>4. d \in 1 .. (c + (L - n)) /\ d <= c
            BY <1>2, <3>2 DEF d
        <3>5. QED BY <1>4, <3>3, <3>4 DEF d
    <2>4. CASE n < k
        <3>1. k - n \in Nat /\ n + (k - n) = k /\ k <= L
            BY <1>2, <2>1, <2>4
        <3>2. Count(v, a, k + 1) = c + (k - n)
            BY <1>5, <3>1
        <3> HIDE DEF c
        <3>3. /\ c + (k - n) \in 1 .. (c + (L - n)) /\ ~(c + (k - n) <= c) /\ (c + (k - n)) - c = k - n
              /\ k - n \in 1 .. (L - n)
            BY <1>2, <2>1, <2>4
        <3>4. QED BY <1>3, <1>4, <3>1, <3>2, <3>3
    <2>5. QED BY <2>2, <2>3, <2>4
<1>8. Collected(v, a, new, L + 1)
    BY <1>4, <1>6, <1>7 DEF Collected
<1>9. QED BY <1>8 DEF new, t, L

\* A word that starts is an argument when it is plain; an option is passed by
\* with its value.
LEMMA StartArg ==
    ASSUME NEW k, Starts(IsValue, argv, k)
    PROVE  ArgBy(IsValue, argv, k) <=> argv[k].lex = "plain"
BY DEF Starts, ArgBy

LEMMA CollectSkip ==
    ASSUME argv \in Argvs, NEW k \in 1 .. Len(argv), Starts(IsValue, argv, k),
           argv[k].lex # "end", argv[k].lex # "plain", NEW args, Collected(IsValue, argv, args, k),
           NEW n, n = IF TakesNext(argv[k]) THEN k + 2 ELSE k + 1
    PROVE  Collected(IsValue, argv, args, n) /\ Starts(IsValue, argv, n)
<1>1. /\ Len(argv) \in Nat /\ DOMAIN argv = 1 .. Len(argv)
      /\ k \in Nat /\ k > 0 /\ k + 1 \in Nat /\ (k + 1) + 1 = k + 2
    BY WordFacts
<1>2. Before(IsValue, argv, k + 1) = Before(IsValue, argv, k)
    <2>1. ~ArgBy(IsValue, argv, k)
        BY StartArg
    <2>2. QED BY <1>1, <2>1, CountStep
<1>3. CASE TakesNext(argv[k])
    <2>1. IsValue[k + 1] /\ Starts(IsValue, argv, k + 2)
        BY <1>1, <1>3, NextStarts
    <2>2. ~ArgBy(IsValue, argv, k + 1)
        <3>1. \A j \in 1 .. ((k + 1) - 1) : j \in 1 .. ((k + 2) - 1)
            BY <1>1
        <3>2. QED BY <2>1, <3>1 DEF ArgBy, Starts
    <2>3. Before(IsValue, argv, (k + 1) + 1) = Before(IsValue, argv, k + 1)
        BY <1>1, <2>2, CountStep
    <2>4. n = k + 2 /\ Before(IsValue, argv, n) = Before(IsValue, argv, k)
        BY <1>1, <1>2, <1>3, <2>3
    <2>5. QED BY <2>1, <2>4 DEF Collected, Count
<1>4. CASE ~TakesNext(argv[k])
    <2>1. Starts(IsValue, argv, k + 1)
        BY <1>1, <1>4, NextStarts
    <2>2. n = k + 1 /\ Before(IsValue, argv, n) = Before(IsValue, argv, k)
        BY <1>2, <1>4
    <2>3. QED BY <2>1, <2>2 DEF Collected, Count
<1>5. QED BY <1>3, <1>4

LEMMA NothingCollected == ASSUME NEW v, NEW a, Len(a) \in Nat PROVE Collected(v, a, << >>, 1)
<1>1. Before(v, a, 1) = {}
    BY DEF Before
<1>2. Count(v, a, 1) = 0
    BY <1>1, FS_EmptySet DEF Count
<1>3. IsSeq(<< >>) /\ Len(<< >>) = 0
    BY EmptySeq DEF IsSeq
<1>4. QED BY <1>1, <1>2, <1>3 DEF Collected

\* The invariant of the arguments.
Arguments ==
    /\ pc \in {"prescan", "config"} => o.args = << >>
    /\ pc = "parse" => /\ i \in DOMAIN argv => Starts(IsValue, argv, i)
                       /\ Collected(IsValue, argv, o.args, i)
    /\ pc = "done" => Collected(IsValue, argv, o.args, Len(argv) + 1)

\* Options leave the arguments alone.
LEMMA ArgsUsed ==
    ASSUME argv \in Argvs, NEW k \in 1 .. Len(argv), NEW v, Gathered, Recognized(argv[k]),
           UseOptions(argv[k], v)
    PROVE  o'.args = o.args
<1> DEFINE opts == Options(argv[k], v)
           names == argv[k].names
<1>1. o' = ApplyAll(o, opts) /\ IsSeq(seen) /\ Applied(o, seen, Len(seen))
    BY DEF UseOptions, Gathered
<1>2. Meant(opts, names, v)
    BY OptionsFacts
<1>3. DOMAIN names = 1 .. Len(names) /\ \A n \in DOMAIN names : names[n] \in Known
    BY WordFacts, LenProperties DEF Recognized
<1> HIDE DEF opts, names
<1>4. IsSeq(opts) /\ \A n \in 1 .. Len(opts) : opts[n].name \in Known
    BY <1>2, <1>3 DEF Meant
<1>5. QED BY <1>1, <1>4, AllApplied

LEMMA ArgumentsStep == OptionsInv /\ Arguments /\ [Next]_vars => Arguments'
<1> SUFFICES ASSUME Typed, Gathered, Arguments, [Next]_vars PROVE Arguments'
    BY DEF OptionsInv
<1>1. argv' = argv
    BY DEF Next, vars, given, PrescanWord, OpenConfig, ConfigLine, ConfigEnd, ParseEnd, ParseArg,
           ParseOption, ParseIgnored, ParseError, Parsed, Stopped
<1>2. IsValue' = IsValue
    BY <1>1, ValuesStay
<1>3. /\ argv \in Argvs /\ Len(argv) \in Nat /\ DOMAIN argv = 1 .. Len(argv)
      /\ i \in Nat /\ i > 0 /\ Word = argv[i] /\ DOMAIN o = DOMAIN OpNone
    BY WordFacts DEF Typed, Word, Gathered, Applied
<1>4. ASSUME pc \in {"prescan", "config"}, o' = o, i' = 1, pc' \in {"parse", "config", "error"}
      PROVE  Arguments'
    <2>1. o.args = << >> /\ Collected(IsValue, argv, << >>, 1) /\ Starts(IsValue, argv, 1)
        BY <1>3, <1>4, NothingCollected, FirstStarts DEF Arguments
    <2>2. QED BY <1>1, <1>2, <1>4, <2>1 DEF Arguments
<1>5. ASSUME pc' = "parse", Collected(IsValue, argv, o'.args, i'),
             i' \in DOMAIN argv => Starts(IsValue, argv, i')
      PROVE  Arguments'
    BY <1>1, <1>2, <1>5 DEF Arguments
<1>6. ASSUME Parsing
      PROVE  /\ pc = "parse" /\ i \in 1 .. Len(argv) /\ Starts(IsValue, argv, i)
             /\ Collected(IsValue, argv, o.args, i)
    BY <1>3, <1>6 DEF Parsing, Arguments
<1>7. CASE PrescanWord
    BY <1>7 DEF PrescanWord, Arguments
<1>8. CASE OpenConfig
    BY <1>4, <1>8 DEF OpenConfig
<1>9. CASE ConfigLine
    <2> DEFINE name == Lines[i].name
               val == Lines[i].val
    <2>1. pc = "config" /\ pc' = "config" /\ o' = Apply(o, name, val)
        BY <1>9 DEF ConfigLine
    <2> HIDE DEF name, val
    <2>2. Effect(o', o, name, val)
        BY <1>3, <2>1, ApplyFacts
    <2>3. QED BY <2>1, <2>2 DEF Effect, Arguments
<1>10. CASE ConfigEnd
    BY <1>4, <1>10 DEF ConfigEnd
<1>11. CASE ParseEnd
    <2>1. /\ Parsing /\ argv[i].lex = "end" /\ i' = Len(argv) + 1 /\ pc' = pc
          /\ o' = [o EXCEPT !.args = @ \o [k \in 1 .. (Len(argv) - i) |-> Text(argv[i + k])]]
        BY <1>3, <1>11 DEF ParseEnd
    <2>2. ~ArgBy(IsValue, argv, i)
        BY <1>6, <2>1, StartArg
    <2>3. \A k \in 1 .. Len(argv) : i < k => ArgBy(IsValue, argv, k)
        <3> SUFFICES ASSUME NEW k \in 1 .. Len(argv), i < k PROVE ArgBy(IsValue, argv, k)
            OBVIOUS
        <3>1. i \in 1 .. (k - 1)
            BY <1>3
        <3>2. ~IsValue[i] /\ argv[i].lex = "end"
            BY <1>6, <2>1 DEF Starts
        <3>3. QED BY <3>1, <3>2 DEF ArgBy
    <2> DEFINE rest == [k \in 1 .. (Len(argv) - i) |-> Text(argv[i + k])]
    <2>4. Collected(IsValue, argv, o.args \o rest, Len(argv) + 1)
        BY <1>3, <1>6, <2>1, <2>2, <2>3, CollectRest
    <2>5. o'.args = o.args \o rest
        <3>1. "args" \in DOMAIN o
            BY <1>3 DEF OpNone
        <3> DEFINE all == o.args \o rest
        <3>2. o' = [o EXCEPT !.args = all]
            BY <2>1
        <3> HIDE DEF all
        <3>3. o'.args = all
            BY <3>1, <3>2
        <3>4. QED BY <3>3 DEF all
    <2> HIDE DEF rest
    <2>6. ~(i' \in DOMAIN argv)
        BY <1>3, <2>1
    <2>7. QED BY <1>5, <1>6, <2>1, <2>4, <2>5, <2>6
<1>12. CASE ParseArg
    <2>1. /\ Parsing /\ argv[i].lex = "plain" /\ i' = i + 1 /\ pc' = pc
          /\ o' = [o EXCEPT !.args = Append(@, argv[i].val)]
        BY <1>3, <1>12 DEF ParseArg
    <2>2. ArgBy(IsValue, argv, i) /\ Text(argv[i]) = argv[i].val /\ ~TakesNext(argv[i])
        BY <1>6, <2>1, StartArg DEF Text, TakesNext
    <2>3. "args" \in DOMAIN o
        BY <1>3 DEF OpNone
    <2>4. o'.args = Append(o.args, Text(argv[i]))
        BY <2>1, <2>2, <2>3
    <2>5. Collected(IsValue, argv, Append(o.args, Text(argv[i])), i + 1)
        BY <1>3, <1>6, <2>1, <2>2, CollectOne
    <2>6. Starts(IsValue, argv, i + 1)
        BY <1>3, <1>6, <2>1, <2>2, NextStarts
    <2>7. QED BY <1>5, <1>6, <2>1, <2>4, <2>5, <2>6
<1>13. CASE ParseOption
    <2>1. /\ Parsing /\ argv[i].names # << >> /\ Recognized(argv[i])
          /\ i' = IF TakesNext(argv[i]) THEN i + 2 ELSE i + 1
          /\ UseOptions(argv[i], Text(argv[i + 1])) \/ UseOptions(argv[i], argv[i].val)
          /\ pc' = pc
        BY <1>3, <1>13 DEF ParseOption
    <2>2. argv[i].lex # "end" /\ argv[i].lex # "plain"
        BY <1>3, <1>6, <2>1, WordFacts
    <2>3. Collected(IsValue, argv, o.args, i') /\ Starts(IsValue, argv, i')
        BY <1>3, <1>6, <2>1, <2>2, CollectSkip
    <2>4. ASSUME NEW v, UseOptions(argv[i], v) PROVE o'.args = o.args
        BY <1>3, <1>6, <2>1, <2>4, ArgsUsed
    <2>5. o'.args = o.args
        BY <2>1, <2>4
    <2>6. QED BY <1>5, <1>6, <2>1, <2>3, <2>5
<1>14. CASE ParseIgnored
    <2>1. /\ Parsing /\ Ignored(argv[i]) /\ pc' = pc /\ o' = o
          /\ i' = IF TakesNext(argv[i]) THEN i + 2 ELSE i + 1
        BY <1>3, <1>14 DEF ParseIgnored
    <2>2. argv[i].lex # "end" /\ argv[i].lex # "plain"
        BY <2>1 DEF Ignored
    <2>3. Collected(IsValue, argv, o.args, i') /\ Starts(IsValue, argv, i')
        BY <1>3, <1>6, <2>1, <2>2, CollectSkip
    <2>4. QED BY <1>5, <1>6, <2>1, <2>3
<1>15. CASE ParseError
    BY <1>15 DEF ParseError, Arguments
<1>16. CASE Parsed
    <2>1. pc = "parse" /\ pc' = "done" /\ i > Len(argv) /\ o' = o
        BY <1>3, <1>16 DEF Parsed
    <2>2. Before(IsValue, argv, i) = Before(IsValue, argv, Len(argv) + 1)
        <3>1. \A k \in 1 .. Len(argv) : k < i /\ k < Len(argv) + 1
            BY <1>3, <2>1
        <3>2. QED BY <3>1 DEF Before
    <2>3. Collected(IsValue, argv, o.args, i)
        BY <2>1 DEF Arguments
    <2>4. Collected(IsValue, argv, o.args, Len(argv) + 1)
        BY <2>2, <2>3 DEF Collected, Count
    <2>5. QED BY <1>1, <1>2, <2>1, <2>4 DEF Arguments
<1>17. CASE UNCHANGED vars
    BY <1>1, <1>2, <1>17 DEF Arguments, vars
<1>18. QED
    BY <1>7, <1>8, <1>9, <1>10, <1>11, <1>12, <1>13, <1>14, <1>15, <1>16, <1>17 DEF Next, Stopped

\* What is an argument is one of the words, in its place: none is lost, none taken
\* twice, on any command line (parse.go, config.go).
THEOREM ArgumentsAreKept == DialogueSpec => []ArgsKept
<1>1. DialogueInit => Arguments
    <2>1. OpNone.args = << >>
        BY DEF OpNone
    <2>2. QED BY <2>1 DEF DialogueInit, Init, Arguments
<1>2. OptionsInv /\ Arguments /\ [DialogueNext]_allVars => Arguments'
    BY DialogueOptions, ArgumentsStep
<1>3. OptionsInv /\ Arguments => ArgsKept
    <2> DEFINE Places == {k \in DOMAIN argv : AfterEnd(k) \/ (argv[k].lex = "plain" /\ ~IsValue[k])}
    <2> SUFFICES ASSUME OptionsInv, Arguments, pc = "done"
                 PROVE  /\ Len(o.args) = Cardinality(Places)
                        /\ \A k \in Places : o.args[Cardinality({j \in Places : j <= k})] = Text(argv[k])
        BY DEF ArgsKept
    <2>1. Len(argv) \in Nat /\ DOMAIN argv = 1 .. Len(argv)
        BY WordFacts DEF OptionsInv, Typed
    <2>2. ASSUME NEW k \in 1 .. Len(argv)
          PROVE  AfterEnd(k) \/ (argv[k].lex = "plain" /\ ~IsValue[k]) <=> ArgBy(IsValue, argv, k)
        <3>1. \A j \in 1 .. (k - 1) : j \in DOMAIN argv
            BY <2>1
        <3>2. QED BY <3>1 DEF AfterEnd, ArgBy, Ends
    <2>3. Places = Before(IsValue, argv, Len(argv) + 1)
        <3>1. \A k \in 1 .. Len(argv) : k < Len(argv) + 1
            BY <2>1
        <3>2. QED BY <2>1, <2>2, <3>1 DEF Before
    <2>4. \A k \in Places : k \in 1 .. Len(argv)
        BY <2>1
    <2>5. ASSUME NEW k \in Places PROVE {j \in Places : j <= k} = Before(IsValue, argv, k + 1)
        <3>1. k \in 1 .. Len(argv)
            BY <2>4
        <3>2. \A j \in 1 .. Len(argv) : j <= k <=> j < k + 1
            BY <3>1
        <3>3. QED BY <2>1, <2>2, <3>2 DEF Before
    <2>6. Collected(IsValue, argv, o.args, Len(argv) + 1)
        BY DEF Arguments
    <2> HIDE DEF Places
    <2>7. QED BY <2>3, <2>5, <2>6 DEF Collected, Count
<1>4. QED BY <1>1, <1>2, <1>3, OptionsInvariant, PTL DEF DialogueSpec
=============================================================================
