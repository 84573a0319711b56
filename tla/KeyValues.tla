----------------------------- MODULE KeyValues -----------------------------
(* The values of the key store's small instances: certificate a with a       *)
(* subkey, copies of it with and without the subkey, certificate b with one  *)
(* key, and certificate c to be generated.                                   *)
EXTENDS KeyData, TLC

CONSTANTS a, b, c, a1, a2, b1, c1, x, y

MCFpr   == {a, b, c}
MCGrip  == {a1, a2, b1, c1}
MCKeys  == a :> <<a1, a2>> @@ b :> <<b1>> @@ c :> <<c1>>

Copy4(f, n, i, l) == [fpr |-> f, n |-> n, from |-> i, lock |-> l]

\* Inputs: an older copy of a public key, two secret keys of which the second
\* is locked, and secret subkeys alone followed by a public key.
MCFiles == { << Copy4(a, 1, 1, Public) >>,
             << Copy4(b, 1, 1, NoPass), Copy4(a, 2, 1, x) >>,
             << Copy4(a, 2, 2, y), Copy4(b, 1, 1, Public) >> }
RaceFiles == { << Copy4(a, 2, 1, x) >>, << Copy4(b, 1, 1, Public) >> }

Entry(f, n) == [fpr |-> f, n |-> n]
MCBoxes == { << Entry(b, 0), Entry(a, 2) >> }
RaceBoxes == { << >>, << Entry(b, 1), Entry(a, 2) >> }

=============================================================================
