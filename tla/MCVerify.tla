------------------------------ MODULE MCVerify ------------------------------
EXTENDS Verify, MCDecrypt

\* Every form, one signer known and one not, alone or with a second signature;
\* with every number of arguments, and the data in either place or in none.
Signatures ==
    [form : {"detached", "clearsigned", "message"}, to : {<< >>}, signer : {a, z}, intact : BOOLEAN,
     legible : {TRUE}]

MCInputs ==
    [msg : Signatures, also : {Nobody, b, z}, args : 0..2,
     named : {"data"}, beside : DataFile, piped : Content] \union
    [msg : {s \in Signatures : s.form = "detached"}, also : {Nobody, b, z}, args : {2},
     named : DataFile, beside : DataFile, piped : Content] \union
    [msg : {Unsigned(<< >>), Unsigned(<<To(a1)>>), Spoilt(<< >>)}, also : {Nobody}, args : 0..2,
     named : {"data"}, beside : {"data"}, piped : {"data"}]
=============================================================================
