------------------------ MODULE MCAttestationRegistry ------------------------
(* Constants for the runs of AttestationRegistry.                            *)
EXTENDS AttestationRegistry

CONSTANTS i1, i2, build1, build2, op1, op2

Commitments == {1, 2, 3}

OneOperator == [o \in {op1} |-> [issuer |-> i1, program |-> build1]]

\* The second operator has another issuer key and newer programs.
TwoOperators ==
    [o \in {op1, op2} |-> IF o = op1
                          THEN [issuer |-> i1, program |-> build1]
                          ELSE [issuer |-> i2, program |-> build2]]

\* Commitment 3, the leaf that makes an odd level, is published, revoked and
\* published again; 1 is published a second time.
WishesDef ==
    {[kind |-> "publish", commitment |-> 3], [kind |-> "revoke", commitment |-> 3],
     [kind |-> "publish", commitment |-> 1]}

NewOrUsed == {{}, {1, 2}}

Used == {{1, 2}}

\* TRUST_SOURCE with address and endpoint set, and TRUST_SOURCE=registry
\* without them, with an issuer from the environment or with none.
SettingsDef ==
    {[mode |-> m, envIssuer |-> i2, configured |-> TRUE, program |-> build1] :
        m \in {"auto", "registry"}}
    \cup {[mode |-> "registry", envIssuer |-> i, configured |-> FALSE,
           program |-> build1] : i \in {i2, Unset}}
=============================================================================
