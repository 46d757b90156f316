------------------------------ MODULE MCAgeGate ------------------------------
(* Constants for the runs of AgeGate.                                        *)
EXTENDS AgeGate, TLC

CONSTANTS adult, minor, DE, FR, UK, s1, s2

Date(y, m, d) == [year |-> y, month |-> m, day |-> d]

\* The first is 21 on the second day and the other 18 a day after the last.
Births == [user \in User |-> IF user = adult THEN Date(2003, 3, 1)
                             ELSE Date(2006, 3, 2)]

Countries == [user \in User |-> IF user = adult THEN DE ELSE FR]

\* UK is not the code of a country: Great Britain's is GB.
Numbers ==
    [code \in Code |->
        CASE code = DE -> 276 [] code = FR -> 250 [] code = UK -> 0
          [] OTHER -> code]

Calendar2024 == <<Date(2024, 2, 29), Date(2024, 3, 1)>>

Age(minAge, reference) ==
    [type |-> "age", minAge |-> minAge, reference |-> reference]

Country(allow, block) == [type |-> "country", allow |-> allow, block |-> block]

\* Thresholds today and on a date that is none, a full list whose last entry
\* decides, and lists with a code that has no number next to one that has.
AskedDef ==
    {Age(18, None), Age(21, None), Age(18, Date(2024, 13, 1)), [type |-> "kyc"],
     Country(<<4, 8, 12, 16, 20, 24, 28, DE>>, <<>>), Country(<<>>, <<UK, DE>>)}

Secrets == Permutations(Secret)

PoliciesDef ==
    {[minAge |-> 18, requireKycPassed |-> FALSE],
     [minAge |-> 21, requireKycPassed |-> TRUE]}
=============================================================================
