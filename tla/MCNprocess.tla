---------------------------- MODULE MCNprocess ----------------------------
EXTENDS Nprocess, TLC

CONSTANTS t1, t2, t3, t4, t5, t6

\* The graph of src/app/np_test/np_test.c:35-42, and the same with t6 beside
\* t4, so that three tasks count down t5.
TestOrder == <<t1, t2, t3, t4, t5>>
TestGraph == t1 :> <<t3>> @@ t2 :> <<t3, t4>> @@ t3 :> <<t5>> @@ t4 :> <<t5>> @@ t5 :> <<>>

WiderOrder == <<t1, t2, t3, t4, t5, t6>>
WiderGraph == t1 :> <<t3>> @@ t2 :> <<t3, t4, t6>> @@ t3 :> <<t5>> @@ t4 :> <<t5>>
                @@ t5 :> <<>> @@ t6 :> <<t5>>
=============================================================================
