----------------------------- MODULE MCDispatch -----------------------------
\* Instances of Dispatch for TLC.
EXTENDS Dispatch

CONSTANTS c1, c2, p1, p2

\* One NPU OS takes what id comes, one asks for its own as in nos_2process.c: in
\* one order both are registered, in the other there is a hole and p1 is refused.
AnyAndSecond == {(p1 :> -1) @@ (p2 :> 1)}
AnyOrFirst == {{0, 1}, {0}}

\* A second prediction of the client that has a first one behind it, next to one
\* of the other client, is enough for two loads that are both charged.
TwoAndOne == (c1 :> 2) @@ (c2 :> 1)
=============================================================================
