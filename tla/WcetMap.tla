------------------------------ MODULE WcetMap ------------------------------
(***************************************************************************)
(* What the wcet records of an NPU OS promise to the mwct policy: for each *)
(* block, the greatest prediction time reported so far, 0 before the first *)
(* report, and a query answers what held at one moment while it ran.       *)
(***************************************************************************)
EXTENDS Naturals

CONSTANTS
  Key,      \* what a record is kept for: a block of a network
  Costs,    \* the prediction times
  NULL

VARIABLES
  worst,    \* the greatest time reported for each key
  asked,    \* the key the reader asks for, or NULL
  answer    \* what it was told, or NULL

vars == <<worst, asked, answer>>

Init == /\ worst = [k \in Key |-> 0]
        /\ asked = NULL
        /\ answer = NULL

Raise(k, c) == /\ c > worst[k]
               /\ worst' = [worst EXCEPT ![k] = c]
               /\ UNCHANGED <<asked, answer>>

Ask(k) == /\ asked = NULL
          /\ asked' = k
          /\ UNCHANGED <<worst, answer>>

Answer == /\ asked # NULL /\ answer = NULL
          /\ answer' = worst[asked]
          /\ UNCHANGED <<worst, asked>>

Return == /\ answer # NULL
          /\ asked' = NULL /\ answer' = NULL
          /\ UNCHANGED worst

Next == \/ \E k \in Key : Ask(k) \/ \E c \in Costs : Raise(k, c)
        \/ Answer
        \/ Return

Spec == Init /\ [][Next]_vars
=============================================================================
