---------------------------- MODULE InvokeService ----------------------------
(***************************************************************************)
(* What the engine promises whoever invokes a function, without caches,    *)
(* handlers or containers: a call runs, at most once, the function that    *)
(* the table has under its name, with that function's own environment; it  *)
(* is answered that the name is unknown only when the table has none; and  *)
(* only what has run is answered as run.  Functions are added at any time  *)
(* and never change.                                                       *)
(***************************************************************************)
CONSTANTS Calls, Names, Rows, NoRow, NoName

VARIABLES
  table,      \* the functions by their names
  asked,      \* the name each call was sent to
  place,      \* where each call is
  ran,        \* the function it ran, with the environment it ran it with
  code        \* its answer

isVars == <<table, asked, place, ran, code>>

ISInit ==
  /\ table = [n \in Names |-> NoRow]
  /\ asked = [c \in Calls |-> NoName]
  /\ place = [c \in Calls |-> "new"]
  /\ ran = [c \in Calls |-> NoRow]
  /\ code = [c \in Calls |-> 0]

Publish ==
  /\ \E n \in Names :
       /\ table[n] = NoRow /\ table'[n] \in Rows
       /\ table' = [table EXCEPT ![n] = table'[n]]
  /\ UNCHANGED <<asked, place, ran, code>>

Arrive(c, n) ==
  /\ place[c] = "new"
  /\ place' = [place EXCEPT ![c] = "open"]
  /\ asked' = [asked EXCEPT ![c] = n]
  /\ UNCHANGED <<table, ran, code>>

Run(c) ==
  /\ place[c] = "open" /\ ran[c] = NoRow
  /\ table[asked[c]] # NoRow
  /\ ran' = [ran EXCEPT ![c] = table[asked[c]]]
  /\ UNCHANGED <<table, asked, place, code>>

(* The name is unknown; the function ran; or something failed.             *)
Answer(c) ==
  /\ place[c] = "open"
  /\ place' = [place EXCEPT ![c] = "ended"]
  /\ \E k \in {200, 404, 500} :
       /\ k = 200 => ran[c] # NoRow
       /\ k = 404 => ran[c] = NoRow /\ table[asked[c]] = NoRow
       /\ code' = [code EXCEPT ![c] = k]
  /\ UNCHANGED <<table, asked, ran>>

(* The engine dies: no call is answered any more.                          *)
Die ==
  /\ place' = [c \in Calls |-> IF place[c] = "new" THEN "new" ELSE "ended"]
  /\ UNCHANGED <<table, asked, ran, code>>

ISNext ==
  \/ \E c \in Calls, n \in Names : Arrive(c, n)
  \/ \E c \in Calls : Run(c) \/ Answer(c)
  \/ Publish
  \/ Die

ISSpec == ISInit /\ [][ISNext]_isVars
=============================================================================
