----------------------------- MODULE NumberBook -----------------------------
(***************************************************************************)
(* What the invoice-number allocator promises: a book per calendar year    *)
(* out of which blocks of consecutive numbers are handed out, each block   *)
(* once, each above everything that year has handed out before.            *)
(*                                                                         *)
(* A block says who it went to, the year and its lowest and highest        *)
(* number.                                                                 *)
(***************************************************************************)
EXTENDS Integers

CONSTANTS Holders, Years

VARIABLE given   \* the blocks handed out so far

Block == [by : Holders, year : Years, lo : Nat \ {0}, hi : Nat \ {0}]

Init == given = {}

\* A block goes out: not empty, and above every earlier block of its year.
Give(b) ==
  /\ b \in Block
  /\ b.lo <= b.hi
  /\ \A g \in given : g.year = b.year => g.hi < b.lo
  /\ \A g \in given : g.by # b.by
  /\ given' = given \union {b}

Next == \E b \in given' : Give(b)

Spec == Init /\ [][Next]_given
=============================================================================
