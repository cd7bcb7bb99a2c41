----------------------------- MODULE RecordCopy -----------------------------
(***************************************************************************)
(* What util::stream::Chain promises the program that builds one: the      *)
(* records "given" come out in their order, each once, and when the chain  *)
(* has ended all of them are out.                                          *)
(***************************************************************************)
EXTENDS Naturals, Sequences

CONSTANT Inputs   \* what may be given

VARIABLES given, out, running

Init == given = <<>> /\ out = <<>> /\ ~running

Begin ==
  /\ ~running /\ running'
  /\ given' \in Inputs
  /\ out' = <<>>

\* Some of the records that are not out yet.
Deliver ==
  /\ running /\ UNCHANGED <<given, running>>
  /\ \E n \in Len(out) + 1 .. Len(given) : out' = SubSeq(given, 1, n)

End ==
  /\ running /\ ~running'
  /\ out = given
  /\ given' = <<>> /\ UNCHANGED out

Next == Begin \/ Deliver \/ End

Spec == Init /\ [][Next]_<<given, out, running>>
=============================================================================
