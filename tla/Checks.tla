------------------------------- MODULE Checks -------------------------------
(* Code that makes checks one after the other and returns at the first that *)
(* fails, as a sequence of what each check objects.                         *)
EXTENDS Integers

\* What a check objects: its answer if it fails, else nothing.
Check(fails, answer) == IF fails THEN {answer} ELSE {}

\* answer is the first objection, or pass if there is none.
Answers(checks, pass, answer) ==
  \/ /\ \A i \in DOMAIN checks : checks[i] = {}
     /\ answer = pass
  \/ \E i \in DOMAIN checks :
       /\ answer \in checks[i]
       /\ \A j \in 1 .. i - 1 : checks[j] = {}

=============================================================================
