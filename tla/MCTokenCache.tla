---------------------------- MODULE MCTokenCache ----------------------------
(* Instances of TokenCache for TLC. *)
EXTENDS TokenCache, TLC
CONSTANTS l1, l2, s1, s2, o1, c1, c2

\* One command sets every field (a tuple), one a single field; the other login
\* sets none.
SomeFields ==
  [c \in Setters |-> CASE c = l1 -> Fields [] c = l2 -> {}
                       [] c = c1 -> {"endpoint"} [] OTHER -> {"account", "profile"}]
=============================================================================
