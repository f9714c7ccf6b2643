------------------------------- MODULE MCGenerics -------------------------------
(***************************************************************************)
(* Instances of Generics: four generic functions, the third with a lambda  *)
(* and without the second entry (it extends a type), the fourth without a  *)
(* parameter; two types.  The first body makes at most two mentions, the   *)
(* others at most one.                                                     *)
(***************************************************************************)
EXTENDS Generics, TLC

FourScopes == 1..4
TheFunctions == <<<<"body", "body">>, <<"body", "body">>, <<"body", "lambda">>, <<"body", "body">>>>
LastScope == {4}
TwoTypes == {"x", "y"}

Ask(s, arg) == [of |-> s, func |-> 1, arg |-> arg, within |-> FALSE]
Nested(s) == [of |-> s, func |-> 1, arg |-> "x", within |-> TRUE]
Lambda == [of |-> 3, func |-> 2, arg |-> Own, within |-> FALSE]
Plain == Ask(4, "x")

Asks == {Ask(s, arg) : s \in 1..3, arg \in {Own, "x"}}
AtMostOne(set) == {<<>>} \cup {<<m>> : m \in set}
AtMostTwo(set) == AtMostOne(set) \cup {<<m, n>> : m \in set, n \in set}

Mains == {<<Ask(1, "x")>>, <<Ask(1, "x"), Ask(1, "y")>>, <<Ask(1, "y"), Ask(2, "x")>>, <<Plain>>,
          <<Ask(1, "x"), Ask(3, "y")>>}

AnyPrograms ==
  {<<one, two, three, four>> @@ (0 :> main) :
     main \in Mains, one \in AtMostTwo(Asks) \cup {<<Plain>>},
     two \in AtMostOne(Asks \cup {Nested(1), Nested(3)}),
     three \in AtMostOne(Asks \cup {Lambda, Plain}), four \in AtMostOne({Ask(3, "x")})}
=============================================================================
