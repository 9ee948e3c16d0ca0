------------------------------ MODULE MCScope ------------------------------
(* Bounded requests for Scope: every pattern of one segment of up to four  *)
(* bytes against every segment of up to four; every pattern and path of up *)
(* to three segments from a few; and scopes of one or two entries, also    *)
(* for the same backend.                                                   *)
EXTENDS Scope

Words(alphabet, least, most) ==
  UNION {[1..n -> alphabet] : n \in least..most}

a == <<"a">>
b == <<"b">>
MakeRule(backend, allow, deny) == [backend |-> backend, allow |-> allow, deny |-> deny]
MakeRef(backend, path) == [backend |-> backend, path |-> path]

OneSegment ==
  { [scope |-> <<MakeRule("v", << <<w>> >>, <<>>)>>,
     refs |-> <<MakeRef("v", <<t>>)>>] :
      w \in Words({"a", "b", "*"}, 0, 4), t \in Words({"a", "b"}, 0, 4)
                                            \cup Words({"a", "*"}, 0, 2) }

Segments ==
  { [scope |-> <<MakeRule("v", <<w>>, <<>>)>>, refs |-> <<MakeRef("v", t)>>] :
      w \in Words({a, <<"*">>, <<"*", "*">>, <<"a", "*">>}, 1, 3),
      t \in Words({a, <<>>, <<"a", "b">>}, 1, 3) }

Patterns == { << <<"*", "*">> >>, <<a, <<"*">>>>, <<<<"*">>, b>> }
Lists    == Words(Patterns, 0, 2)
Paths    == { <<a>>, <<a, b>>, <<b, b>> }

Rulings ==
  { [scope |-> <<MakeRule("v", allow, deny), MakeRule(other, << << <<"*", "*">> >> >>, <<>>)>>,
     refs |-> <<MakeRef("v", t), MakeRef("w", u)>>] :
      allow \in Lists, deny \in Words(Patterns, 0, 1), other \in {"v", "w"},
      t \in Paths, u \in {<<a, b>>} }

MCRequests == OneSegment \cup Segments \cup Rulings
=============================================================================
