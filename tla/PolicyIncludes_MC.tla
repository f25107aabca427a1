------------------------- MODULE PolicyIncludes_MC -------------------------
(***************************************************************************)
(* Three files, a link to one of them and a file outside the directory,    *)
(* with all ways in which the first may include two and the others one.    *)
(***************************************************************************)
EXTENDS PolicyIncludes

Names == {"a", "b", "c", "link", "out"}
UpToOne == {<<>>} \cup {<<x>> : x \in Names}
MCTrees ==
    {[listed |-> l, includes |-> [f \in {"a", "b", "c"} |-> IF f = "a" THEN ia ELSE IF f = "b" THEN ib ELSE ic],
      target |-> [p \in {"link"} |-> t], hidden |-> {}, unreadable |-> {}, outside |-> {"out"}, follow |-> TRUE] :
        l \in {<<"a">>, <<"b", "a">>, <<"a", "b", "c", "link">>},
        ia \in UpToOne \cup {<<x, y>> : x, y \in {"b", "c", "link"}}, ib \in UpToOne, ic \in UpToOne, t \in {"a", "c"}}
    \cup {[listed |-> l, includes |-> [f \in {"a", "b"} |-> IF f = "a" THEN ia ELSE <<>>],
           target |-> [p \in {"link", "link2"} |-> t], hidden |-> h, unreadable |-> u, outside |-> {}, follow |-> fo] :
        l \in {<<>>, <<"a", "b", "link", "link2">>, <<"a", "link">>}, ia \in {<<>>, <<"b">>, <<"link">>}, t \in {"a", "b"},
        h \in {{}, {"link2"}, {"a"}}, u \in {{}, {"b"}}, fo \in BOOLEAN}

=============================================================================
