--------------------------- MODULE MCPlaceholders ---------------------------
(* Placeholders for TLC: three properties that refer to each other, to     *)
(* themselves, and to a key z that is not stored.                          *)
EXTENDS Placeholders

Key == {<<"a">>, <<"b">>, <<"c">>}

Reference(k) == <<"${">> \o k \o <<"}">>
WithDefault(k, d) == <<"${">> \o k \o <<":">> \o d \o <<"}">>

Parts == {<<"w">>, Reference(<<"z">>), WithDefault(<<"z">>, <<"w">>)}
         \cup {Reference(k) : k \in Key}

Values == Parts \cup {p \o q : p, q \in Parts}

(* Every answer of a, b and c in which c is a word or refers to a or b. *)
PlainAnswers == {[k \in Key |-> IF k = <<"a">> THEN x
                                ELSE IF k = <<"b">> THEN y ELSE z] :
                    x, y \in Values,
                    z \in {<<"w">>, Reference(<<"a">>), WithDefault(<<"b">>, <<"w">>)}}

ASSUME \A m \in PlainAnswers : \A k \in Key : Plain(m[k])

(* a has the nested placeholder ${z:${c}}, and b refers to a. *)
NestedAnswers == {[k \in Key |-> IF k = <<"a">> THEN WithDefault(<<"z">>, Reference(<<"c">>))
                                 ELSE IF k = <<"b">> THEN x ELSE y] :
                     x, y \in Values \cup {Reference(<<"a">>)}}
=============================================================================
