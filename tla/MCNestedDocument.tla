-------------------------- MODULE MCNestedDocument --------------------------
(* NestedDocument for TLC: keys over the names a and b in byte order       *)
(* ("." < "0" < "[" < "]" < "a"), chosen so that each pair of containers   *)
(* and scalars can collide at the top, in a map and in a list.             *)
EXTENDS NestedDocument

Part(n, ls) == [ok |-> TRUE, name |-> n, indexes |-> ls]
Bad == [ok |-> FALSE, name |-> "a]", indexes |-> <<>>]

MCIndexOf == [l \in {"0", "00", "1", "9"} |-> CASE l = "1" -> 1
                                               [] l = "9" -> 9
                                               [] OTHER   -> 0]

a == Part("a", <<>>)
b == Part("b", <<>>)
a0 == Part("a", <<"0">>)
b0 == Part("b", <<"0">>)
gap == Part("", <<>>)

(* [0].a, a, a..b, a.b, a.b.a, a.b[0], a.b[0].a, a[0], a[0].b, a[0][0],    *)
(* a[1], a[9], a], b                                                       *)
Plain == << <<Part("", <<"0">>), a>>,
            <<a>>,
            <<a, gap, b>>,
            <<a, b>>,
            <<a, b, a>>,
            <<a, b0>>,
            <<a, b0, a>>,
            <<a0>>,
            <<a0, b>>,
            <<Part("a", <<"0", "0">>)>>,
            <<Part("a", <<"1">>)>>,
            <<Part("a", <<"9">>)>>,
            <<Bad>>,
            <<b>> >>

ASSUME InPlaceOrder(Plain)

(* a.[0], a.[0].b, a[00], a[0], a[0].b: different keys, the same places. *)
Aliases == << <<a, Part("", <<"0">>)>>,
              <<a, Part("", <<"0">>), b>>,
              <<Part("a", <<"00">>)>>,
              <<a0>>,
              <<a0, b>> >>
=============================================================================
