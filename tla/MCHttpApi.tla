---------------------------- MODULE MCHttpApi ----------------------------
(* HttpApi for TLC: the global application, one whose name begins with     *)
(* another's, names with each separator, and profiles that writes accept   *)
(* and reads refuse.                                                       *)
EXTENDS HttpApi

MCSymbol == STRING

Dev == <<"dev">>
DevJson == <<"dev", ".", "json">>
DevX == <<"dev", ",", "x">>

MCTarget == {<<Global, Default>>, <<<<"a">>, Default>>, <<<<"a">>, Dev>>, <<<<"a", "b">>, Dev>>,
             <<<<"a">>, <<"x", "-", "y">>>>, <<<<"a", "-", "x">>, Dev>>, <<<<"a">>, DevJson>>,
             <<<<"c", "/", "d">>, Dev>>, <<<<"c", "(_)", "d">>, Default>>,
             <<<<"a">>, DevX>>, <<<<"a">>, <<"-", "x">>>>, Probe}

MCProfileList == {Default, Dev, <<"x", "-", "y">>, DevJson, <<"readiness">>,
                  <<"dev", ",", "default">>, <<"x", "-", "y", ",", "dev">>}

Key == <<"k", ".", "l">>
MCKeys == {Key, <<"k", "/", "*">>, <<>>}
MCValue == {"v", ""}
MCBody == {[key \in {Key} |-> "v"], [key \in {Key} |-> "null"],
           [key \in {<<"k", "/", "*">>} |-> "v"], [key \in {<<>>} |-> "v"],
           [key \in {Key} |-> "object"],
           [key \in {Key, <<".", "k">>} |-> "v"]}
Spellings == {ConsulGlobal}

ASSUME Listable /\ ReadableNames /\ LosableNames
=============================================================================
