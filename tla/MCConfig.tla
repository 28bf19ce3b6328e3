------------------------------ MODULE MCConfig ------------------------------
(***************************************************************************)
(* A small instance of Config: all texts of up to two tokens and some      *)
(* longer ones, for each list beside a usual other one; all files good,    *)
(* none there, or one that is not good, which is each of the three in      *)
(* turn.                                                                   *)
(***************************************************************************)
EXTENDS Config

MCHttps == {"https://a"}
MCSecure == {"https://a", "HTTPS://a"}
MCPlain == {"http://b"}

Texts(tokens) == UNION {[1..k -> tokens] : k \in 0..2}

LongCoreTexts ==
    {<<"apps", ",", ",">>, <<",", " ", ",">>, <<" ", "apps", " ">>, <<" ", ",", "apps", " ", ",">>}
LongUrlTexts ==
    {<<" ", "https://a", " ">>, <<"http://b", ",", " ", "https://a">>, <<",", " ", ",", "http://b", " ">>,
     <<"etcd:2379">>, <<"etcd:2379", ",", "http://b">>, <<"HTTPS://a">>, <<"http://b", " ", "b">>}

MCLists ==
    [core : Texts({",", " ", "apps"}) \cup LongCoreTexts, urls : {<<"http://b">>}]
    \cup [core : {<<",", "apps">>},
          urls : Texts({",", " ", "http://b", "https://a"}) \cup LongUrlTexts]

NotThere == [o \in AllOptions |-> "missing"]

MCMounts ==
    {m \in [AllOptions -> {"missing", "empty", "bad", "good"}] :
        m = NotThere \/ Cardinality({o \in AllOptions : m[o] # "good"}) <= 1}
=============================================================================
