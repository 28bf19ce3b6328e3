-------------------------- MODULE MCDecisionNormalize --------------------------
(***************************************************************************)
(* Bodies for DecisionNormalize: states with maps in lists and in maps,    *)
(* with keys that print alike, and all kinds of good and bad questions.    *)
(***************************************************************************)
EXTENDS DecisionNormalize

Text(word) == [word |-> word, form |-> "plain"]
Padded(word) == [word |-> word, form |-> "padded"]
Upper(word) == [word |-> word, form |-> "upper"]

Nil == [kind |-> "nil"]
Str(text) == [kind |-> "string", text |-> text]
Number(word) == [kind |-> "int", text |-> Text(word)]
Object(entries) == [kind |-> "any", parts |-> entries]
List(items) == [kind |-> "list", parts |-> items]

Maps(kind, keys, values) ==
    {[kind |-> kind, parts |-> f] : f \in UNION {[S -> values] : S \in SUBSET keys}}
Lists(values) == {List(s) : s \in UNION {[1..n -> values] : n \in 0..2}}

\* Values of depth 0, 1 and 2; 1 and "1" print alike.
Keys0 == {Number("1"), Str(Text("1")), Str(Text("a"))}
StringKeys0 == {Str(Text("1")), Str(Text("a"))}
Values0 == {Nil, Str(Padded("a")), Number("1")}
Values1 == Maps("any", Keys0, Values0) \cup Lists(Values0)
Inner == {Nil, Object(<<>>), List(<<>>), Object(Number("1") :> Number("1")),
          Object(Number("1") :> Nil @@ Str(Text("1")) :> Number("1"))}
Values2 ==
    {Object(f) : f \in UNION {[S -> Inner] : S \in {{Number("1")}, {Number("1"), Str(Text("a"))}}}}
        \cup Lists(Inner)

Question(type, instructions, criteria) ==
    [type |-> type, instructions |-> instructions, criteria |-> criteria]

Options == Object(Str(Text("yes")) :> Str(Padded("good")) @@ Number("1") :> Str(Text("bad")))
\* Accepted or refused, depending on which entry is kept.
Doubtful == Object(Number("1") :> Str(Text("good")) @@ Str(Text("1")) :> Nil)
CriteriaSet ==
    {Nil, Options, Doubtful, Object(<<>>), Object(Str(Padded("")) :> Str(Text("good"))),
     List(<<>>), List(<<Str(Text("low")), Str(Padded("high"))>>),
     List(<<Str(Text("low")), Number("1")>>), List(<<Str(Padded(""))>>)}

\* The texts and the keys in them, and all values with what they become.
Texts0 == {Str(Padded("good")), Str(Text("good")), Str(Text("bad")), Str(Text("low")),
           Str(Padded("high")), Str(Padded(""))}
OptionKeys == {Str(Text("yes")), Str(Text("1")), Str(Padded(""))}
NormalInner == {Nil, List(<<>>)} \cup Maps("object", {Str(Text("1"))}, {Nil, Number("1")})

MCLevels ==
    [n \in 0..2 |->
        CASE n = 0 -> Values0 \cup Texts0
          [] n = 1 -> Values1 \cup (CriteriaSet \ {Nil})
                         \cup Maps("object", StringKeys0, Values0)
                         \cup Maps("object", OptionKeys, Texts0 \cup {Nil})
          [] n = 2 -> Values2 \cup Lists(NormalInner) \cup Maps("object", StringKeys0, NormalInner)]

QuestionSet ==
    {Question(t, i, c) : t \in {Text("choice"), Upper("score"), Padded("noul"), Text("other"), Text("")},
                         i \in {Padded("do"), Text("")}, c \in CriteriaSet}
Good == Question(Padded("noul"), Text("do"), Nil)

MCBodies ==
    {[state |-> v, questions |-> Text("q") :> Good] : v \in Values0 \cup Values1 \cup Values2}
        \cup {[state |-> Nil, questions |-> q] :
                 q \in {<<>>, Padded("") :> Good}
                         \cup {Text("q") :> x @@ Text("r") :> Good : x \in QuestionSet}
                         \cup {Text("q") :> x @@ Text("r") :> y :
                                  x, y \in {x \in QuestionSet : x.instructions.word # ""
                                                                /\ x.type.word \in {"choice", "score"}}}}
=============================================================================
