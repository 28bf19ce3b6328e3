--------------------------- MODULE DecisionNormalize ---------------------------
(***************************************************************************)
(* What a body becomes on its way to the decision maker                    *)
(* (decodeDecisionRequest, normalizeDecisionQuestion and                   *)
(* normalizeDecisionValue in internal/apiserver/decision.go), and what the *)
(* sidecar's mock makes of it.  One body is decoded twice, as when a       *)
(* client sends it again.  The name and the namespace in the body are left *)
(* to Decision.                                                            *)
(*                                                                         *)
(* A text is [word, form]: the word "" is blank, a form is "plain",        *)
(* "padded" with white space or "upper" case.  A YAML value is one of      *)
(*   [kind |-> "nil"],                                                     *)
(*   [kind |-> "string" or "int", text |-> a text, as it prints],          *)
(*   [kind |-> "any" or "object", parts |-> a function of keys], a map     *)
(*      with keys of any type, as the YAML decoder makes it, or of strings,*)
(*   [kind |-> "list", parts |-> a sequence of values];                    *)
(* a key is a string or an int.  A question is [type, instructions, criteria].*)
(***************************************************************************)
EXTENDS Naturals, SequencesExt

CONSTANTS
    Bodies,    \* of [state, questions], questions being a function of texts
    Levels,    \* Levels[n]: the values nested n deep that are in bodies or made of them
    MaxDepth   \* how deep values are nested at most

Values == UNION {Levels[n] : n \in 0..MaxDepth}

VARIABLES
    body,
    pc,
    turn,      \* which of the two decodings
    todo,      \* the questions the loop has not come to
    request,   \* what is decoded so far
    first,     \* history: the result of the first decoding
    answers    \* what the mock answers

vars == <<body, pc, turn, todo, request, first, answers>>

Empty == [state |-> [kind |-> "nil"], questions |-> <<>>]

Init ==
    /\ body \in Bodies
    /\ pc = "decoding"
    /\ turn = 1
    /\ todo = {}
    /\ request = Empty
    /\ first = [pc |-> "none", request |-> Empty]
    /\ answers = <<>>

TrimSpace(text) == IF text.form = "padded" THEN [text EXCEPT !.form = "plain"] ELSE text
ToLower(text) == IF text.form = "upper" THEN [text EXCEPT !.form = "plain"] ELSE text
IsBlank(text) == text.word = ""

-----------------------------------------------------------------------------
(* normalizeDecisionValue. *)

IsMap(value) == value.kind \in {"any", "object"}

\* Mutant: lists are not looked into.
ListsAsTheyAre(value) == FALSE
IsList(value) == value.kind = "list"

Sprint(key) == [kind |-> "string", text |-> key.text]

\* Mutant: an empty map is dropped together with its key.
FilledKeys(value) ==
    {Sprint(k) : k \in {k \in DOMAIN value.parts :
                           ~ (IsMap(value.parts[k]) /\ DOMAIN value.parts[k].parts = {})}}
Keys(value) == {Sprint(k) : k \in DOMAIN value.parts}

\* The functions that have at every place one of the results for it.
Picks(results) ==
    {f \in [DOMAIN results -> UNION {results[x] : x \in DOMAIN results}] :
        \A x \in DOMAIN results : f[x] \in results[x]}

\* Of keys that print alike the one that comes last is kept, and Go goes through a map
\* in any order.
Entries(value, results) ==
    [key \in Keys(value) |-> UNION {results[k] : k \in {k \in DOMAIN value.parts : Sprint(k) = key}}]

\* The results it may have.
normalizeDecisionValue[value \in Values] ==
    LET results == [k \in DOMAIN value.parts |-> normalizeDecisionValue[value.parts[k]]]
    IN  CASE IsMap(value)  -> {[kind |-> "object", parts |-> f] : f \in Picks(Entries(value, results))}
          [] IsList(value) -> {[kind |-> "list", parts |-> f] : f \in Picks(results)}
          [] OTHER         -> {value}

HasParts(value) == value.kind \in {"any", "object", "list"}

\* Values are nested in finitely many levels, and all that bodies have or become is among
\* them.
ASSUME ValuesAssumption ==
    /\ MaxDepth \in Nat
    /\ \A n \in 0..MaxDepth : \A value \in {v \in Levels[n] : HasParts(v)} :
          \A k \in DOMAIN value.parts : \E m \in 0..MaxDepth : m < n /\ value.parts[k] \in Levels[m]
    /\ \A value \in Values : value.kind = "list" => value.parts \in Seq(Values)
    /\ \A value \in Values : normalizeDecisionValue[value] \subseteq Values
    /\ \A b \in Bodies :
          /\ b.state \in Values
          /\ \A name \in DOMAIN b.questions : b.questions[name].criteria \in Values

-----------------------------------------------------------------------------
(* normalizeDecisionQuestion. *)

IsText(value) == value.kind = "string" /\ ~ IsBlank(value.text)

\* A map of options to descriptions.
IsChoice(criteria) ==
    /\ criteria.kind = "object"
    /\ DOMAIN criteria.parts # {}
    /\ \A k \in DOMAIN criteria.parts : ~ IsBlank(k.text) /\ IsText(criteria.parts[k])

\* Mutant: a list without labels is as good as any.
IsScoreOrEmpty(criteria) ==
    criteria.kind = "list" /\ \A i \in DOMAIN criteria.parts : IsText(criteria.parts[i])

\* A list of labels.
IsScore(criteria) ==
    /\ criteria.kind = "list"
    /\ criteria.parts # <<>>
    /\ \A i \in DOMAIN criteria.parts : IsText(criteria.parts[i])

\* Mutant: the labels go through a map.
LabelsInAnyOrder(type, c) ==
    CASE type = "choice" -> {[k \in DOMAIN c.parts |-> TrimSpace(c.parts[k].text)]}
      [] type = "score"  -> {[i \in DOMAIN c.parts |-> TrimSpace(c.parts[p[i]].text)] :
                               p \in Permutations(DOMAIN c.parts)}
      [] OTHER           -> {<<>>}

Strings(type, c) ==
    CASE type = "choice" -> {[k \in DOMAIN c.parts |-> TrimSpace(c.parts[k].text)]}
      [] type = "score"  -> {[i \in DOMAIN c.parts |-> TrimSpace(c.parts[i].text)]}
      [] OTHER           -> {<<>>}

\* An error.
Refused == [type |-> "refused"]

\* The questions it may become, or an error.
normalizeDecisionQuestion(question) ==
    LET type == ToLower(TrimSpace(question.type)).word
        instructions == TrimSpace(question.instructions)
        Fits(c) == \/ type = "choice" /\ IsChoice(c)
                   \/ type = "score" /\ IsScore(c)
                   \/ type = "noul"
        forms == IF IsBlank(instructions) THEN {}
                 ELSE {c \in normalizeDecisionValue[question.criteria] : Fits(c)}
    IN  {[type |-> type, instructions |-> instructions, criteria |-> t] :
            t \in UNION {Strings(type, c) : c \in forms}}
        \cup (IF normalizeDecisionValue[question.criteria] \subseteq forms THEN {} ELSE {Refused})

-----------------------------------------------------------------------------
(* decodeDecisionRequest: the questions are taken in any order, and the    *)
(* first error ends the call.                                              *)

NormalizeState ==
    /\ pc = "decoding"
    /\ DOMAIN body.questions # {}
    /\ \E state \in normalizeDecisionValue[body.state] :
          request' = [state |-> state, questions |-> <<>>]
    /\ todo' = DOMAIN body.questions
    /\ pc' = "questions"
    /\ UNCHANGED <<body, turn, first, answers>>

NoQuestions ==
    /\ pc = "decoding"
    /\ DOMAIN body.questions = {}
    /\ pc' = "refused"
    /\ UNCHANGED <<body, turn, todo, request, first, answers>>

NormalizeQuestion(name) ==
    /\ pc = "questions"
    /\ name \in todo
    /\ ~ IsBlank(name)
    /\ \E q \in normalizeDecisionQuestion(body.questions[name]) \ {Refused} :
          request' = [request EXCEPT
                         !.questions = [n \in DOMAIN @ \cup {name} |-> IF n = name THEN q ELSE @[n]]]
    /\ todo' = todo \ {name}
    /\ UNCHANGED <<body, pc, turn, first, answers>>

RefuseQuestion(name) ==
    /\ pc = "questions"
    /\ name \in todo
    /\ IsBlank(name) \/ Refused \in normalizeDecisionQuestion(body.questions[name])
    /\ pc' = "refused"
    /\ todo' = {}
    /\ request' = Empty
    /\ UNCHANGED <<body, turn, first, answers>>

Accept ==
    /\ pc = "questions"
    /\ todo = {}
    /\ pc' = "accepted"
    /\ UNCHANGED <<body, turn, todo, request, first, answers>>

\* The same body is sent again.
Again ==
    /\ pc \in {"accepted", "refused"}
    /\ turn = 1
    /\ turn' = 2
    /\ first' = [pc |-> pc, request |-> request]
    /\ pc' = "decoding"
    /\ request' = Empty
    /\ UNCHANGED <<body, todo, answers>>

-----------------------------------------------------------------------------
(* The mock in the sidecar (config/config/decision-maker.yaml): the best   *)
(* option or "", an average of the positions, or a probability; which one  *)
(* is left open.                                                           *)

MockAnswers(question) ==
    CASE question.type = "choice" ->
           IF DOMAIN question.criteria = {} THEN {[choice |-> "", options |-> {}]}
           ELSE {[choice |-> k.text.word, options |-> {x.text.word : x \in DOMAIN question.criteria}] :
                    k \in DOMAIN question.criteria}
      [] question.type = "score" ->
           {[score |-> n, labels |-> Len(question.criteria)] :
               n \in {0} \cup 0..(Len(question.criteria) - 1)}
      [] question.type = "noul" -> {[noul |-> "high"], [noul |-> "low"]}

MockSystemOne ==
    /\ pc = "accepted"
    /\ turn = 2
    /\ answers' \in Picks([name \in DOMAIN request.questions |-> MockAnswers(request.questions[name])])
    /\ pc' = "answered"
    /\ UNCHANGED <<body, turn, todo, request, first>>

Next ==
    \/ NormalizeState \/ NoQuestions \/ Accept \/ Again \/ MockSystemOne
    \/ \E name \in todo : NormalizeQuestion(name) \/ RefuseQuestion(name)

Spec == Init /\ [][Next]_vars

-----------------------------------------------------------------------------
(* Properties. *)

\* A place in a value is a path to it and what is there.
Step(value, k) == IF IsMap(value) THEN [key |-> Sprint(k)] ELSE [index |-> k]
Under(step, places) == {[path |-> <<step, p.path>>, at |-> p.at] : p \in places}

\* The value itself, and the places in its parts.
Places[value \in Values] ==
    {[path |-> <<>>, at |-> value]}
        \cup IF HasParts(value)
             THEN UNION {Under(Step(value, k), Places[value.parts[k]]) : k \in DOMAIN value.parts}
             ELSE {}

Shown(value) ==
    CASE IsMap(value)          -> [kind |-> "object"]
      [] value.kind = "list"   -> [kind |-> "list"]
      [] OTHER                 -> value

\* The places of scalars and of empty maps and lists.
Leaves(value) ==
    {[path |-> p.path, at |-> Shown(p.at)] :
        p \in {p \in Places[value] : HasParts(p.at) => DOMAIN p.at.parts = {}}}

\* JSON can express what is there: it is not a map with keys of any type.
StringKeyed(value) ==
    /\ value.kind # "any"
    /\ value.kind = "object" => \A k \in DOMAIN value.parts : k.kind = "string"

\* Two keys print alike.
KeysCollide(value) ==
    IsMap(value) /\ \E j, k \in DOMAIN value.parts : j # k /\ Sprint(j) = Sprint(k)

Collides(value) == \E p \in Places[value] : KeysCollide(p.at)

Ambiguous ==
    \/ Collides(body.state)
    \/ \E name \in DOMAIN body.questions : Collides(body.questions[name].criteria)

\* What is accepted can be marshalled: no map with keys of any type is left in it, at any
\* depth.
Encodable == pc = "accepted" => \A p \in Places[request.state] : StringKeyed(p.at)

\* The decision maker gets the state that was sent: nothing is added or moved, and
\* nothing is lost but entries whose keys print like those of others.
StateIsSent ==
    pc = "accepted" =>
        /\ Leaves(request.state) \subseteq Leaves(body.state)
        /\ Collides(body.state) \/ Leaves(body.state) \subseteq Leaves(request.state)

\* A body that is sent again is decoded, or refused, as before, in whatever order Go
\* goes through its maps, unless keys in it print alike.
Repeatable ==
    turn = 2 /\ pc \in {"accepted", "refused"} /\ ~ Ambiguous =>
        first = [pc |-> pc, request |-> request]

\* What is accepted the mock can answer, each question by one of its own options or by
\* a position in its list.
AnswersFit ==
    \A name \in DOMAIN answers :
        LET type == request.questions[name].type
            answer == answers[name]
        IN  /\ type = "choice" => answer.choice \in answer.options
            /\ type = "score" => answer.score < answer.labels
=============================================================================
