------------------------------ MODULE MCRules ------------------------------
(***************************************************************************)
(* The rule layer: the library that is built (RuleLibrary), the optimizer  *)
(* that evaluates rules (MCOptimizer), and the chain of candidate rules of *)
(* the application (MCChain).  The rules of each are its own, so a         *)
(* behaviour here is one of one of them, and the others rest.              *)
(***************************************************************************)
EXTENDS MCOptimizer, RuleLibrary, MCChain

VARIABLE part

Bool(x) == [t |-> "bool", v |-> x]
Number(x) == [t |-> "number", v |-> x]
Text(x) == [t |-> "text", v |-> x]
Day(x) == [t |-> "date", v |-> x]

Always == [from |-> 0, to |-> 99]
Param(type, slot, value, period) == [type |-> type, slot |-> slot, value |-> value, from |-> period.from, to |-> period.to]
MCParams ==
    ("rate" :> Param("number", "final", Number(10), Always)) @@ ("min" :> Param("number", "final", Number(2), Always))
    @@ ("flag" :> Param("bool", "cfc", Bool(1), Always)) @@ ("word" :> Param("text", "cfc", Text(1), Always))
    @@ ("old" :> Param("number", "inbound", Number(1), [from |-> 0, to |-> 9]))
    @@ ("white_1" :> Param("bool", "cfc", Bool(1), Always)) @@ ("white_2" :> Param("bool", "cfc", Bool(1), [from |-> 0, to |-> 9]))
MCLists == "white" :> (1 :> "white_1" @@ 2 :> "white_2")
MCClauses == "law#1" :> "law" @@ "circular#1" :> "guidance"

(* ------------------------------------------------ conditions and texts *)
V(n) == [is |-> "var", name |-> n]
P(n) == [is |-> "param", name |-> n]
C(val) == [is |-> "const", val |-> val]
Cmp(l, by, r) == [op |-> "compare", by |-> by, left |-> l, right |-> r]
And(x, y) == [op |-> "and", a |-> x, b |-> y]
Or(x, y) == [op |-> "or", a |-> x, b |-> y]
Not(x) == [op |-> "not", of |-> x]
In(l, cs) == [op |-> "in", left |-> l, consts |-> cs]
Listed(p, n) == [op |-> "listed", prefix |-> p, left |-> V(n)]
Pred(k) == [op |-> "pred", key |-> k]

NoValue == [t |-> "none", v |-> 0]
Token(k) == <<[k |-> k, name |-> "", val |-> NoValue]>>
Word(n) == <<[k |-> "word", name |-> n, val |-> NoValue]>>
Constant(v) == <<[k |-> "const", name |-> "", val |-> v]>>
Leaf(x) == CASE x.is = "var" -> Word(x.name)
             [] x.is = "param" -> <<[k |-> "param", name |-> x.name, val |-> NoValue]>>
             [] x.is = "const" -> IF x.val.t = "bool" THEN Token("true") ELSE Constant(x.val)
ListText(cs) == FoldSet(LAMBDA c, text : (IF text = <<>> THEN <<>> ELSE text \o Token(",")) \o Constant(c), <<>>, cs)

\* The text of a condition, with brackets only where they are needed.
Binding(op) == CASE op = "or" -> 1 [] op = "and" -> 2 [] op = "not" -> 3 [] op \notin {"or", "and", "not"} -> 4
RECURSIVE TextOf(_, _)
TextOf(c, tight) ==
    LET text == CASE c.op = "true" -> Token("true")
                  [] c.op \in {"and", "or"} -> TextOf(c.a, Binding(c.op)) \o Token(c.op) \o TextOf(c.b, Binding(c.op))
                  [] c.op = "not" -> Token("not") \o TextOf(c.of, 3)
                  [] c.op = "compare" -> Leaf(c.left) \o Token(c.by) \o Leaf(c.right)
                  [] c.op = "in" -> Leaf(c.left) \o Token("in") \o Token("[") \o ListText(c.consts) \o Token("]")
                  [] c.op = "listed" -> Token("listed") \o Token("(") \o Word(c.prefix) \o Token(",") \o Leaf(c.left) \o Token(")")
                  [] c.op = "pred" -> Token("pred") \o Token("(") \o Word(c.key) \o Token(")")
    IN  IF Binding(c.op) < tight THEN Token("(") \o text \o Token(")") ELSE text

(* --------------------------------------------------------------- tables *)
MCVariable(n, kind, type, allowed, inputs) == [name |-> n, kind |-> kind, type |-> type, allowed |-> allowed, inputs |-> inputs]
Variables ==
    {MCVariable("b", "client_fact", "bool", {}, {}), MCVariable("s", "structure", "bool", {}, {}),
     MCVariable("n", "client_fact", "number", {}, {}), MCVariable("d", "client_fact", "date", {}, {}),
     MCVariable("e", "client_fact", "enum", {1, 2}, {}), MCVariable("t", "client_fact", "text", {}, {}),
     MCVariable("low", "derived", "number", {}, {"n"})}
MCSampleValues ==
    [n \in {"b", "s", "n", "d", "e", "t", "low", "other_taxable_income", "amount_payee_ccy"} |->
        CASE n \in {"b", "s"} -> {Bool(0), Bool(1)} [] n = "d" -> {Day(20), Day(50)}
          [] n \in {"e", "t"} -> {Text(1), Text(2)} [] n \notin {"b", "s", "d", "e", "t"} -> {Number(1), Number(3)}]

MCRule(n, said, text) ==
    [name |-> n, jur |-> "cn", subject |-> "company", slot |-> "final", flow |-> "*", eff |-> "rate", param |-> "rate",
     said |-> said, text |-> text, overrides |-> {}, cites |-> {"law#1"}, decisions |-> {}, procedure |-> {}, from |-> 0, to |-> 99]
TestOf(n, facts, answers, mode, expect) == [name |-> n, facts |-> facts, answers |-> answers, mode |-> mode, expect |-> expect]

\* A rule for every two or three variables, with a test of each status.
Base == <<And(Cmp(V("b"), "=", C(Bool(1))), And(Cmp(V("s"), "=", C(Bool(1))), Pred("bo"))),
          And(Cmp(V("n"), ">", P("min")), Cmp(V("d"), ">", C(Day(30)))),
          Or(In(V("e"), {Text(1)}), Listed("white", "t")), Not(Cmp(V("low"), "<", C(Number(2))))>>
BaseName == <<"base", "dates", "lists", "low">>
BaseFacts == <<[b |-> Bool(1), s |-> Bool(1)], [n |-> Number(3), d |-> Day(50)], [e |-> Text(2), t |-> Text(1)], [low |-> Number(3)]>>
Contrary == <<[b |-> Bool(0)], [n |-> Number(1)], [e |-> Text(2), t |-> Text(2)], [low |-> Number(1)]>>
MCFirstTables ==
    [variable |-> Variables,
     predicate |-> {[name |-> "bo", cites |-> {"law#1"}, factors |-> {"n"}]},
     decision |-> {[name |-> "D-cn-1", cite |-> "law#1", verbatim |-> TRUE]},
     rule |-> {MCRule(BaseName[i], Base[i], TextOf(Base[i], 0)) : i \in DOMAIN Base},
     rule_test |-> UNION {{TestOf(BaseName[i], BaseFacts[i], [bo |-> "yes"], "plan", "T"),
                           TestOf(BaseName[i], Contrary[i], [bo |-> "no"], "plan", "F"),
                           TestOf(BaseName[i], <<>>, <<>>, "plan", "U")} : i \in DOMAIN Base}]

NoEdit == [name \in DOMAIN MCFirstTables |-> {}]

\* The author's tests of a rule: one of each status it can have.
Complete(tab, r, tree) ==
    UNION {{CHOOSE t \in tried : t.expect = s : s \in {t.expect : t \in tried}} : tried \in {
        {TestOf(r.name, f, a, "plan", Eval(tab, tree, f, Answers(tab, a), "plan").s) :
            f \in FactsOn(Leaves(tree, "var")), a \in {<<>>, [bo |-> "yes"], [bo |-> "no"]}}}}
FirstLoaded == Loaded(MCFirstTables)
WithTests(r) ==
    [NoEdit EXCEPT !.rule = {r},
                   !.rule_test = UNION {IF parse.ok THEN Complete(FirstLoaded, r, parse.tree) ELSE {} : parse \in {ParseCondition(r.text)}}]
Said(c) == WithTests(MCRule("new", c, TextOf(c, 0)))

Vars2 == {"b", "n", "d", "e", "t"}
Sides2 == {V(n) : n \in Vars2} \cup {P("min"), P("flag"), P("word"), C(Number(2)), C(Text(1)), C(Day(30))}
Comparing == {Cmp(l, by, r) : l \in Sides2, by \in {"=", "<"}, r \in Sides2 \cup {C(Bool(1))}}
Membership == {In(l, cs) : l \in Sides2, cs \in {{Number(3)}, {Text(1)}, {Text(1), Text(3)}, {Number(1), Text(1)}}}
Lists2 == {Listed("white", n) : n \in Vars2}
Atoms2 == {Cmp(V("b"), "=", C(Bool(1))), Cmp(V("n"), ">=", P("min")), Pred("bo")}
Joint(S, T) == {Not(x) : x \in S} \cup UNION {{And(x, y), Or(x, y), And(y, x), Or(y, x)} : x \in S, y \in T}
Nested == Joint(Joint(Atoms2, Atoms2), Atoms2)

\* Texts that are no condition: "true = b", "b", "(b = true", "b = true b".
IsB == TextOf(Cmp(V("b"), "=", C(Bool(1))), 0)
Malformed == {Token("true") \o Token("=") \o Word("b"), Word("b"), Token("(") \o IsB, IsB \o Word("b"), <<>>}

\* One column of a rule gone wrong.
Odd == LET r == MCRule("odd", Cmp(V("b"), "=", C(Bool(1))), IsB)
       IN  {[r EXCEPT !.jur = "xx"], [r EXCEPT !.slot = "xx"], [r EXCEPT !.subject = "xx"], [r EXCEPT !.flow = "jp"],
            [r EXCEPT !.flow = "hk"], [r EXCEPT !.eff = "xx"], [r EXCEPT !.eff = "cap"], [r EXCEPT !.param = "none"],
            [r EXCEPT !.param = "xx"], [r EXCEPT !.param = "flag"], [r EXCEPT !.overrides = {"base"}], [r EXCEPT !.cites = {}],
            [r EXCEPT !.cites = {"circular#1"}], [r EXCEPT !.decisions = {"xx"}], [r EXCEPT !.procedure = {"xx"}],
            [r EXCEPT !.from = 10, !.slot = "inbound", !.eff = "share", !.param = "old"],
            [r EXCEPT !.eff = "schedule"], [r EXCEPT !.name = "base"],
            [r EXCEPT !.slot = "anti_abuse", !.eff = "deny", !.param = "none", !.overrides = {"base", "cap"}],
            [r EXCEPT !.jur = "hk", !.slot = "anti_abuse", !.eff = "deny", !.param = "none", !.overrides = {"base"}]}
Columns == {[NoEdit EXCEPT !.variable = {v}] :
                v \in {MCVariable("b", "client_fact", "number", {}, {}), MCVariable("x", "client_fact", "enum", {}, {}),
                       MCVariable("x", "derived", "number", {}, {"y"}), MCVariable("x", "client_fact", "text", {}, {"n"})}}
           \cup {[NoEdit EXCEPT !.predicate = {[name |-> "bo", cites |-> {"xx"}, factors |-> {"xx"}]}],
                 [NoEdit EXCEPT !.decision = {[name |-> "D-cn-1", cite |-> "law#1", verbatim |-> FALSE]}],
                 [NoEdit EXCEPT !.rule_test = {TestOf("base", BaseFacts[1], <<>>, "plan", "T")}],
                 [NoEdit EXCEPT !.rule_test = {TestOf("xx", <<>>, <<>>, "plan", "T")}]}

MCEdits == <<{NoEdit, [NoEdit EXCEPT !.variable = {MCVariable(n, "client_fact", "number", {}, {}) : n \in ScheduleInputs}]},
             Columns \cup {WithTests(r) : r \in Odd}
             \cup {Said(c) : c \in Comparing \cup Membership \cup Lists2 \cup Nested \cup {Pred("gaar")}}
             \cup {WithTests(MCRule("new", Pred("bo"), text)) : text \in Malformed}>>

\* Only the optimizer has a choice of limits, only the chain one of cards.
AnyLimits == CHOOSE l \in MCLimits : TRUE
MCInit == /\ Init /\ LibraryInit /\ ChainInit /\ part \in {"optimizer", "library", "chain"}
          /\ part # "optimizer" => limits = AnyLimits
          /\ part # "chain" => card = Blank

OptimizerStep == part = "optimizer" /\ Next /\ UNCHANGED <<part, libraryVars, chainVars>>
LibraryStep == part = "library" /\ LibraryNext /\ UNCHANGED <<part, vars, chainVars>>
ChainStep == part = "chain" /\ ChainNext /\ UNCHANGED <<part, vars, libraryVars>>

MCSpec == MCInit /\ [][OptimizerStep \/ LibraryStep \/ ChainStep]_<<vars, libraryVars, chainVars, part>>
=============================================================================
