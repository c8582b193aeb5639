---------------------------- MODULE RuleLibrary ----------------------------
(***************************************************************************)
(* The build of the rule layer, src/rule/tools/build.py with common.py: a  *)
(* rule's condition is text, which is parsed, checked against the tables   *)
(* of variables, predicates and decisions and against the law library, and *)
(* tried by golden tests with the reference evaluator.  Someone edits the  *)
(* tables a row at a time and builds.                                      *)
(*                                                                         *)
(* A text is a sequence of tokens [k, name, val]; reading characters is    *)
(* left out, so are the formats of ids and dates, the columns that must    *)
(* merely not be empty, and the figure a golden test expects.  A value is  *)
(* [t, v]; a date is a text that looks like one.  Days are numbers.        *)
(***************************************************************************)
EXTENDS RuleCell, Sequences

CONSTANTS
    Codes, Treaties,   \* jurisdictions, and pairs {a, b} with a treaty text
    Params,            \* the library: id -> [type, slot, from, to, value]
    Lists,             \* prefix -> the parameters it begins: value -> id
    Clauses,           \* cite id -> the type of its document
    Procedures,        \* documents, clauses and absence records a procedure may name
    Absences,          \* {<<jur, subject, slot>>} with a record that nothing is provided
    FirstTables,       \* the tables before the first edit
    Today,             \* the date of the golden tests and of the evaluation
    MaxEdits,          \* bound of the model: how many edits
    Edits,             \* bound of the model: what the n-th edit may add, [table -> rows]
    SampleValues       \* bound of the model: variable -> the values facts have

VARIABLES tables, built, edits

libraryVars == <<tables, built, edits>>

----------------------------------------------------------------------------
(***************************************************************************)
(* common.parse_condition: precedence not, and, or.  A parser returns the  *)
(* tree and the position after it.                                         *)
(***************************************************************************)
Only1(S) == CHOOSE x \in S : TRUE
Failed == [ok |-> FALSE]
Parsed(tree, i) == [ok |-> TRUE, tree |-> tree, next |-> i]
At(text, i) == IF i \in DOMAIN text THEN text[i].k ELSE "end"
Follow(text, i, kinds) == \A n \in DOMAIN kinds : At(text, i + n - 1) = kinds[n]

Comparisons == {"=", "!=", "<", "<=", ">", ">="}
Operands == {"word", "param", "const", "true"}
TrueConstant == [is |-> "const", val |-> [t |-> "bool", v |-> 1]]
Operand(token) ==
    CASE token.k = "word" -> [is |-> "var", name |-> token.name]
      [] token.k = "param" -> [is |-> "param", name |-> token.name]
      [] token.k = "const" -> [is |-> "const", val |-> token.val]
      [] token.k = "true" -> TrueConstant

\* The end of a list of constants that begins at i, or 0.
ListEnd(text, i) ==
    LET ends == {j \in i .. Len(text) :
                    /\ (j - i) % 2 = 1 /\ At(text, j) = "]"
                    /\ \A n \in i .. j - 1 : At(text, n) = IF (n - i) % 2 = 0 THEN "const" ELSE ","}
    IN  IF ends = {} THEN 0 ELSE Min(ends)

Atom(text, i) ==
    CASE At(text, i) = "true" ->
            IF At(text, i + 1) \in Comparisons THEN Failed ELSE Parsed([op |-> "true"], i + 1)
      [] Follow(text, i, <<"pred", "(", "word", ")">>) -> Parsed([op |-> "pred", key |-> text[i + 2].name], i + 4)
      [] Follow(text, i, <<"listed", "(", "word", ",", "word", ")">>) ->
            Parsed([op |-> "listed", prefix |-> text[i + 2].name, left |-> Operand(text[i + 4])], i + 6)
      [] At(text, i) \in Operands \ {"true"} /\ At(text, i + 1) \in Comparisons ->
            IF At(text, i + 2) \in Operands
            THEN Parsed([op |-> "compare", by |-> At(text, i + 1), left |-> Operand(text[i]), right |-> Operand(text[i + 2])], i + 3)
            ELSE Failed
      [] At(text, i) \in Operands \ {"true"} /\ Follow(text, i + 1, <<"in", "[">>) ->
            IF ListEnd(text, i + 3) = 0 THEN Failed
            ELSE Parsed([op |-> "in", left |-> Operand(text[i]),
                         consts |-> {text[n].val : n \in {m \in i + 3 .. ListEnd(text, i + 3) : At(text, m) = "const"}}],
                        ListEnd(text, i + 3) + 1)
      [] OTHER -> Failed

Join(word, parts) == IF Len(parts) = 1 THEN parts[1] ELSE [op |-> word, parts |-> parts]
PartOf(word, part) == IF word = "or" THEN Join("and", part.tree) ELSE part.tree

\* disj and conj, from position i: a part, and the rest after the word.
Chain(text, word, read, i) ==
    Only1({CASE ~part.ok -> Failed
             [] part.ok /\ At(text, part.next) # word -> Parsed(<<PartOf(word, part)>>, part.next)
             [] part.ok /\ At(text, part.next) = word ->
                   Only1({IF rest.ok THEN Parsed(<<PartOf(word, part)>> \o rest.tree, rest.next) ELSE Failed :
                          rest \in {read[word, part.next + 1]}}) :
           part \in {IF word = "or" THEN read["and", i] ELSE read["not", i]}})

\* What a part at position i reads: parts joined by "or", parts joined by
\* "and", or what "not" is said of.  The parts of a join are a sequence, and a
\* join of one part is that part.
ParseCondition(text) ==
    LET read[word \in {"or", "and", "not"}, i \in 1 .. Len(text) + 1] ==
            CASE word # "not" -> Chain(text, word, read, i)
              [] word = "not" /\ At(text, i) = "not" ->
                    Only1({IF x.ok THEN Parsed([op |-> "not", of |-> x.tree], x.next) ELSE Failed : x \in {read["not", i + 1]}})
              [] word = "not" /\ At(text, i) = "(" ->
                    Only1({IF x.ok /\ At(text, x.next) = ")" THEN Parsed(Join("or", x.tree), x.next + 1) ELSE Failed :
                           x \in {read["or", i + 1]}})
              [] word = "not" /\ At(text, i) \notin {"not", "("} -> Atom(text, i)
    IN  Only1({IF x.ok /\ x.next = Len(text) + 1 THEN Parsed(Join("or", x.tree), x.next) ELSE Failed : x \in {read["or", 1]}})

\* Every node of a tree (leaves and listed_prefixes walk over them).
RECURSIVE NodesOf(_)
NodesOf(tree) ==
    {tree} \cup CASE tree.op \in {"and", "or"} -> UNION {NodesOf(tree.parts[n]) : n \in DOMAIN tree.parts}
                  [] tree.op = "not" -> NodesOf(tree.of)
                  [] tree.op \notin {"and", "or", "not"} -> {}
Sided(tree) == {[is |-> x.is, name |-> x.name] : x \in
    {y \in UNION {CASE n.op = "compare" -> {n.left, n.right}
                    [] n.op \in {"in", "listed"} -> {n.left}
                    [] n.op \notin {"compare", "in", "listed"} -> {} : n \in NodesOf(tree)} : y.is # "const"}}
Leaves(tree, is) == {x.name : x \in {y \in Sided(tree) : y.is = is}}
Predicates(tree) == {n.key : n \in {x \in NodesOf(tree) : x.op = "pred"}}
ListedPrefixes(tree) == {n.prefix : n \in {x \in NodesOf(tree) : x.op = "listed"}}

----------------------------------------------------------------------------
(***************************************************************************)
(* build.check_types                                                       *)
(***************************************************************************)
Unnamed == [kind |-> "client_fact", type |-> "none", allowed |-> {}, inputs |-> {}]
VariableOf(tab, name) == IF name \in DOMAIN tab.by_name THEN tab.by_name[name] ELSE Unnamed

OperandType(tab, x) ==
    CASE x.is = "var" -> VariableOf(tab, x.name).type
      [] x.is = "param" -> IF x.name \in DOMAIN Params THEN Params[x.name].type ELSE "none"
      [] x.is = "const" -> x.val.t

Class(type) == IF type \in {"enum", "date"} THEN "text" ELSE type
CompatibleAlways(a, b) == TRUE
Compatible(a, b) == Class(a) = Class(b)

\* A constant compared with an enum has to be one of its values.
OutsideEnum(tab, x, const) ==
    x.is = "var" /\ VariableOf(tab, x.name).type = "enum" /\ Class(const.t) = "text"
        /\ const.v \notin VariableOf(tab, x.name).allowed

TypeErrorsAt(tab, n) ==
    CASE n.op = "in" ->
            {e \in {"type", "enum"} : OperandType(tab, n.left) # "none" /\ \E c \in n.consts :
                CASE e = "type" -> ~Compatible(OperandType(tab, n.left), c.t)
                  [] e = "enum" -> OperandType(tab, n.left) = "enum" /\ ~(Class(c.t) = "text" /\ ~OutsideEnum(tab, n.left, c))}
      [] n.op = "listed" -> {e \in {"listed"} : OperandType(tab, n.left) \notin {"none", "text", "enum"}}
      [] n.op = "compare" ->
            {e \in {"type", "ordering", "enum"} :
                LET a == OperandType(tab, n.left)
                    b == OperandType(tab, n.right)
                IN  CASE e = "type" -> "none" \notin {a, b} /\ ~Compatible(a, b)
                      [] e = "ordering" -> n.by \notin {"=", "!="} /\ a \notin {"none", "number", "date"}
                      [] e = "enum" -> \/ n.right.is = "const" /\ OutsideEnum(tab, n.left, n.right.val)
                                       \/ n.left.is = "const" /\ OutsideEnum(tab, n.right, n.left.val)}
      [] n.op \notin {"in", "listed", "compare"} -> {}
TypeErrors(tab, tree) == UNION {TypeErrorsAt(tab, n) : n \in NodesOf(tree)}

----------------------------------------------------------------------------
(***************************************************************************)
(* The evaluation of a tree: eval.Context.  A comparison may raise; then   *)
(* so does the condition, since every part is evaluated.                   *)
(***************************************************************************)
Raised3 == [s |-> "error", n |-> {}]
Verdict(b) == Truth3(IF b THEN "T" ELSE "F", {})
Unless(parts, t) == IF \E p \in parts : p.s = "error" THEN Raised3 ELSE t
Not3(p) == Truth3(CASE p.s = "T" -> "F" [] p.s = "F" -> "T" [] p.s = "U" -> "U", p.n)

FactOf(tab, facts, mode, name) ==
    LET row == VariableOf(tab, name)
        missing == {i \in row.inputs : i \notin DOMAIN facts}
    IN  CASE name \in DOMAIN facts -> Known(facts[name])
          [] name \notin DOMAIN facts /\ row.kind = "structure" /\ mode = "record" /\ row.type = "bool" ->
                Known([t |-> "bool", v |-> 0])
          [] name \notin DOMAIN facts /\ row.kind = "derived" /\ missing # {} -> Unknown(missing)
          [] name \notin DOMAIN facts /\ ~(row.kind = "structure" /\ mode = "record" /\ row.type = "bool")
             /\ ~(row.kind = "derived" /\ missing # {}) -> Unknown({name})

Reading(tab, facts, mode, x) ==
    CASE x.is = "var" -> FactOf(tab, facts, mode, x.name)
      [] x.is = "param" -> Known(Params[x.name].value)
      [] x.is = "const" -> Known(x.val)

Related(by, a, b) ==
    CASE by = "=" -> a = b [] by = "!=" -> a # b [] by = "<" -> a < b
      [] by = "<=" -> a <= b [] by = ">" -> a > b [] by = ">=" -> a >= b

\* compare: a bool turns the other side into one, a number the other side into
\* a number, which no text here is.
Truthy(x) == IF x.t = "number" THEN (IF x.v = 0 THEN 0 ELSE 1) ELSE IF x.t = "bool" THEN x.v ELSE 1
Compare(by, a, b) ==
    CASE "bool" \in {a.t, b.t} -> Verdict(Related(by, Truthy(a), Truthy(b)))
      [] "bool" \notin {a.t, b.t} /\ "number" \in {a.t, b.t} ->
            IF a.t = b.t THEN Verdict(Related(by, a.v, b.v)) ELSE Raised3
      [] {"bool", "number"} \cap {a.t, b.t} = {} -> Verdict(Related(by, a.v, b.v))

\* What is equal in Python: numbers and bools by value, dates are texts.
SameAs(a, b) == a.v = b.v /\ (a.t \in {"number", "bool"}) = (b.t \in {"number", "bool"})

InForce(pid, date) == Params[pid].from <= date /\ date <= Params[pid].to
ListedTrue(prefix, val) ==
    /\ prefix \in DOMAIN Lists /\ val.v \in DOMAIN Lists[prefix]
    /\ LET pid == Lists[prefix][val.v] IN InForce(pid, Today) /\ Params[pid].value = [t |-> "bool", v |-> 1]

RECURSIVE Eval(_, _, _, _, _)
Eval(tab, tree, facts, answers, mode) ==
    LET parts == {Eval(tab, tree.parts[n], facts, answers, mode) : n \in DOMAIN tree.parts}
        l == Reading(tab, facts, mode, tree.left)
        r == Reading(tab, facts, mode, tree.right)
    IN  CASE tree.op = "true" -> Verdict(TRUE)
          [] tree.op = "and" -> Unless(parts, And3(parts))
          [] tree.op = "or" -> Unless(parts, Or3(parts))
          [] tree.op = "not" -> LET x == Eval(tab, tree.of, facts, answers, mode) IN Unless({x}, Not3(x))
          [] tree.op = "pred" -> IF tree.key \notin DOMAIN answers \/ answers[tree.key] = "unknown" THEN Truth3("U", {tree.key})
                                 ELSE Verdict(answers[tree.key] = "yes")
          [] tree.op = "listed" -> IF l.s = "U" THEN Truth3("U", l.n) ELSE Verdict(ListedTrue(tree.prefix, l.v))
          [] tree.op = "in" -> IF l.s = "U" THEN Truth3("U", l.n) ELSE Verdict(\E c \in tree.consts : SameAs(l.v, c))
          [] tree.op = "compare" -> IF "U" \in {l.s, r.s} THEN Truth3("U", l.n \cup r.n) ELSE Compare(tree.by, l.v, r.v)

----------------------------------------------------------------------------
(***************************************************************************)
(* The checks.  Each is the set of its errors, an error a pair of the row  *)
(* and what is wrong with it.                                              *)
(***************************************************************************)
Subjects == {"company", "individual", "all"}
Slots == {"outbound_wht", "inbound", "final", "residence", "cfc", "anti_abuse", "penalty", "restructure"}
Penalties == {"interest", "interest_cap", "fine", "fine_min", "fine_max"}
EffectSlots(eff) ==
    CASE eff = "resident" -> {"residence"}
      [] eff = "rate" -> {"outbound_wht", "final", "restructure"}
      [] eff = "surtax" -> {"outbound_wht", "final"}
      [] eff = "cap" -> {"outbound_wht"}
      [] eff = "exempt" -> {"outbound_wht", "inbound", "final", "restructure"}
      [] eff = "taxable" -> {"inbound"}
      [] eff \in {"share", "exclude"} -> {"inbound", "final"}
      [] eff = "credit" -> {"inbound", "restructure"}
      [] eff = "include" -> {"cfc"}
      [] eff = "deny" -> {"anti_abuse"}
      [] eff = "schedule" -> {"final", "restructure"}
      [] eff = "stamp" -> {"restructure"}
      [] eff \in Penalties -> {"penalty"}
TakesParam == {"rate", "surtax", "cap", "share", "exclude", "schedule", "stamp"} \cup Penalties
Effects == TakesParam \cup {"resident", "exempt", "taxable", "credit", "include", "deny"}
Wildcards == {"cap", "exempt", "share", "exclude", "credit"}
NoParam == "none"

Names(rows) == {r.name : r \in rows}
Wrong(row, kinds, is(_)) == {<<row.name, k>> : k \in {x \in kinds : is(x)}}

VariableErrors(tab) ==
    UNION {LET is(k) == CASE k = "duplicate" -> \E w \in tab.variable \ {v} : w.name = v.name
                          [] k = "enum without values" -> v.type = "enum" /\ v.allowed = {}
                          [] k = "inputs" -> (v.kind = "derived") # (v.inputs # {})
                          [] k = "input unknown" -> ~(v.inputs \subseteq Names(tab.variable))
           IN Wrong(v, {"duplicate", "enum without values", "inputs", "input unknown"}, is) : v \in tab.variable}

PredicateErrors(tab) ==
    UNION {LET is(k) == CASE k = "duplicate" -> \E q \in tab.predicate \ {p} : q.name = p.name
                          [] k = "cite" -> p.cites = {} \/ ~(p.cites \subseteq DOMAIN Clauses)
                          [] k = "factor" -> ~(p.factors \subseteq Names(tab.variable))
           IN Wrong(p, {"duplicate", "cite", "factor"}, is) : p \in tab.predicate}

\* A reading quotes a clause word for word.
DecisionErrors(tab) ==
    UNION {LET is(k) == CASE k = "cite" -> d.cite \notin DOMAIN Clauses
                          [] k = "quote" -> d.cite \in DOMAIN Clauses /\ ~d.verbatim
           IN Wrong(d, {"cite", "quote"}, is) : d \in tab.decision}

Overlap(a, b) == a.from <= b.to /\ b.from <= a.to

\* The tables as the build reads them: the variables by name, the rules with
\* their conditions parsed.
ByName(rows) == [n \in Names(rows) |-> CHOOSE r \in rows : r.name = n]
Loaded(tab) == [by_name |-> ByName(tab.variable)] @@ [tab EXCEPT !.rule = {[parse |-> ParseCondition(r.text)] @@ r : r \in @}]

\* What a rule reads: the generated columns requires and predicates.
Readable(r) == r.parse.ok
Tree(r) == r.parse.tree
Requires(r) == Leaves(Tree(r), "var") \cup (IF r.eff = "schedule" THEN ScheduleInputs ELSE {})

SlotKeyErrors(r) ==
    LET is(k) == CASE k = "jurisdiction" -> r.jur \notin Codes
                   [] k = "subject" -> r.subject \notin Subjects
                   [] k = "slot" -> r.slot \notin Slots
                   [] k = "flow" -> r.flow # "*" /\ (r.flow \notin Codes \/ {r.jur, r.flow} \notin Treaties)
    IN  Wrong(r, {"jurisdiction", "subject", "slot", "flow"}, is)

ConditionErrors(tab, r) ==
    LET is(k) == CASE k = "variable" -> ~(Requires(r) \subseteq Names(tab.variable))
                   [] k = "predicate" -> ~(Predicates(Tree(r)) \subseteq Names(tab.predicate))
                   [] k = "parameter" -> ~(Leaves(Tree(r), "param") \subseteq DOMAIN Params)
                   [] k = "list" -> ~(ListedPrefixes(Tree(r)) \subseteq DOMAIN Lists)
    IN  Wrong(r, {"variable", "predicate", "parameter", "list"}, is) \cup {<<r.name, e>> : e \in TypeErrors(tab, Tree(r))}

EffectErrors(r) ==
    LET p == Params[r.param]
        is(k) == CASE k = "vocabulary" -> r.eff \notin Effects
                   [] k = "effect slot" -> r.eff \in Effects /\ r.slot \notin EffectSlots(r.eff)
                   [] k = "parameter count" -> r.eff \in Effects /\ (r.eff \in TakesParam) # (r.param # NoParam)
                   [] k = "no parameter" -> r.eff \in Effects /\ r.param \notin DOMAIN Params \cup {NoParam}
                   [] k = "parameter slot" -> /\ r.eff \in Effects /\ r.param \in DOMAIN Params
                                              /\ p.slot # r.slot /\ ~(r.eff = "schedule" /\ p.slot = "final")
                   [] k = "parameter unit" -> r.eff \in Effects /\ r.param \in DOMAIN Params /\ p.type # "number"
    IN  Wrong(r, {"vocabulary", "effect slot", "parameter count", "no parameter", "parameter slot", "parameter unit"}, is)

SourceErrors(tab, r) ==
    LET is(k) == CASE k = "overrides" -> (r.eff = "deny") # (r.overrides # {})
                   [] k = "cite" -> ~(r.cites \subseteq DOMAIN Clauses)
                   [] k = "authority" -> {Clauses[c] : c \in r.cites \cap DOMAIN Clauses} \cap {"law", "regulation", "treaty"} = {}
                   [] k = "decision" -> ~(r.decisions \subseteq Names(tab.decision))
                   [] k = "procedure" -> \/ ~(r.procedure \subseteq Procedures)
                                         \/ r.eff = "cap" /\ Predicates(Tree(r)) # {} /\ r.procedure = {}
                   [] k = "dates" -> \E pid \in (({r.param} \cup Leaves(Tree(r), "param")) \cap DOMAIN Params) : ~Overlap(r, Params[pid])
    IN  Wrong(r, {"overrides", "cite", "authority", "decision", "procedure", "dates"}, is)

\* What a deny suppresses is an effect by name or a rule of its cell's reach.
OverrideErrors(tab, r) ==
    {<<r.name, "override">> : o \in {x \in r.overrides : r.eff = "deny" /\ x \notin Wildcards /\
        \A t \in tab.rule : t.name = x => t.jur # r.jur \/ (r.flow # "*" /\ t.flow \notin {r.flow, "*"})}}

RuleErrors(tab) ==
    UNION {SlotKeyErrors(r) \cup OverrideErrors(tab, r)
           \cup {<<r.name, "duplicate">> : q \in {x \in tab.rule \ {r} : x.name = r.name}}
           \cup (IF Readable(r)
                 THEN ConditionErrors(tab, r) \cup EffectErrors(r) \cup SourceErrors(tab, r)
                 ELSE {<<r.name, "condition">>}) : r \in tab.rule}

\* A variable is there because a rule, a derived variable or a judgement reads it.
UnreadErrors(tab) ==
    LET required == UNION {Requires(r) : r \in {x \in tab.rule : Readable(x)}}
        read == required \cup UNION {v.inputs : v \in {w \in tab.variable : w.kind = "derived"}}
                         \cup UNION {p.factors : p \in tab.predicate}
    IN  {<<v.name, "no rule reads it">> : v \in {w \in tab.variable : w.name \notin (IF w.kind = "derived" THEN required ELSE read)}}

TestErrors(tab) ==
    UNION {LET is(k) == CASE k = "rule" -> t.name \notin Names(tab.rule)
                          [] k = "fact" -> ~(DOMAIN t.facts \subseteq Names(tab.variable))
                          [] k = "answer" -> ~(DOMAIN t.answers \subseteq Names(tab.predicate))
           IN Wrong(t, {"rule", "fact", "answer"}, is) : t \in tab.rule_test}

Answers(tab, said) == [k \in Names(tab.predicate) |-> IF k \in DOMAIN said THEN said[k] ELSE "unknown"]
Verdict3(tab, t) ==
    LET r == CHOOSE x \in tab.rule : x.name = t.name
    IN  Eval(tab, Tree(r), t.facts, Answers(tab, t.answers), t.mode)

\* run_test, for the status of the condition.
TestFailures(tab) == {<<t.name, "golden test">> : t \in {x \in tab.rule_test : Verdict3(tab, x).s # x.expect}}

\* rules_needing_tests: a rule that reads something has one of each status.
Untested(tab) ==
    {<<r.name, "tests missing">> : r \in {x \in tab.rule :
        /\ Readable(x) /\ Tree(x).op # "true" /\ Requires(x) \cup Predicates(Tree(x)) # {}
        /\ \E s \in {"T", "F", "U"} : ~\E t \in tab.rule_test : t.name = x.name /\ t.expect = s}}

\* coverage: cells with neither a rule nor a record that there is none.
Persons(subject) == IF subject = "all" THEN {"company", "individual"} ELSE {subject}
Reach(jur, subject, slot) == {<<jur, s, slot>> : s \in Persons(subject)}
Gaps(tab) ==
    (Codes \X {"company", "individual"} \X Slots)
        \ (UNION {Reach(r.jur, r.subject, r.slot) : r \in tab.rule} \cup UNION {Reach(a[1], a[2], a[3]) : a \in Absences})

\* build.main: golden tests run only on tables without an error.
CheckErrors(tab) ==
    VariableErrors(tab) \cup PredicateErrors(tab) \cup DecisionErrors(tab) \cup RuleErrors(tab)
    \cup UnreadErrors(tab) \cup TestErrors(tab)
Errors(tab) ==
    UNION {found \cup Untested(tab) \cup (IF found = {} THEN TestFailures(tab) ELSE {}) : found \in {CheckErrors(tab)}}

NotBuilt == [of |-> {}, errors |-> {<<"library", "not built">>}, gaps |-> {}]

WriteRows ==
    /\ edits < MaxEdits /\ edits' = edits + 1
    /\ \E edit \in Edits[edits + 1] : tables' = [name \in DOMAIN tables |-> tables[name] \cup edit[name]]
    /\ UNCHANGED built

BuildLibrary ==
    /\ \E tab \in {Loaded(tables)} : built' = [of |-> {tab}, errors |-> Errors(tab), gaps |-> Gaps(tab)]
    /\ UNCHANGED <<tables, edits>>

LibraryInit == tables = FirstTables /\ built = NotBuilt /\ edits = 0
LibraryNext == WriteRows \/ BuildLibrary

----------------------------------------------------------------------------
(***************************************************************************)
(* What the author of a condition means by its text, in two values: the    *)
(* row of a rule carries it beside the text.                               *)
(***************************************************************************)
RECURSIVE Means(_, _, _, _)
Means(said, facts, answers, tab) ==
    LET value(x) == CASE x.is = "var" -> facts[x.name] [] x.is = "param" -> Params[x.name].value [] x.is = "const" -> x.val
    IN  CASE said.op = "true" -> TRUE
          [] said.op = "and" -> Means(said.a, facts, answers, tab) /\ Means(said.b, facts, answers, tab)
          [] said.op = "or" -> Means(said.a, facts, answers, tab) \/ Means(said.b, facts, answers, tab)
          [] said.op = "not" -> ~Means(said.of, facts, answers, tab)
          [] said.op = "pred" -> answers[said.key] = "yes"
          [] said.op = "listed" -> ListedTrue(said.prefix, value(said.left))
          [] said.op = "in" -> \E c \in said.consts : SameAs(value(said.left), c)
          [] said.op = "compare" -> Related(said.by, value(said.left).v, value(said.right).v)

\* What there can be known of variables, from nothing to everything.
FactsOn(names) == FoldSet(LAMBDA v, known : known \cup {(v :> x) @@ f : f \in known, x \in SampleValues[v]}, {<<>>}, names)
AnswersOn(tab) == [Names(tab.predicate) -> {"yes", "no", "unknown"}]

\* What may turn out of facts f: a structure fact that a record does not state
\* is false.
Completions(tab, names, f, mode) ==
    {g \in FactsOn(names) : /\ DOMAIN g = names
                            /\ \A v \in DOMAIN f : g[v] = f[v]
                            /\ \A v \in names \ DOMAIN f : FactOf(tab, f, mode, v).s = "V" => g[v] = FactOf(tab, f, mode, v).v}
Decided(answers) == {a \in [DOMAIN answers -> {"yes", "no"}] : \A k \in DOMAIN a : answers[k] \in {"unknown", a[k]}}

\* What the build accepts evaluates, to what its text says (build.check_types,
\* common.parse_condition and eval.Context, three readings of one text): on
\* whatever facts of the declared types are known, no comparison raises; a
\* verdict holds whatever the missing facts turn out to be; and what is asked
\* for is a variable or a judgement of the tables.
AcceptedEvaluates ==
    built.errors = {} =>
        \A tab \in built.of : \A r \in tab.rule : \A tree \in {Tree(r)} : \A names \in {Leaves(Tree(r), "var")} :
            \A mode \in {"record", "plan"}, f \in FactsOn(names), answers \in AnswersOn(tab) :
                \A v \in {Eval(tab, tree, f, answers, mode)} :
                    CASE v.s = "error" -> FALSE
                      [] v.s = "U" -> v.n # {} /\ v.n \subseteq Names(tab.variable) \cup Names(tab.predicate)
                      [] v.s \in {"T", "F"} ->
                            \A g \in Completions(tab, names, f, mode), a \in Decided(answers) :
                                Means(r.said, g, a, tab) = (v.s = "T")
=============================================================================
