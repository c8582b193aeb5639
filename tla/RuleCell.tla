------------------------------ MODULE RuleCell ------------------------------
(***************************************************************************)
(* The reference evaluator of the rule layer, src/rule/tools/eval.py: the   *)
(* three-valued truth of a rule's condition, the value of one cell on its   *)
(* two sides, the pending rules, and the fixed order in which the cells of  *)
(* a dividend flow are evaluated.                                           *)
(*                                                                         *)
(* Rates are in tenths of a percent (Whole is 100 %), None is the missing   *)
(* value.  A condition is in conjunctive form: a set of clauses, each a set *)
(* of literals [key, want]; the empty set is `true`.  Facts and answers are *)
(* one function from keys to readings.  Rules holds the rules in force on   *)
(* the date of the case.                                                    *)
(***************************************************************************)
EXTENDS Integers, FiniteSets, FiniteSetsExt, TLC

CONSTANTS Rules,       \* [id, jur, subject, slot, flow, eff, val, cond, over]
          Brackets,    \* the id of a schedule rule -> set of [lower, upper, rate]
          Kind         \* key -> "fact", "structure", "derived" or "discretion"

Sides == {"floor", "ceiling"}
Made(f) == f @@ <<>>                  \* f, every value of it computed here and once
Whole == 1000
None == -1

(* ---------------------------------------------------------------- facts *)
Known(x) == [s |-> "V", v |-> x, n |-> {}]
Unknown(needs) == [s |-> "U", v |-> None, n |-> needs]

(* Context.var: a structure fact that a record does not state is false.     *)
Read(f, mode, k) ==
    CASE k \in DOMAIN f -> f[k]
      [] k \notin DOMAIN f /\ Kind[k] = "structure" /\ mode = "record" -> Known("false")
      [] k \notin DOMAIN f /\ ~(Kind[k] = "structure" /\ mode = "record") -> Unknown({k})

(* ------------------------------------------------ three-valued conditions *)
Truth3(s, needs) == [s |-> s, n |-> IF s = "U" THEN needs ELSE {}]
Needs(parts) == UNION {p.n : p \in parts}

And3(parts) ==
    Truth3(CASE \E p \in parts : p.s = "F" -> "F"
             [] \A p \in parts : p.s = "T" -> "T"
             [] OTHER -> "U", Needs(parts))

Or3(parts) ==
    Truth3(CASE \E p \in parts : p.s = "T" -> "T"
             [] \A p \in parts : p.s = "F" -> "F"
             [] OTHER -> "U", Needs(parts))

Literal(f, mode, l) ==
    LET r == Read(f, mode, l.key)
    IN  CASE r.s = "U" -> Truth3("U", r.n)
          [] r.s = "V" /\ r.v \in l.want -> Truth3("T", {})
          [] r.s = "V" /\ r.v \notin l.want -> Truth3("F", {})

Holds(f, mode, cond) == And3({Or3({Literal(f, mode, l) : l \in c}) : c \in cond})

(* ------------------------------------------------- effects and directions *)
Conditioned(r) == r.cond # {}

(* RATE_LIKE: the effects that are alternatives of one value.               *)
ValueOf(eff) == IF eff = "schedule" THEN "rate" ELSE eff
RateLike == {"rate", "schedule", "share", "exclude"}
Favourable == {"cap", "exempt", "share", "exclude", "credit"}

(* direction: the side on which a rule in doubt is taken.                   *)
DirectionFavourable(r) == "fav"
Direction(r) == CASE r.eff \in RateLike /\ Conditioned(r) -> "both"
                  [] ~(r.eff \in RateLike /\ Conditioned(r)) /\ r.eff \in Favourable -> "fav"
                  [] ~(r.eff \in RateLike /\ Conditioned(r)) /\ r.eff \notin Favourable -> "unfav"

Candidates(jur, subject, slot, flow) ==
    {r \in Rules : /\ r.jur = jur /\ r.slot = slot
                   /\ subject = "all" \/ r.subject \in {subject, "all"}
                   /\ r.flow \in {flow, "*"}}

Share(x, part) == (x * part) \div Whole

(* schedule_tax: the tax on x under marginal brackets.                      *)
ScheduleTax(id, x) ==
    MapThenSumSet(LAMBDA b : Share(Min({x, b.upper}) - b.lower, b.rate),
                  {b \in Brackets[id] : x > b.lower})

ScheduleInputs == {"other_taxable_income", "amount_payee_ccy"}
MissingInputs(f) == {k \in ScheduleInputs : k \notin DOMAIN f \/ f[k].s = "U"}

(* schedule_value: the effective rate of the amount on top of the other     *)
(* income; the lowest and the highest bracket while an input is missing.    *)
ScheduleRate(r, f, side) ==
    LET rates == {b.rate : b \in Brackets[r.id]}
        base == f["other_taxable_income"].v
        amount == f["amount_payee_ccy"].v
    IN  CASE MissingInputs(f) # {} /\ side = "floor" -> Min(rates)
          [] MissingInputs(f) # {} /\ side = "ceiling" -> Max(rates)
          [] MissingInputs(f) = {} /\ amount > 0 ->
                (Whole * (ScheduleTax(r.id, base + amount) - ScheduleTax(r.id, base))) \div amount
          [] MissingInputs(f) = {} /\ amount <= 0 ->
                (CHOOSE b \in Brackets[r.id] : b.lower <= base /\ base < b.upper).rate

Value(r, f, side) == IF r.eff = "schedule" THEN ScheduleRate(r, f, side) ELSE r.val

(* ------------------------------------------------ composition of one cell *)
Sure(rules, sure) == {r \in rules : Conditioned(r) /\ r \in sure}
Plain(rules) == {r \in rules : ~Conditioned(r)}

(* pick_single raises a Defect when two rules of one value hold at once, or *)
(* would if one in doubt were to hold: the rules in force exclude one       *)
(* another by a literal.                                                    *)
Opposed(a, b) == \E c \in a.cond, d \in b.cond :
                    /\ Cardinality(c) = 1 /\ Cardinality(d) = 1
                    /\ \E l \in c, m \in d : l.key = m.key /\ l.want \cap m.want = {}
ASSUME RulesExclusive ==
    \A a, b \in Rules :
        (/\ a # b /\ a.jur = b.jur /\ a.slot = b.slot /\ a.flow = b.flow /\ a.subject = b.subject
         /\ a.eff \in RateLike /\ ValueOf(a.eff) = ValueOf(b.eff) /\ Conditioned(a) = Conditioned(b))
            => Conditioned(a) /\ Opposed(a, b)

(* pick_single: a conditioned rule that holds replaces the ordinary one;    *)
(* while conditions are open every rule taken is an alternative, and so is  *)
(* "no rule" when none is unconditioned.                                    *)
Extreme(rules, least, v) ==
    IF least THEN CHOOSE r \in rules : \A q \in rules : v[r] <= v[q]
             ELSE CHOOSE r \in rules : \A q \in rules : v[r] >= v[q]
Alternatives(rules, sure, what, side, v) ==
    LET noneIsWorse == Plain(rules) = {} /\ (what = "rate") = (side = "floor")
    IN  CASE rules = {} -> {}
          [] sure # {} -> sure
          [] rules # {} /\ sure = {} /\ rules = Plain(rules) -> rules
          [] rules # {} /\ sure = {} /\ rules # Plain(rules) ->
                IF noneIsWorse THEN {} ELSE {Extreme(rules, (what = "exclude") # (side = "floor"), v)}
PickSingle(rules, what, side, certain, v) == Alternatives(rules, Sure(rules, certain), what, side, v)

TheValue(picked, v, absent) == IF picked = {} THEN absent ELSE v[CHOOSE r \in picked : TRUE]
Of(rules, effs) == {r \in rules : r.eff \in effs}

(* included: the part of the dividend the recipient counts.                 *)
Part(exempt, share, exclude, v) ==
    [incl |-> IF exempt # {} THEN 0 ELSE Share(TheValue(share, v, Whole), Whole - TheValue(exclude, v, 0)),
     by |-> share \cup exclude \cup exempt]
Included(rules, side, certain, v) ==
    Part(Of(rules, {"exempt"}), PickSingle(Of(rules, {"share"}), "share", side, certain, v),
         PickSingle(Of(rules, {"exclude"}), "exclude", side, certain, v), v)

(* The rate of an outbound or restructure cell after surtaxes, caps and     *)
(* exemptions.                                                              *)
Raised(rate, surtaxes, v) == FoldSet(LAMBDA r, x : Share(x, Whole + v[r]), rate, surtaxes)
TaxRate(rules, chosen, v) ==
    CASE Of(rules, {"exempt"}) # {} -> 0
      [] Of(rules, {"exempt"}) = {} /\ chosen = {} -> None
      [] Of(rules, {"exempt"}) = {} /\ chosen # {} ->
            Min({Raised(TheValue(chosen, v, None), Of(rules, {"surtax"}), v)} \cup {v[r] : r \in Of(rules, {"cap"})})

(* compose: the value of one cell from the rules taken on one side.         *)
Composed(slot, all, rate, part, v) ==
    LET surtaxes == Of(all, {"surtax"})
        taxable == Of(all, {"taxable"})
    IN  CASE slot = "outbound_wht" ->
               [value |-> TaxRate(all, rate, v), by |-> rate \cup Of(all, {"surtax", "cap", "exempt"}),
                credit |-> FALSE, stamp |-> 0]
          [] slot = "restructure" ->
               [value |-> TaxRate(all, rate, v), by |-> rate \cup Of(all, {"cap", "exempt", "stamp", "credit"}),
                credit |-> Of(all, {"credit"}) # {}, stamp |-> MapThenSumSet(LAMBDA r : v[r], Of(all, {"stamp"}))]
          [] slot = "final" ->
               [value |-> IF rate = {} THEN None ELSE Share(Raised(TheValue(rate, v, None), surtaxes, v), part.incl),
                by |-> rate \cup part.by \cup surtaxes, credit |-> FALSE, stamp |-> 0]
          [] slot = "inbound" ->
               [value |-> IF taxable = {} THEN 0 ELSE part.incl,
                by |-> taxable \cup Of(all, {"credit"}) \cup (IF taxable = {} THEN {} ELSE part.by),
                credit |-> Of(all, {"credit"}) # {}, stamp |-> 0]
          [] slot \in {"residence", "cfc", "anti_abuse"} ->
               [value |-> Of(all, {"resident", "include", "deny"}) # {}, by |-> all, credit |-> FALSE, stamp |-> 0]
Compose(slot, taken, side, certain, v) ==
    Composed(slot, taken, PickSingle(Of(taken, {"rate", "schedule"}), "rate", side, certain, v),
             Included(taken, side, certain, v), v)

(* outcome: what may still change, the rules that gave it left aside.       *)
Outcome(res) == <<res.value, res.credit, res.stamp>>

(* suppressor: a rule denied on this side by an anti-abuse cell.            *)
Suppressed(deny, side, r) ==
    \E d \in deny[side] : r.id \in d.over \/ (r.eff \in d.over /\ d.flow \in {"*", r.flow})

NoDenial == [floor |-> {}, ceiling |-> {}]

(* eval_cell.  A rule in doubt is taken on the side its direction says; it  *)
(* is pending when forcing it to hold and to fail gives different outcomes. *)
Certain(truth) == {r \in DOMAIN truth : truth[r].s = "T"}
Doubtful(truth) == {r \in DOMAIN truth : truth[r].s = "U"}
Taken(truth, side) ==
    Certain(truth) \cup {r \in Doubtful(truth) :
                            Direction(r) \in {"both", IF side = "floor" THEN "fav" ELSE "unfav"}}

(* The outcome of a side, the rules in `on` forced and those in `off` failed. *)
Result(slot, truth, v, deny, side, on, off) ==
    Compose(slot, {r \in (Taken(truth, side) \cup on) \ off : ~Suppressed(deny, side, r)}, side,
            Certain(truth) \cup on, v[side])

Pending(slot, truth, v, deny, got, missing) ==
    LET forced(side, q) == {Outcome(Result(slot, truth, v, deny, side, on, {q} \ on)) : on \in {{}, {q}}}
    IN  {[rule |-> r, needs |-> truth[r].n] :
            r \in {q \in Doubtful(truth) : \E side \in Sides : Cardinality(forced(side, q)) = 2}}
        \cup {[rule |-> r, needs |-> missing] :
                 r \in {q \in got["floor"].by \cup got["ceiling"].by : q.eff = "schedule" /\ missing # {}}}

Item(cell, got, pending) ==
    [status |-> CASE cell = {} -> "absent"
                  [] cell # {} /\ pending # {} -> "U"
                  [] cell # {} /\ pending = {} -> "T",
     floor |-> got["floor"], ceiling |-> got["ceiling"], pending |-> pending,
     needs |-> UNION {g.needs : g \in pending}]

Settled(slot, truth, v, deny, got, missing) ==
    Item(DOMAIN truth, got, Pending(slot, truth, v, deny, got, missing))
Valued(slot, truth, v, deny, missing) ==
    Settled(slot, truth, v, deny, Made([side \in Sides |-> Result(slot, truth, v, deny, side, {}, {})]), missing)

EvalCell(jur, subject, slot, flow, f, mode, deny) ==
    LET cell == Candidates(jur, subject, slot, flow)
    IN  Valued(slot, Made([r \in cell |-> Holds(f, mode, r.cond)]),
               Made([side \in Sides |-> Made([r \in cell |-> Value(r, f, side)])]), deny, MissingInputs(f))

(* ------------------------------------------------------- a dividend flow *)
(* tri: what a residence cell says about the variable other cells read.     *)
Tri(item, name) == CASE item.status = "absent" -> Unknown({name})
                     [] item.status = "U" -> Unknown(item.needs)
                     [] item.status = "T" -> Known(IF item.ceiling.value THEN "true" ELSE "false")

(* entity_view: the facts of one entity over the facts of the payment.      *)
View(h, who) == h[who] @@ h.plain

(* apply_anti_abuse: the target cells under the denials of each side; a     *)
(* pending denial counts only if it changes a target, and keeps it open.    *)
Denied(aa, on, off) == Made([side \in Sides |-> (Of(aa[side].by, {"deny"}) \cup on) \ off])
Target(t, deny) == EvalCell(t.jur, t.subject, t.slot, t.flow, t.facts, t.mode, deny)

(* The pending denials of aa that change the target t.                      *)
Doubts(aa, t) ==
    {g \in aa.pending :
        \E a, b \in {Target(t, Denied(aa, on, {g.rule} \ on)) : on \in {{}, {g.rule}}} :
            \E side \in Sides : Outcome(a[side]) # Outcome(b[side])}

KeptOpen(item, more) ==
    [item EXCEPT !.pending = @ \cup more, !.needs = @ \cup UNION {g.needs : g \in more},
                 !.status = IF more # {} /\ @ # "absent" THEN "U" ELSE @]
Judged(aa, kept) ==
    [aa EXCEPT !.pending = kept, !.needs = UNION {g.needs : g \in kept},
               !.status = CASE @ = "absent" -> "absent"
                            [] @ # "absent" /\ kept # {} -> "U"
                            [] @ # "absent" /\ kept = {} -> "T"]
Answered(aa, ran) ==
    [items |-> Made([slot \in {x.slot : x \in ran} |->
                  LET x == CHOOSE y \in ran : y.slot = slot IN KeptOpen(x.item, x.doubts)]),
     aa |-> Judged(aa, UNION {x.doubts : x \in ran})]
ApplyAntiAbuse(aa, targets) ==
    Answered(aa, {[slot |-> t.slot, item |-> Target(t, Denied(aa, {}, {})), doubts |-> Doubts(aa, t)] : t \in targets})

(* eval_flow: a dividend from a company of S to a `subject` of R; the       *)
(* residence cells settle the variables the other cells read, the           *)
(* anti-abuse cell of each side is applied to the cells it may deny.        *)
Flow(S, R, subject, mode, fS, fR) ==
    LET cell(j, slot, flow, f) == EvalCell(j, subject, slot, flow, f, mode, NoDenial)
        target(j, slot, flow, f) == [jur |-> j, subject |-> subject, slot |-> slot, flow |-> flow, facts |-> f, mode |-> mode]
        source == ApplyAntiAbuse(cell(S, "anti_abuse", R, fS), {target(S, "outbound_wht", R, fS)})
        home == ApplyAntiAbuse(cell(R, "anti_abuse", S, fR), {target(R, "inbound", S, fR), target(R, "final", "*", fR)})
        both(s, r) == s.items @@ r.items @@ [source_denial |-> s.aa, home_denial |-> r.aa, cfc |-> cell(R, "cfc", "*", fR)]
    IN  both(source, home)

Residence(j, subject, f, mode) == EvalCell(j, subject, "residence", "*", f, mode, NoDenial)
Residents(payer, payee) == ("payee_resident" :> Tri(payee, "payee_resident"))
                           @@ ("payer_resident" :> Tri(payer, "payer_resident"))
FlowOf(S, R, subject, h, mode, payerS, payerR, payeeR) ==
    Flow(S, R, subject, mode, Residents(payerS, payeeR) @@ View(h, "payer"), Residents(payerR, payeeR) @@ View(h, "payee"))
    @@ [payer_residence |-> payerS, payee_residence |-> payeeR]
EvalFlow(S, R, subject, h, mode) ==
    FlowOf(S, R, subject, h, mode, Residence(S, "company", View(h, "payer"), mode),
           Residence(R, "company", View(h, "payer"), mode), Residence(R, subject, View(h, "payee"), mode))
=============================================================================
