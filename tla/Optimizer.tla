----------------------------- MODULE Optimizer -----------------------------
(***************************************************************************)
(* The optimization layer, src/optimization/tools/optimize.py: a run builds *)
(* the graph of dividend hops from the rule layer's cells, searches the     *)
(* non-dominated labels from the paying company to the destinations, turns  *)
(* every frontier label into a candidate, forks it over its judgement       *)
(* points and writes the range of its tax.  The client then settles a fact  *)
(* or a judgement that was open, and the layer is run again.                *)
(*                                                                         *)
(* A label's weight -ln(kept) is modelled by the amount it keeps, which     *)
(* orders labels the other way round.  An edge is named by its ends and its *)
(* moves, a label and a candidate by the chain of edges they follow.        *)
(***************************************************************************)
EXTENDS RuleCell, Sequences

CONSTANTS
    Nodes,          \* <<jurisdiction, subject>> whose six slots are covered
    Source, Payee,  \* the paying company and its shareholder today
    Destinations,   \* where the dividend is to end
    Entities,       \* known group entities: node -> [holds, pct, months, facts]
    FactMoves,      \* the rows of move.csv with one argument each: [id, arg, row, sets, readable, needs, restructure]
    Mode,           \* "record" or "plan" for the hop of today
    Amount,         \* the dividend
    Values,         \* <<scope, name>> of what the client may state -> the values it can take
    Stated,         \* what the first run is told
    FavourableAnswer, \* the answer to a judgement point that lowers the tax
    FxRate,         \* jurisdictions with an exchange rate -> units per payment unit
    CitRate,        \* jurisdictions with a corporate tax rate -> the rate
    LimitChoices    \* the limits an input may set: [hops, moves, labels, forks]

ASSUME OptimizerAssumption ==
    /\ \A l \in LimitChoices : l.hops \in Nat /\ l.moves \in Nat /\ l.labels \in Nat
    /\ IsFiniteSet(FactMoves) /\ Amount \in Nat

ForkRounds == 3
Nothing == [none |-> TRUE]

VARIABLES
    phase,      \* "idle", "search", "found" or "done"
    given,      \* what the client has stated so far
    limits,     \* the limits of this input
    edges,      \* graph.json: edge name -> hop
    labels,     \* the labels alive in the buckets of all nodes
    open,       \* the labels still to be popped
    current,    \* the label being extended
    todo,       \* the edges it is still to be extended by
    truncated,  \* the nodes whose bucket was cut
    products    \* candidate -> range of its tax over its branches

vars == <<phase, given, limits, edges, labels, open, current, todo, truncated, products>>

(* ------------------------------------------------ entities and hop facts *)
Told(scope) == LET names == {k[2] : k \in {x \in DOMAIN given : x[1] = scope}}
             IN  [n \in names |-> Known(given[<<scope, n>>])]
Only(f, names) == [n \in DOMAIN f \cap names |-> f[n]]
Without(f, names) == [n \in DOMAIN f \ names |-> f[n]]

IsNew(n) == n \notin {Source, Payee} \cup DOMAIN Entities
Parent == {n \in DOMAIN Entities : Entities[n].holds = Payee}

(* entity_facts: a new entity has only what its place says and what it      *)
(* inherits from the group.                                                 *)
EntityFacts(n) ==
    CASE n = Source -> Told("payer")
      [] n = Payee /\ n # Source -> Told("payee")
      [] n \in DOMAIN Entities \ {Source, Payee} -> Entities[n].facts
      [] IsNew(n) -> Only(Told("payee"), {"mne_entity"})
                     @@ [k \in IF n[2] = "individual" THEN {"domicile_in"} ELSE {"incorporated_in", "managed_in"}
                           |-> Known(n[1])]

ResidenceKeys == {"incorporated_in", "managed_in", "domicile_in", "days_present", "listed"}
PayerKeys == {"payer_income_taxed", "payer_tax_rate", "payer_listed"}
Holding(pct, months) == [holding_pct |-> Known(pct), holding_months |-> Known(months)]

(* The holding facts of a hop follow the structure, not the payment.        *)
PaymentFacts(tail, head) ==
    CASE tail = Source /\ head = Payee -> Told("payment")
      [] tail = Source /\ head # Payee ->
            (IF IsNew(head) THEN [holding_months |-> Known("0")] ELSE <<>>)
            @@ Only(Told("payment"), PayerKeys \cup {"holding_pct", "holding_months"})
      [] tail # Source /\ head \in DOMAIN Entities /\ Entities[head].holds = tail ->
            Holding(Entities[head].pct, Entities[head].months)
      [] tail # Source /\ ~(head \in DOMAIN Entities /\ Entities[head].holds = tail) ->
            IF IsNew(tail) \/ IsNew(head) THEN Holding("100", "0") ELSE <<>>

(* hop_facts: the facts of one hop under its moves.                         *)
HopFacts(tail, head, moves) ==
    LET t == EntityFacts(tail)
        p == EntityFacts(head)
        listed == IF tail = Source THEN <<>>
                  ELSE [payer_listed |-> IF "listed" \in DOMAIN t /\ ~IsNew(tail) THEN t["listed"] ELSE Known("false")]
        sets == [k \in UNION {DOMAIN m.sets : m \in moves}
                   |-> Known((CHOOSE m \in moves : k \in DOMAIN m.sets).sets[k])]
    IN  [plain |-> sets @@ Without(p, ResidenceKeys) @@ PaymentFacts(tail, head) @@ listed,
         payer |-> t, payee |-> p]

HopMode(tail, head, moves) == IF tail = Source /\ head = Payee /\ moves = {} THEN Mode ELSE "plan"

(* eval_hop: the rule layer on one hop, facts of the path laid over it.     *)
EvalHop(tail, head, h, mode, answers, extra) ==
    EvalFlow(tail[1], head[1], head[2],
             [plain |-> answers @@ extra.plain @@ Without(h.plain, extra.gone), payer |-> h.payer,
              payee |-> extra.payee @@ Without(h.payee, extra.gone)], mode)
NoExtra == [plain |-> <<>>, payee |-> <<>>, gone |-> {}]

(* hop_tax: withholding, tax on what is included and the credit of one hop. *)
HopTax(items, domestic) ==
    LET num(slot, side) == LET i == items[slot]
                           IN  IF i.status = "absent" \/ i[side].value = None THEN 0 ELSE i[side].value
        wht(side) == IF domestic THEN 0 ELSE num("outbound_wht", side)
        res(side) == Share(num("inbound", side), num("final", side))
        credit(side) == IF items["inbound"][side].credit THEN Min({wht(side), res(side)}) ELSE 0
        gap(side) == /\ num("inbound", side) > 0
                     /\ items["final"].status = "absent" \/ items["final"][side].value = None
    IN  [t |-> Made([side \in Sides |-> wht(side) + res(side) - credit(side)]),
         missing |-> \E side \in Sides : gap(side),
         needs |-> UNION {items[slot].needs : slot \in DOMAIN items}]

Net(amount, t) == Share(amount, Whole - t)
ScheduleFinal(n) == n[2] = "individual" \/ \E r \in Rules : r.jur = n[1] /\ r.slot = "final" /\ r.eff = "schedule"
                                                            /\ r.subject \in {n[2], "all"}

(* ------------------------------------------------------------- the graph *)
EdgeNames ==
    {<<tail, head, moves>> : tail \in {n \in Nodes : n[2] = "company"}, head \in Nodes,
        moves \in {ms \in SUBSET FactMoves : /\ Cardinality(ms) <= limits.moves
                                             /\ \A a, b \in ms : a.id = b.id => a = b}}

(* build_graph: one edge for every pair of nodes and combination of moves   *)
(* whose precondition does not fail, unless a side loses everything.        *)
Edge(h, items, e) ==
    LET made(tax) == [facts |-> h, t |-> tax.t, needs |-> tax.needs, byAmount |-> ScheduleFinal(e[2])]
    IN  made(HopTax(items, e[1][1] = e[2][1]))
HopWith(h, e) == Edge(h, EvalHop(e[1], e[2], h, HopMode(e[1], e[2], e[3]), Told("answer"), NoExtra), e)
Hop(e) == HopWith(HopFacts(e[1], e[2], e[3]), e)

(* precondition_ok: the conditions of the moves, read in the order of their *)
(* rows on the facts they make; the first that cannot be read lets all pass. *)
Fails(m, facts) == m.readable /\ Holds(facts, Mode, m.needs).s = "F"
Permitted(moves, facts) ==
    \A m \in moves : Fails(m, facts) => \E x \in moves : x.row < m.row /\ ~x.readable
Possible(e) == e[1] # e[2] /\ Permitted(e[3], Told("answer") @@ HopFacts(e[1], e[2], e[3]).plain)

NotLost(names, hops) == [e \in {x \in names : \A side \in Sides : hops[x].t[side] < Whole} |-> hops[e]]
GraphOf(names) == NotLost(names, Made([e \in names |-> Hop(e)]))
Graph == GraphOf({e \in EdgeNames : Possible(e)})

(* ------------------------------------------------------------ the labels *)
(* transfer_tags: the shares an edge implies selling or buying.             *)
TransferTags(e) ==
    (IF e[1] = Source /\ e[2] # Payee THEN {<<"sell", Source>>} ELSE {})
    \cup (IF e[1] = Payee /\ e[2] \notin Parent THEN {<<"sell", Payee>>} ELSE {})
    \cup {<<"acquire", m.arg>> : m \in {x \in e[3] : x.id = "holding_pct"}}

OtherIncome(n) == LET f == IF n = Payee THEN Told("payee")
                           ELSE IF n \in DOMAIN Entities THEN Entities[n].facts ELSE <<>>
                  IN  Only(f, {"other_taxable_income"})

(* amount_dependent_weight: a progressive tax is computed on the amount     *)
(* the label delivers, each side on its own.                                *)
EdgeTax(e, keep) ==
    LET told(side) == [NoExtra EXCEPT !.payee = OtherIncome(e[2])
                          @@ (IF e[2][1] \in DOMAIN FxRate
                              THEN [amount_payee_ccy |-> Known(keep[side] * FxRate[e[2][1]])] ELSE <<>>)]
        taxed(side) ==
            HopTax(EvalHop(e[1], e[2], edges[e].facts, HopMode(e[1], e[2], e[3]), Told("answer"), told(side)),
                   e[1][1] = e[2][1]).t[side]
    IN  IF edges[e].byAmount THEN Made([side \in Sides |-> taxed(side)]) ELSE edges[e].t

FirstLabel == [node |-> Source, keep |-> [floor |-> Amount, ceiling |-> Amount], needs |-> {}, restructure |-> 0,
               moves |-> 0, transfers |-> {}, chain |-> <<>>]

After(keep, t) == [floor |-> Net(keep["floor"], t["floor"]), ceiling |-> Net(keep["ceiling"], t["ceiling"])]

Extend(L, e, t) ==
    [node |-> e[2], keep |-> After(L.keep, t),
     needs |-> L.needs \cup edges[e].needs,
     restructure |-> L.restructure + Cardinality({m \in e[3] : m.restructure}),
     moves |-> L.moves + Cardinality(e[3]), transfers |-> L.transfers \cup TransferTags(e),
     chain |-> Append(L.chain, e)]

Allowed(L, e) == Len(L.chain) + 1 <= limits.hops /\ L.moves + Cardinality(e[3]) <= limits.moves

(* The order of the heap and of a bucket that is cut.                       *)
Before(a, b) == \/ a.keep["ceiling"] > b.keep["ceiling"]
                \/ a.keep["ceiling"] = b.keep["ceiling"] /\ a.keep["floor"] >= b.keep["floor"]

(* dominates: no worse on either side, in what it needs, in hops, in        *)
(* restructuring and in the shares sold; the moves used do not count.       *)
DominatesOnTax(a, b) == a.node = b.node /\ \A side \in Sides : a.keep[side] >= b.keep[side]
Dominates(a, b) ==
    /\ a.node = b.node
    /\ \A side \in Sides : a.keep[side] >= b.keep[side]
    /\ a.needs \subseteq b.needs /\ a.transfers \subseteq b.transfers
    /\ Len(a.chain) <= Len(b.chain) /\ a.restructure <= b.restructure

(* The bucket after a label nobody dominates has entered it.                *)
Entered(bucket, L) ==
    LET kept == {M \in bucket : ~Dominates(L, M)} \cup {L}
    IN  IF Cardinality(kept) <= limits.labels THEN kept
        ELSE CHOOSE S \in SUBSET kept : /\ Cardinality(S) = limits.labels
                                        /\ \A M \in S, N \in kept \ S : Before(M, N)

(* ------------------------------------------------- candidates and branches *)
AsIs == <<Source, Payee, {}>>
AsIsChain == IF AsIs \in DOMAIN edges THEN <<AsIs>> ELSE <<>>
Frontier == {L \in labels : L.node \in Destinations}
Path(chain) == <<Source>> \o [i \in DOMAIN chain |-> chain[i][2]]
End(chain) == Path(chain)[Len(chain) + 1]

(* paths: the hop of today is a candidate whether or not it is on the       *)
(* frontier.                                                                *)
Candidate == {AsIsChain} \cup {L.chain : L \in Frontier}

(* holder_change: who comes after the payee, unless it is its known parent. *)
NewHolder(chain) ==
    {Path(chain)[i + 1] : i \in {j \in 1 .. Len(chain) : /\ Path(chain)[j] = Payee
                                                         /\ \A k \in 1 .. j - 1 : Path(chain)[k] # Payee
                                                         /\ Path(chain)[j + 1] \notin Parent}}
ParentKeys == {"parent_jur", "parent_holding_pct", "parent_holding_months", "parent_treaty_not_worse"}

(* What the hop before says about the payer of this one.                    *)
Derived(e, before) ==
    LET value(slot, side) == before.items[slot][side].value
        taxed(side) == value("inbound", side) > 0 /\ value("final", side) > 0
        told == edges[e].facts.plain
    IN  (IF /\ \A side \in Sides : value("final", side) # None
            /\ taxed("floor") = taxed("ceiling") /\ "payer_income_taxed" \notin DOMAIN told
         THEN [payer_income_taxed |-> Known(IF taxed("floor") THEN "true" ELSE "false")] ELSE <<>>)
        @@ (IF e[1][1] \in DOMAIN CitRate /\ "payer_tax_rate" \notin DOMAIN told
            THEN [payer_tax_rate |-> Known(CitRate[e[1][1]])] ELSE <<>>)

(* candidate_hops: the hops of a candidate one after the other, with the    *)
(* facts the path itself settles or removes.                                *)
CandidateHops(chain, answers) ==
    LET extra(e, before) ==
            LET holder == IF e[2] = Payee THEN NewHolder(chain) ELSE {}
                parent == [k \in IF holder = {} THEN {} ELSE ParentKeys \ {"parent_treaty_not_worse"} |->
                             Known(CASE k = "parent_jur" -> (CHOOSE n \in holder : TRUE)[1]
                                     [] k = "parent_holding_pct" -> "100"
                                     [] k = "parent_holding_months" -> "0")]
                amount == IF edges[e].byAmount /\ e[2][1] \in DOMAIN FxRate
                          THEN [amount_payee_ccy |-> Known(before.keep["ceiling"] * FxRate[e[2][1]])] ELSE <<>>
                other == IF edges[e].byAmount /\ e[2] = Payee THEN OtherIncome(Payee) ELSE <<>>
            IN  [plain |-> parent @@ (IF before.first \/ e[1] = Source THEN <<>> ELSE Derived(e, before)),
                 payee |-> parent @@ amount @@ other,
                 gone |-> IF holder = {} THEN {} ELSE ParentKeys]
        taken(before, items, tax) ==
            [first |-> FALSE, items |-> items, missing |-> before.missing \/ tax.missing,
             keep |-> Made([side \in Sides |-> Net(before.keep[side], tax.t[side])]),
             asked |-> before.asked \cup UNION {UNION {g.needs : g \in items[slot].pending} : slot \in DOMAIN items}]
        taxed(e, before, items) == taken(before, items, HopTax(items, e[1][1] = e[2][1]))
        step(e, before) ==
            taxed(e, before, EvalHop(e[1], e[2], edges[e].facts, HopMode(e[1], e[2], e[3]), answers, extra(e, before)))
        hop[i \in 0 .. Len(chain)] ==
            IF i = 0 THEN [first |-> TRUE, items |-> <<>>, missing |-> FALSE,
                           keep |-> [floor |-> Amount, ceiling |-> Amount], asked |-> {}]
            ELSE step(chain[i], hop[i - 1])
    IN  hop[Len(chain)]

(* fork: the open judgement points of a candidate, found in rounds (one may *)
(* open only once another settles), and the answers assumed for them.       *)
Judgements(keys) == {k \in keys : Kind[k] = "discretion" /\ k \notin DOMAIN Told("answer")}
Assumed(asg) == [k \in DOMAIN asg |-> Known(asg[k])] @@ Told("answer")
Best(keys) == [k \in keys |-> FavourableAnswer[k]]
Against(k) == IF FavourableAnswer[k] = "yes" THEN "no" ELSE "yes"

ForkKeys(chain) ==
    LET round[i \in 0 .. ForkRounds + 1] ==
            IF i = 0 THEN {}
            ELSE LET keys == round[i - 1]
                 IN  keys \cup Judgements(CandidateHops(chain, Assumed(Best(keys))).asked)
    IN  round[ForkRounds + 1]

Assignments(keys) ==
    IF Cardinality(keys) <= limits.forks THEN [keys -> {"yes", "no"}]
    ELSE {Best(keys), [k \in keys |-> Against(k)]} \cup {[Best(keys) EXCEPT ![k] = Against(k)] : k \in keys}

(* branch_tax and rank: the tax of every branch, and the range over the     *)
(* complete ones.                                                           *)
Branches(chain, keys) ==
    [chain |-> chain, all |-> Cardinality(keys) <= limits.forks,
     done |-> {b \in {CandidateHops(chain, Assumed(asg)) : asg \in Assignments(keys)} : ~b.missing}]
Ranged(tried) ==
    [c \in {t.chain : t \in tried} |->
        LET t == CHOOSE x \in tried : x.chain = c
        IN  [floor |-> Amount - Max({b.keep["floor"] : b \in t.done}),
             ceiling |-> Amount - Min({b.keep["ceiling"] : b \in t.done}), all |-> t.all]]
Ranges == Ranged({t \in {Branches(c, ForkKeys(c)) : c \in {x \in Candidate : End(x) \in Destinations}} : t.done # {}})

(* --------------------------------------------------------------- actions *)
Init ==
    /\ phase = "idle"
    /\ given = Stated
    /\ limits \in LimitChoices
    /\ edges = <<>> /\ labels = {} /\ open = {} /\ todo = {} /\ truncated = {}
    /\ current = FirstLabel
    /\ products = Nothing

Build ==
    /\ phase = "idle"
    /\ phase' = "search"
    /\ edges' = Graph
    /\ labels' = {FirstLabel} /\ open' = {FirstLabel}
    /\ UNCHANGED <<given, limits, current, todo, truncated, products>>

(* A label that was dominated or cut while it waited is skipped.            *)
Pop ==
    /\ phase = "search" /\ todo = {} /\ open \cap labels # {}
    /\ \E L \in open \cap labels :
          /\ \A M \in open \cap labels : Before(L, M)
          /\ current' = L
          /\ open' = (open \cap labels) \ {L}
          /\ todo' = {e \in DOMAIN edges : e[1] = L.node /\ Allowed(L, e)}
    /\ UNCHANGED <<phase, given, limits, edges, labels, truncated, products>>

Useless(bucket, t, L) == (\E side \in Sides : t[side] >= Whole) \/ (\E M \in bucket : Dominates(M, L))

(* One edge: the label is dropped, or enters the bucket of its node.        *)
Relax ==
    /\ phase = "search" /\ todo # {}
    /\ \E e \in {CHOOSE x \in todo : TRUE} : \E t \in {EdgeTax(e, current.keep)} : \E L \in {Extend(current, e, t)} :
       LET bucket == {M \in labels : M.node = e[2]}
       IN  /\ todo' = todo \ {e}
           /\ IF Useless(bucket, t, L) THEN UNCHANGED <<labels, open, truncated>>
              ELSE /\ labels' = (labels \ bucket) \cup Entered(bucket, L)
                   /\ open' = open \cup {L}
                   /\ truncated' = truncated \cup (IF Cardinality({M \in bucket : ~Dominates(L, M)}) >= limits.labels
                                                   THEN {e[2]} ELSE {})
    /\ UNCHANGED <<phase, given, limits, edges, current, products>>

Finish ==
    /\ phase = "search" /\ todo = {} /\ open \cap labels = {}
    /\ phase' = "found"
    /\ UNCHANGED <<given, limits, edges, labels, open, current, todo, truncated, products>>

Products ==
    /\ phase = "found"
    /\ phase' = "done"
    /\ products' = Ranges
    /\ edges' = <<>> /\ labels' = {} /\ open' = {} /\ truncated' = {}
    /\ current' = FirstLabel
    /\ UNCHANGED <<given, limits, todo>>

(* The client states what was open, and the case is run again.              *)
Settle ==
    /\ phase = "done"
    /\ \E k \in DOMAIN Values \ DOMAIN given : \E x \in Values[k] : given' = (k :> x) @@ given
    /\ phase' = "idle"
    /\ UNCHANGED <<limits, edges, labels, open, current, todo, truncated, products>>

Next == Build \/ Pop \/ Relax \/ Finish \/ Products \/ Settle
Spec == Init /\ [][Next]_vars

(* ------------------------------------------------------------ properties *)
WalksAfter[n \in 0 .. limits.hops] ==
    IF n = 0 THEN {FirstLabel}
    ELSE UNION {{Extend(L, e, EdgeTax(e, L.keep)) : e \in {x \in DOMAIN edges : x[1] = L.node /\ Allowed(L, x)}} :
                   L \in WalksAfter[n - 1]}
Walks == UNION {WalksAfter[n] : n \in 1 .. limits.hops}

NoWorse(a, b) ==
    /\ a.node = b.node /\ \A side \in Sides : a.keep[side] >= b.keep[side]
    /\ a.needs \subseteq b.needs /\ a.transfers \subseteq b.transfers
    /\ Len(a.chain) <= Len(b.chain) /\ a.restructure <= b.restructure

(* The search is exact (the baseline of check.py): for every walk to a      *)
(* destination within the limits the frontier holds a label that is no      *)
(* worse in any respect, and no walk beats a label of the frontier; unless  *)
(* a bucket was cut, or the limit on moves, which dominance does not look   *)
(* at, can bind.                                                            *)
MovesFit == \A e \in DOMAIN edges : limits.hops * Cardinality(e[3]) <= limits.moves
FrontierExact ==
    phase = "found" /\ truncated = {} /\ MovesFit
        => \A W \in {w \in Walks : w.node \in Destinations} :
              /\ \E L \in Frontier : NoWorse(L, W)
              /\ \A L \in Frontier : NoWorse(W, L) => NoWorse(L, W)

(* A further answer of the client never takes the tax of a candidate out of *)
(* the range the last run gave it over all its branches.                    *)
Within(a, b) == b.floor <= a.floor /\ a.ceiling <= b.ceiling
AnswersNarrow ==
    [][ (phase = "found" /\ phase' = "done" /\ products # Nothing)
          => \A c \in {x \in DOMAIN products \cap DOMAIN products' : products[x].all} :
                Within(products'[c], products[c]) ]_vars
=============================================================================
