---------------------------- MODULE MCOptimizer ----------------------------
(***************************************************************************)
(* A company in cn pays a company in hk; the dividend is to end in hk or    *)
(* with an individual in jp, through sg if that is better.                  *)
(***************************************************************************)
EXTENDS Optimizer

Lit(k, vs) == [key |-> k, want |-> vs]
Is(k) == {Lit(k, {"true"})}
Yes(k) == {Lit(k, {"yes"})}
No(k) == {Lit(k, {"no"})}
Rule(id, jur, subject, slot, flow, eff, val, cond) ==
    [id |-> id, jur |-> jur, subject |-> subject, slot |-> slot, flow |-> flow, eff |-> eff, val |-> val,
     cond |-> cond, over |-> {}]
Deny(id, jur, flow, cond, over) == [Rule(id, jur, "all", "anti_abuse", flow, "deny", 0, cond) EXCEPT !.over = over]
Resident(jur, subject, k) == Rule(jur \o subject, jur, subject, "residence", "*", "resident", 0, {{Lit(k, {jur})}})
Treaty(k) == {Is("payee_resident"), Yes(k)}
Large == {Lit("holding_pct", {"25", "100"})}
Held == {Lit("holding_months", {"24"})}

MCRules ==
    {Resident("cn", "company", "incorporated_in"),
     Rule("hkcompany", "hk", "company", "residence", "*", "resident", 0,
          {{Lit("incorporated_in", {"hk"}), Lit("managed_in", {"hk"})}}),
     Resident("sg", "company", "managed_in"), Resident("jp", "individual", "domicile_in"),
     Rule("cn.wht", "cn", "all", "outbound_wht", "*", "rate", 200, {}),
     Rule("cn.surtax", "cn", "all", "outbound_wht", "*", "surtax", 100, {Is("surcharge")}),
     Rule("cn.hk10", "cn", "company", "outbound_wht", "hk", "cap", 100, Treaty("bo")),
     Rule("cn.hk5", "cn", "company", "outbound_wht", "hk", "cap", 50, Treaty("bo") \cup {Large, Held}),
     Rule("cn.sg10", "cn", "company", "outbound_wht", "sg", "cap", 100, Treaty("bo")),
     Rule("cn.jp10", "cn", "all", "outbound_wht", "jp", "cap", 100, Treaty("bo")),
     Deny("cn.ppt", "cn", "hk", {Is("payee_resident"), Yes("ppt")}, {"cap"}),
     Rule("hk.taxable", "hk", "company", "inbound", "*", "taxable", 0, {Is("mne_entity")}),
     Rule("hk.taxed", "hk", "company", "inbound", "*", "exempt", 0, {Is("payer_income_taxed")}),
     Rule("hk.cit", "hk", "company", "final", "*", "rate", 160, {}),
     Rule("hk.small", "hk", "company", "final", "*", "rate", 80, {Yes("small")}),
     Rule("sg.taxable", "sg", "company", "inbound", "*", "taxable", 0, {}),
     Rule("sg.credit", "sg", "company", "inbound", "*", "credit", 0, {}),
     Rule("sg.taxed", "sg", "company", "inbound", "*", "exempt", 0, {Is("payer_income_taxed"), No("gaar")}),
     Rule("sg.half", "sg", "company", "inbound", "*", "share", 500, {Is("received_in_jurisdiction")}),
     Rule("sg.cit", "sg", "company", "final", "*", "rate", 200, {}),
     Rule("jp.taxable", "jp", "individual", "inbound", "*", "taxable", 0, {}),
     Rule("jp.credit", "jp", "individual", "inbound", "*", "credit", 0, {}),
     Rule("jp.income", "jp", "individual", "final", "*", "schedule", 0, {})}

MCBrackets == "jp.income" :> {[lower |-> 0, upper |-> 5000, rate |-> 100], [lower |-> 5000, upper |-> 100000, rate |-> 300]}
MCKind ==
    [k \in {"bo", "ppt", "small", "gaar"} |-> "discretion"] @@ [k \in {"received_in_jurisdiction"} |-> "structure"]
    @@ [k \in {"payee_resident", "payer_resident"} |-> "derived"]
    @@ [k \in {"incorporated_in", "managed_in", "domicile_in", "surcharge", "holding_pct", "holding_months", "mne_entity", "payer_income_taxed",
               "amount_payee_ccy", "other_taxable_income"} |-> "fact"]

cn == <<"cn", "company">>
hk == <<"hk", "company">>
sg == <<"sg", "company">>
jp == <<"jp", "individual">>
MCNodes == {cn, hk, sg, jp}
MCEntities == jp :> [holds |-> hk, pct |-> "100", months |-> "24", facts |-> [domicile_in |-> Known("jp"), other_taxable_income |-> Known(1000)]]
\* As in move.csv: the condition of the first cannot be read, the second has
\* one here, so that it can fail.
MCFactMoves == {[id |-> "holding_pct", arg |-> "100", row |-> 1, sets |-> [holding_pct |-> "100"],
                 readable |-> FALSE, needs |-> {}, restructure |-> TRUE],
                [id |-> "wait_months", arg |-> "24", row |-> 2, sets |-> [holding_months |-> "24"],
                 readable |-> TRUE, needs |-> {Is("mne_entity")}, restructure |-> FALSE]}
MCStated == (<<"payer", "incorporated_in">> :> "cn") @@ (<<"payee", "incorporated_in">> :> "vg")
MCValues == (<<"payment", "holding_pct">> :> {"10", "25"}) @@ (<<"payee", "managed_in">> :> {"hk"})
            @@ (<<"payee", "mne_entity">> :> {"true", "false"})
            @@ (<<"answer", "bo">> :> {"yes", "no"})
MCFavourable == [k \in {"bo", "small"} |-> "yes"] @@ [k \in {"ppt", "gaar"} |-> "no"]
MCDestinations == {hk, jp}
MCFxRate == "jp" :> 1
MCCitRate == "hk" :> "16"
MCLimits == {[hops |-> 3, moves |-> 6, labels |-> 50, forks |-> 3], [hops |-> 2, moves |-> 4, labels |-> 2, forks |-> 2]}
=============================================================================
