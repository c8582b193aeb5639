------------------------------ MODULE MCChain ------------------------------
(***************************************************************************)
(* Cases for the chain of candidate rules: two facts of each long list.    *)
(***************************************************************************)
EXTENDS RuleChain, TLC

MCValuesOf ==
  [f \in Fields |->
     CASE f \in {"entity_hk_business_status", "mne_group_status"} -> {"yes", "no"}
       [] f = "income_type" -> {"dividend", "interest"}
       [] f = "receipt_location" -> {"received_in_hk", "outside_hk"}
       [] f \in HoldingSize -> {"low", "high"}
       [] f = "expert_decision_status" -> {"satisfied"}
       [] OTHER -> {"stated"}]

Blank == [f \in Fields |-> "absent"]
MCOrdinal == "human_gate" :> 0 @@ "scope" :> 1 @@ "income_characterisation" :> 2 @@ "receipt" :> 3
             @@ "economic_substance" :> 5 @@ "participation_basic" :> 6
MCEvidence == {{}, Analytic}
\* Cards two changes away from every outcome of the nodes.
MCCards ==
  {Blank} \cup
  {[Blank EXCEPT !["entity_hk_business_status"] = entity, !["mne_group_status"] = "yes",
                 !["income_type"] = "dividend", !["receipt_location"] = place,
                 !["hk_adequate_employees"] = "stated", !["holding_percentage_pct"] = "high",
                 !["continuous_holding_period_months"] = "high"] :
     entity \in {"yes", "absent"}, place \in {"received_in_hk", "absent"}}
=============================================================================
