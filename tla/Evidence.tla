------------------------------ MODULE Evidence ------------------------------
(***************************************************************************)
(* What a turn may show and cite (packages/agent/knowledge.py and          *)
(* grounded.py): admission of search results, merging of several searches, *)
(* and the check of an explanation against its sources.                    *)
(*                                                                         *)
(* An item is a passage id with the version of its text; a hash that does  *)
(* not match is a version that cannot be read.                             *)
(***************************************************************************)
EXTENDS Naturals, FiniteSets

CONSTANTS Passages,     \* ids of passages
          Versions,     \* versions of their text
          ModelUse      \* the versions whose policy lets the model use them

Items == [id : Passages, ver : Versions]

ASSUME EvidenceAssumption == ModelUse \subseteq Items /\ Versions # {}

Reasons == {"evidence_available", "evidence_insufficient", "evidence_restricted",
            "no_match", "retrieval_failed"}

\* retrieve: found by the search, read again for display; a gap is a passage
\* that cannot be used, or coverage the provider calls partial.  The rest of
\* the passages may be cut off when no more may be read.
Admitted(found, read, partial, cut) ==
  LET passages == found \cap read
      model == passages \cap ModelUse
  IN [passages |-> passages, model |-> model, cut |-> cut /\ found # passages,
      reason |-> CASE found = {} -> "no_match"
                   [] found # {} /\ (partial \/ found # passages) -> "evidence_insufficient"
                   [] OTHER -> IF model = {} THEN "evidence_restricted" ELSE "evidence_available"]
Failed == [passages |-> {}, model |-> {}, cut |-> FALSE, reason |-> "retrieval_failed"]

\* merge_bundles: an id must denote one version in the final answer.
Union(bundles, field) == UNION {b[field] : b \in bundles}
Ambiguous(model) == {i.id : i \in {x \in model : \E y \in model : y.id = x.id /\ y.ver # x.ver}}
MergedAll(bundles) ==
  [passages |-> Union(bundles, "passages"), model |-> Union(bundles, "model")]
Merged(bundles) ==
  LET model == Union(bundles, "model")
      Clear(items) == {i \in items : i.id \notin Ambiguous(model)}
  IN [passages |-> Clear(Union(bundles, "passages")), model |-> Clear(model)]

\* claims_from_result: every paragraph names sources that were offered.
Supported(cited, merged) == cited # {} /\ cited \subseteq {i.id : i \in merged.model}

\* The items a reader finds under the citations of an explanation, or under
\* the excerpts and references shown without one.
Cited(ids, merged) == {i \in merged.passages : i.id \in ids}
Excerpts(merged) == IF merged.model # {} THEN {i.id : i \in merged.model} ELSE {i.id : i \in merged.passages}
=============================================================================
