---------------------------- MODULE MCKnowledge ----------------------------
(***************************************************************************)
(* The two ways to the legal sources: the searches of the application at   *)
(* its providers (KnowledgeSlots) and the package the offline tools share  *)
(* (DataSync).  They have no state in common, so a behaviour here is one   *)
(* of either, and the other rests.                                         *)
(***************************************************************************)
EXTENDS KnowledgeSlots, DataSync

VARIABLE part

MCInit == Init /\ SyncInit /\ part \in {"searches", "package"}

SearchStep == part = "searches" /\ Next /\ UNCHANGED <<part, syncVars>>
SyncStep == part = "package" /\ SyncNext /\ UNCHANGED <<part, vars>>

MCSpec == MCInit /\ [][SearchStep \/ SyncStep]_<<vars, syncVars, part>> /\ Fairness
=============================================================================
