--------------------------- MODULE OptimizerProofs ---------------------------
(***************************************************************************)
(* The search for the best ways of a dividend is exact, on any graph: for  *)
(* every walk to a destination within the limits there is a label on the   *)
(* frontier that is no worse in any respect.  A label that was dropped was *)
(* dominated, and what dominates it can be extended wherever it could, to  *)
(* something no worse; this is what has to hold of the taxes on the edges. *)
(* At the end, what the evaluator says of conditions some facts of which   *)
(* are missing.                                                            *)
(***************************************************************************)
EXTENDS Optimizer, FiniteSetTheorems, WellFoundedInduction, TLAPS

----------------------------------------------------------------------------
(***************************************************************************)
(* Numbers                                                                 *)
(***************************************************************************)
LEMMA LeastNatural ==
  ASSUME NEW S \in SUBSET Nat, S # {}
  PROVE  \E m \in S : \A n \in S : m <= n
<1> DEFINE R == {ss \in Nat \X Nat : ss[1] < ss[2]}
<1>1. IsWellFoundedOn(R, Nat)
    BY NatLessThanWellFounded DEF OpToRel
<1>2. PICK m \in S : \A n \in S : ~ (<<n, m>> \in R)
  <2> HIDE DEF R
  <2> QED
      BY <1>1, WFMin
<1>3. \A n \in S : ~ (n < m)
    BY <1>2
<1> QED
    BY <1>3

\* Multiplying by a natural number keeps the order.
LEMMA TimesOrder ==
  ASSUME NEW a \in Nat, NEW b \in Int, NEW c \in Int, b <= c
  PROVE  a * b <= a * c
<1>1. a * (c - b) >= 0
    OBVIOUS
<1>2. a * (c - b) = a * c - a * b
    OBVIOUS
<1>3. a * b \in Int /\ a * c \in Int
    OBVIOUS
<1> QED
    BY <1>1, <1>2, <1>3

\* If h times every single number of moves is within the limit M, then so are
\* the moves of n of h hops and those of one more.
LEMMA MovesBound ==
  ASSUME NEW h \in Nat, NEW m \in Nat, NEW c \in Nat, NEW n \in Nat, NEW M \in Nat,
         h * m <= n * M, h * c <= M, n + 1 <= h
  PROVE  m + c <= M /\ h * (m + c) <= (n + 1) * M
<1>1. h * (m + c) = h * m + h * c /\ (n + 1) * M = n * M + M
    OBVIOUS
<1>2. h * (m + c) <= (n + 1) * M
    BY <1>1
<1>3. (n + 1) * M <= h * M
  <2>1. M * (n + 1) <= M * h
      BY TimesOrder
  <2> QED
      BY <2>1
<1>4. ASSUME m + c > M PROVE FALSE
  <2>1. h * (M + 1) <= h * (m + c)
      BY <1>4, TimesOrder
  <2>2. h * (M + 1) = h * M + h
      OBVIOUS
  <2> QED
      BY <1>2, <1>3, <2>1, <2>2
<1> QED
    BY <1>2, <1>4

----------------------------------------------------------------------------
(***************************************************************************)
(* What the search needs of the taxes, K being the amounts that can arrive *)
(* at a node after so many hops: no hop takes everything, and where more   *)
(* arrives, no less is left after the hop.                                 *)
(***************************************************************************)
Extended(L, e) == Extend(L, e, EdgeTax(e, L.keep))
Goes(L, e) == e[1] = L.node /\ Allowed(L, e)
Delivered(e, keep) == After(keep, EdgeTax(e, keep))
AtLeast(a, b) == \A side \in Sides : a[side] >= b[side]
Arrival(n, v, keep) == [hops |-> n, node |-> v, keep |-> keep]

KeepsOrder(K) ==
    /\ Arrival(0, Source, FirstLabel.keep) \in K
    /\ \A x \in K : x.keep \in [Sides -> Int]
    /\ \A x \in K, e \in DOMAIN edges : x.node = e[1] /\ x.hops < limits.hops =>
          /\ \A side \in Sides : ~(EdgeTax(e, x.keep)[side] >= Whole)
          /\ Arrival(x.hops + 1, e[2], Delivered(e, x.keep)) \in K
          /\ \A y \in K : y.node = e[1] /\ y.hops < limits.hops /\ AtLeast(x.keep, y.keep)
                             => AtLeast(Delivered(e, x.keep), Delivered(e, y.keep))

OrderKept == \E K : KeepsOrder(K)

\* The taxes of a step are those of the run: they follow from what was given.
LEMMA TaxKept ==
  ASSUME given' = given, edges' = edges
  PROVE  \A e, keep : EdgeTax(e, keep)' = EdgeTax(e, keep)
<1>1. ASSUME NEW s PROVE Told(s)' = Told(s)
    BY DEF Told
<1>2. ASSUME NEW n PROVE OtherIncome(n)' = OtherIncome(n)
    BY <1>1 DEF OtherIncome
<1>3. ASSUME NEW e, NEW keep PROVE EdgeTax(e, keep)' = EdgeTax(e, keep)
    BY <1>1, <1>2 DEF EdgeTax
<1> QED
    BY <1>3

\* Within a run the graph and the limits stand, and with them what a label
\* extends to.
LEMMA GraphKept ==
  ASSUME given' = given, edges' = edges, limits' = limits
  PROVE  /\ \A K : KeepsOrder(K)' => KeepsOrder(K)
         /\ MovesFit' = MovesFit
         /\ \A L, e : Extended(L, e)' = Extended(L, e)
         /\ \A L, e : Goes(L, e)' = Goes(L, e)
<1>1. \A e, keep : EdgeTax(e, keep)' = EdgeTax(e, keep)
    BY TaxKept
<1>2. \A e, keep : Delivered(e, keep)' = Delivered(e, keep)
    BY <1>1 DEF Delivered
<1>3. ASSUME NEW K, KeepsOrder(K)' PROVE KeepsOrder(K)
    BY <1>1, <1>2, <1>3 DEF KeepsOrder
<1>4. MovesFit' = MovesFit
    BY DEF MovesFit
<1>5. ASSUME NEW L, NEW e PROVE Extended(L, e)' = Extended(L, e) /\ Goes(L, e)' = Goes(L, e)
    BY <1>1 DEF Extended, Extend, Goes, Allowed
<1> QED
    BY <1>3, <1>4, <1>5

----------------------------------------------------------------------------
(***************************************************************************)
(* Walks and labels                                                        *)
(***************************************************************************)
IsWalk(W, K) ==
    /\ W.chain \in Seq(DOMAIN edges) /\ Len(W.chain) <= limits.hops
    /\ Arrival(Len(W.chain), W.node, W.keep) \in K
    /\ W.restructure \in Nat

IsLabel(L, K) ==
    /\ IsWalk(L, K)
    /\ L.moves \in Nat /\ limits.hops * L.moves <= Len(L.chain) * limits.moves

Covered(W) == \E M \in labels : NoWorse(M, W)

Restructured(e) == Cardinality({m \in e[3] : m.restructure})
GraphTyped == limits \in LimitChoices /\ DOMAIN edges \subseteq EdgeNames

\* dominates is the order in which the frontier is exact.
LEMMA DominatesIsNoWorse == \A a, b : Dominates(a, b) <=> NoWorse(a, b)
BY DEF Dominates, NoWorse

\* The numbers a walk carries.
LEMMA WalkTyped ==
  ASSUME NEW K, KeepsOrder(K), NEW W, IsWalk(W, K)
  PROVE  /\ Len(W.chain) \in Nat /\ W.restructure \in Nat
         /\ \A side \in Sides : W.keep[side] \in Int
<1>1. Arrival(Len(W.chain), W.node, W.keep).keep = W.keep
    BY DEF Arrival
<1>2. W.keep \in [Sides -> Int]
    BY <1>1 DEF IsWalk, KeepsOrder
<1> QED
    BY <1>2 DEF IsWalk

\* On walks the order is reflexive ...
LEMMA NoWorseReflexive ==
  ASSUME NEW K, KeepsOrder(K), NEW W, IsWalk(W, K)
  PROVE  NoWorse(W, W)
BY WalkTyped DEF NoWorse

\* ... and transitive.
LEMMA NoWorseTransitive ==
  ASSUME NEW K, KeepsOrder(K), NEW a, NEW b, NEW c, IsWalk(a, K), IsWalk(b, K), IsWalk(c, K),
         NoWorse(a, b), NoWorse(b, c)
  PROVE  NoWorse(a, c)
<1>1. /\ Len(a.chain) \in Nat /\ Len(b.chain) \in Nat /\ Len(c.chain) \in Nat
      /\ a.restructure \in Nat /\ b.restructure \in Nat /\ c.restructure \in Nat
      /\ \A side \in Sides : a.keep[side] \in Int /\ b.keep[side] \in Int /\ c.keep[side] \in Int
    BY WalkTyped
<1> QED
    BY <1>1 DEF NoWorse

\* The parts of an edge of the graph.
LEMMA EdgeTyped ==
  ASSUME GraphTyped, NEW e \in DOMAIN edges
  PROVE  /\ e[2] \in Nodes /\ Cardinality(e[3]) \in Nat
         /\ Restructured(e) \in Nat
<1>1. e[2] \in Nodes /\ e[3] \in SUBSET FactMoves
    BY DEF GraphTyped, EdgeNames
<1>2. IsFiniteSet(e[3])
    BY <1>1, OptimizerAssumption, FS_Subset
<1>3. IsFiniteSet({m \in e[3] : m.restructure})
    BY <1>2, FS_Subset
<1> QED
    BY <1>1, <1>2, <1>3, FS_CardinalityType DEF Restructured

\* Limits are natural numbers.
LEMMA LimitsTyped == GraphTyped => limits.hops \in Nat /\ limits.moves \in Nat /\ limits.labels \in Nat
BY OptimizerAssumption DEF GraphTyped

\* What a label carries after one more hop.
LEMMA ExtendedParts ==
  ASSUME NEW L, NEW e
  PROVE  /\ Extended(L, e).node = e[2] /\ Extended(L, e).keep = Delivered(e, L.keep)
         /\ Extended(L, e).needs = L.needs \cup edges[e].needs
         /\ Extended(L, e).restructure = L.restructure + Restructured(e)
         /\ Extended(L, e).moves = L.moves + Cardinality(e[3])
         /\ Extended(L, e).transfers = L.transfers \cup TransferTags(e)
         /\ Extended(L, e).chain = Append(L.chain, e)
BY DEF Extended, Extend, Delivered, Restructured

\* A walk goes on along an edge to a walk, and no hop takes everything.
LEMMA ExtendIsWalk ==
  ASSUME GraphTyped, NEW K, KeepsOrder(K), NEW W, IsWalk(W, K),
         NEW e \in DOMAIN edges, e[1] = W.node, Len(W.chain) + 1 <= limits.hops
  PROVE  /\ IsWalk(Extended(W, e), K) /\ Len(Extended(W, e).chain) = Len(W.chain) + 1
         /\ \A side \in Sides : ~(EdgeTax(e, W.keep)[side] >= Whole)
<1> DEFINE x == Arrival(Len(W.chain), W.node, W.keep)
<1>1. x \in K /\ x.hops = Len(W.chain) /\ x.node = W.node /\ x.keep = W.keep
    BY DEF IsWalk, Arrival
<1>2. Len(W.chain) \in Nat /\ limits.hops \in Nat
    BY LimitsTyped DEF IsWalk
<1> HIDE DEF x
<1>3. /\ Arrival(Len(W.chain) + 1, e[2], Delivered(e, W.keep)) \in K
      /\ \A side \in Sides : ~(EdgeTax(e, W.keep)[side] >= Whole)
    BY <1>1, <1>2 DEF KeepsOrder
<1>4. Append(W.chain, e) \in Seq(DOMAIN edges) /\ Len(Append(W.chain, e)) = Len(W.chain) + 1
    BY DEF IsWalk
<1>5. /\ Extended(W, e).node = e[2] /\ Extended(W, e).keep = Delivered(e, W.keep)
      /\ Extended(W, e).chain = Append(W.chain, e)
      /\ Extended(W, e).restructure = W.restructure + Restructured(e)
    BY ExtendedParts
<1>6. Restructured(e) \in Nat
    BY EdgeTyped
<1>7. Extended(W, e).restructure \in Nat
    BY <1>5, <1>6 DEF IsWalk
<1> QED
    BY <1>3, <1>4, <1>5, <1>7 DEF IsWalk

\* So does a label, which the limit on moves does not stop.
LEMMA ExtendIsLabel ==
  ASSUME GraphTyped, MovesFit, NEW K, KeepsOrder(K), NEW L, IsLabel(L, K),
         NEW e \in DOMAIN edges, e[1] = L.node, Len(L.chain) + 1 <= limits.hops
  PROVE  IsLabel(Extended(L, e), K) /\ Goes(L, e)
<1>0. Cardinality(e[3]) \in Nat
    BY EdgeTyped
<1>1. limits.hops \in Nat /\ limits.moves \in Nat /\ Len(L.chain) \in Nat /\ L.moves \in Nat
    BY LimitsTyped DEF IsLabel, IsWalk
<1>2. limits.hops * L.moves <= Len(L.chain) * limits.moves /\ limits.hops * Cardinality(e[3]) <= limits.moves
    BY DEF IsLabel, MovesFit
<1>3. /\ L.moves + Cardinality(e[3]) <= limits.moves
      /\ limits.hops * (L.moves + Cardinality(e[3])) <= (Len(L.chain) + 1) * limits.moves
    BY <1>0, <1>1, <1>2, MovesBound
<1>4. IsWalk(Extended(L, e), K) /\ Len(Extended(L, e).chain) = Len(L.chain) + 1
    BY ExtendIsWalk DEF IsLabel
<1>5. Extended(L, e).moves = L.moves + Cardinality(e[3]) /\ L.moves + Cardinality(e[3]) \in Nat
  <2>1. Extended(L, e).moves = L.moves + Cardinality(e[3])
      BY ExtendedParts
  <2> QED
      BY <1>0, <1>1, <2>1
<1> QED
    BY <1>3, <1>4, <1>5 DEF IsLabel, Goes, Allowed

\* What is no worse stays so after the same hop.
LEMMA ExtendKeepsNoWorse ==
  ASSUME GraphTyped, NEW K, KeepsOrder(K), NEW L, NEW W, IsWalk(L, K), IsWalk(W, K), NoWorse(L, W),
         NEW e \in DOMAIN edges, e[1] = W.node, Len(W.chain) + 1 <= limits.hops
  PROVE  NoWorse(Extended(L, e), Extended(W, e))
<1> DEFINE x == Arrival(Len(L.chain), L.node, L.keep)
           y == Arrival(Len(W.chain), W.node, W.keep)
<1>1. /\ x \in K /\ x.hops = Len(L.chain) /\ x.node = L.node /\ x.keep = L.keep
      /\ y \in K /\ y.hops = Len(W.chain) /\ y.node = W.node /\ y.keep = W.keep
    BY DEF IsWalk, Arrival
<1>2. /\ Len(L.chain) \in Nat /\ Len(W.chain) \in Nat /\ Len(L.chain) <= Len(W.chain) /\ limits.hops \in Nat
      /\ L.restructure \in Nat /\ W.restructure \in Nat /\ L.restructure <= W.restructure
      /\ L.node = W.node /\ L.needs \subseteq W.needs /\ L.transfers \subseteq W.transfers
      /\ AtLeast(L.keep, W.keep)
    BY LimitsTyped DEF IsWalk, NoWorse, AtLeast
<1> HIDE DEF x, y
<1>3. AtLeast(Delivered(e, L.keep), Delivered(e, W.keep))
  <2>1. x.node = e[1] /\ x.hops < limits.hops /\ y.node = e[1] /\ y.hops < limits.hops /\ AtLeast(x.keep, y.keep)
      BY <1>1, <1>2
  <2>2. AtLeast(Delivered(e, x.keep), Delivered(e, y.keep))
      BY <1>1, <2>1 DEF KeepsOrder
  <2> QED
      BY <1>1, <2>2
<1>4. Len(Append(L.chain, e)) = Len(L.chain) + 1 /\ Len(Append(W.chain, e)) = Len(W.chain) + 1
    BY DEF IsWalk
<1>5. Restructured(e) \in Nat
    BY EdgeTyped
<1>6. \A V : /\ Extended(V, e).node = e[2] /\ Extended(V, e).keep = Delivered(e, V.keep)
             /\ Extended(V, e).needs = V.needs \cup edges[e].needs
             /\ Extended(V, e).restructure = V.restructure + Restructured(e)
             /\ Extended(V, e).transfers = V.transfers \cup TransferTags(e)
             /\ Extended(V, e).chain = Append(V.chain, e)
    BY ExtendedParts
<1>7. Extended(L, e).restructure <= Extended(W, e).restructure
    BY <1>2, <1>5, <1>6
<1>8. Len(Extended(L, e).chain) <= Len(Extended(W, e).chain)
    BY <1>2, <1>4, <1>6
<1>9. /\ Extended(L, e).needs \subseteq Extended(W, e).needs
      /\ Extended(L, e).transfers \subseteq Extended(W, e).transfers
    BY <1>2, <1>6
<1> QED
    BY <1>3, <1>6, <1>7, <1>8, <1>9 DEF NoWorse, AtLeast

----------------------------------------------------------------------------
(***************************************************************************)
(* The search.  No label dominates another, and what a label that is not   *)
(* waiting leads to is covered: some label is no worse.                    *)
(***************************************************************************)
Searched(K) ==
    /\ IsFiniteSet(labels)
    /\ \A L \in labels : IsLabel(L, K)
    /\ \A L, M \in labels : Dominates(L, M) => L = M
    /\ Covered(FirstLabel)
    /\ todo # {} => IsLabel(current, K)
    /\ \A e \in todo : e \in DOMAIN edges /\ Goes(current, e)
    /\ \A L \in labels \ open, e \in DOMAIN edges :
          Goes(L, e) => (L = current /\ e \in todo) \/ Covered(Extended(L, e))

Phased ==
    /\ limits \in LimitChoices /\ phase \in {"idle", "search", "found", "done"}
    /\ phase # "search" => todo = {}
    /\ phase \in {"search", "found"} => DOMAIN edges \subseteq EdgeNames
    /\ phase = "found" => open \cap labels = {}

SearchInv ==
    /\ Phased
    /\ phase \in {"search", "found"} =>
          \A K : KeepsOrder(K) /\ MovesFit /\ truncated = {} => Searched(K)

\* A run that has not begun.
LEMMA InitPhased == Init => SearchInv
BY DEF Init, SearchInv, Phased

\* Build: the first label waits, and covers itself.
LEMMA BuildStep ==
  ASSUME SearchInv, Build
  PROVE  SearchInv'
<1>1. DOMAIN Graph \subseteq EdgeNames
    BY DEF Graph, GraphOf, NotLost
<1>2. EdgeNames' = EdgeNames
    BY DEF Build, EdgeNames
<1>3. Phased'
    BY <1>1, <1>2 DEF Build, SearchInv, Phased
<1>4. ASSUME NEW K, KeepsOrder(K)', MovesFit' PROVE Searched(K)'
  <2>1. labels' = {FirstLabel} /\ open' = {FirstLabel} /\ todo' = {}
      BY DEF Build, SearchInv, Phased
  <2>2. /\ FirstLabel.chain = <<>> /\ FirstLabel.node = Source /\ FirstLabel.moves = 0
        /\ FirstLabel.restructure = 0 /\ Len(FirstLabel.chain) = 0
      BY DEF FirstLabel
  <2>3. limits'.hops \in Nat /\ limits'.moves \in Nat
      BY <1>3, OptimizerAssumption DEF Phased
  <2>4. IsLabel(FirstLabel, K)'
    <3>1. <<>> \in Seq(DOMAIN edges')
        OBVIOUS
    <3>2. Arrival(0, Source, FirstLabel.keep) \in K
        BY <1>4 DEF KeepsOrder
    <3>3. IsWalk(FirstLabel, K)'
        BY <2>2, <2>3, <3>1, <3>2 DEF IsWalk
    <3> QED
        BY <2>2, <2>3, <3>3 DEF IsLabel
  <2>5. NoWorse(FirstLabel, FirstLabel)
      BY OptimizerAssumption DEF NoWorse, FirstLabel, Sides
  <2>6. IsFiniteSet(labels')
      BY <2>1, FS_Singleton
  <2>7. Covered(FirstLabel)'
      BY <2>1, <2>5 DEF Covered
  <2> QED
      BY <2>1, <2>4, <2>6, <2>7 DEF Searched
<1> QED
    BY <1>3, <1>4 DEF SearchInv

\* What holds at a step of the search whose premises hold afterwards.
LEMMA SearchStep ==
  ASSUME SearchInv, phase = "search", UNCHANGED <<given, limits, edges>>, truncated \subseteq truncated',
         NEW K, KeepsOrder(K)', MovesFit', truncated' = {}
  PROVE  /\ KeepsOrder(K) /\ MovesFit /\ GraphTyped /\ Searched(K)
         /\ \A L : IsLabel(L, K)' = IsLabel(L, K)
         /\ \A L, e : Extended(L, e)' = Extended(L, e) /\ Goes(L, e)' = Goes(L, e)
<1>1. KeepsOrder(K) /\ MovesFit /\ truncated = {}
    BY GraphKept
<1>2. Searched(K) /\ GraphTyped
    BY <1>1 DEF SearchInv, Phased, GraphTyped
<1>3. ASSUME NEW L PROVE IsLabel(L, K)' = IsLabel(L, K)
    BY DEF IsLabel, IsWalk
<1> QED
    BY <1>1, <1>2, <1>3, GraphKept

\* Pop: the label taken up has all its edges still to do.
LEMMA PopStep ==
  ASSUME SearchInv, Pop
  PROVE  SearchInv'
<1>0. /\ phase = "search" /\ phase' = "search" /\ todo = {}
      /\ UNCHANGED <<given, limits, edges>> /\ labels' = labels /\ truncated' = truncated
    BY DEF Pop
<1>1. EdgeNames' = EdgeNames
    BY <1>0 DEF EdgeNames
<1>2. Phased'
    BY <1>0, <1>1 DEF SearchInv, Phased
<1>3. PICK P \in open \cap labels : /\ current' = P /\ open' = (open \cap labels) \ {P}
                                    /\ todo' = {e \in DOMAIN edges : e[1] = P.node /\ Allowed(P, e)}
    BY DEF Pop
<1>4. ASSUME NEW K, KeepsOrder(K)', MovesFit', truncated' = {} PROVE Searched(K)'
  <2>1. /\ Searched(K) /\ \A L : IsLabel(L, K)' = IsLabel(L, K)
        /\ \A L, e : Extended(L, e)' = Extended(L, e) /\ Goes(L, e)' = Goes(L, e)
      BY <1>0, <1>4, SearchStep
  <2>2. \A W : Covered(W)' = Covered(W)
      BY <1>0 DEF Covered
  <2>3. todo' = {e \in DOMAIN edges : Goes(P, e)}
      BY <1>3 DEF Goes
  <2>4. ASSUME NEW L \in labels \ open', NEW e \in DOMAIN edges, Goes(L, e)
        PROVE  (L = P /\ e \in todo') \/ Covered(Extended(L, e))
    <3>1. CASE L = P
        BY <2>3, <2>4, <3>1
    <3>2. CASE L # P
      <4>1. L \notin open
          BY <1>3, <3>2
      <4> QED
          BY <1>0, <2>1, <2>4, <4>1 DEF Searched
    <3> QED
        BY <3>1, <3>2
  <2>5. IsLabel(P, K) /\ \A L \in labels : IsLabel(L, K)
      BY <1>3, <2>1 DEF Searched
  <2>6. \A e \in todo' : e \in DOMAIN edges /\ Goes(P, e)
      BY <2>3
  <2> QED
      BY <1>0, <1>3, <2>1, <2>2, <2>4, <2>5, <2>6 DEF Searched
<1> QED
    BY <1>0, <1>2, <1>4 DEF SearchInv

\* Without a cut a bucket keeps what the new label does not dominate.
LEMMA EnteredWhole ==
  ASSUME limits.labels \in Nat, NEW B, IsFiniteSet(B), NEW L,
         ~(Cardinality({M \in B : ~Dominates(L, M)}) >= limits.labels)
  PROVE  Entered(B, L) = {M \in B : ~Dominates(L, M)} \cup {L}
<1> DEFINE kept == {M \in B : ~Dominates(L, M)}
<1>1. IsFiniteSet(kept)
    BY FS_Subset
<1>2. Cardinality(kept) \in Nat
    BY <1>1, FS_CardinalityType
<1>3. Cardinality(kept \cup {L}) \in {Cardinality(kept), Cardinality(kept) + 1}
  <2> HIDE DEF kept
  <2> QED
      BY <1>1, FS_AddElement, Zenon
<1>4. ~(Cardinality(kept) >= limits.labels)
    OBVIOUS
<1> HIDE DEF kept
<1>5. Cardinality(kept \cup {L}) <= limits.labels
    BY <1>2, <1>3, <1>4
<1> QED
    BY <1>5 DEF Entered, kept

\* What one edge does to the labels.
Relaxed(e, t, L) ==
    LET bucket == {M \in labels : M.node = e[2]}
    IN  /\ todo' = todo \ {e}
        /\ IF Useless(bucket, t, L) THEN UNCHANGED <<labels, open, truncated>>
           ELSE /\ labels' = (labels \ bucket) \cup Entered(bucket, L)
                /\ open' = open \cup {L}
                /\ truncated' = truncated \cup (IF Cardinality({M \in bucket : ~Dominates(L, M)}) >= limits.labels
                                                THEN {e[2]} ELSE {})

\* What Relax does when no bucket was cut: the label is dropped for one that
\* dominates it, or replaces those it dominates.
LEMMA RelaxEffect ==
  ASSUME SearchInv, Relax, NEW K, KeepsOrder(K)', MovesFit', truncated' = {}
  PROVE  \E e \in todo :
            /\ todo' = todo \ {e}
            /\ \/ /\ labels' = labels /\ open' = open
                  /\ \E M \in labels : Dominates(M, Extended(current, e))
               \/ /\ labels' = {M \in labels : ~Dominates(Extended(current, e), M)} \cup {Extended(current, e)}
                  /\ open' = open \cup {Extended(current, e)}
                  /\ \A M \in labels : ~Dominates(M, Extended(current, e))
<1>1. /\ phase = "search" /\ UNCHANGED <<given, limits, edges>> /\ truncated \subseteq truncated' /\ current' = current
    BY DEF Relax
<1>2. KeepsOrder(K) /\ MovesFit /\ GraphTyped /\ Searched(K)
    BY <1>1, SearchStep
<1>3. PICK e \in todo : Relaxed(e, EdgeTax(e, current.keep), Extended(current, e))
  <2>1. (CHOOSE x \in todo : TRUE) \in todo
      BY DEF Relax
  <2>2. \E e \in {CHOOSE x \in todo : TRUE} : \E t \in {EdgeTax(e, current.keep)} : \E L \in {Extend(current, e, t)} :
           Relaxed(e, t, L)
      BY Zenon DEF Relax, Relaxed
  <2> QED
      BY <2>1, <2>2 DEF Extended
<1> DEFINE bucket == {M \in labels : M.node = e[2]}
           L == Extended(current, e)
           t == EdgeTax(e, current.keep)
           kept == {M \in bucket : ~Dominates(L, M)}
<1>4. /\ todo' = todo \ {e}
      /\ IF Useless(bucket, t, L) THEN UNCHANGED <<labels, open, truncated>>
         ELSE /\ labels' = (labels \ bucket) \cup Entered(bucket, L)
              /\ open' = open \cup {L}
              /\ truncated' = truncated \cup (IF Cardinality(kept) >= limits.labels THEN {e[2]} ELSE {})
    BY <1>3 DEF Relaxed
<1>5. L.node = e[2] /\ \A side \in Sides : ~(t[side] >= Whole)
  <2>1. e \in DOMAIN edges /\ e[1] = current.node /\ Len(current.chain) + 1 <= limits.hops /\ IsWalk(current, K)
      BY <1>2, <1>3 DEF Searched, IsLabel, Goes, Allowed
  <2> QED
      BY <1>2, <2>1, ExtendIsWalk, ExtendedParts
<1> HIDE DEF t, L
<1>7. CASE Useless(bucket, t, L)
  <2>1. \E M \in bucket : Dominates(M, L)
      BY <1>5, <1>7 DEF Useless
  <2> QED
      BY <1>4, <1>7, <2>1 DEF L
<1>8. CASE ~Useless(bucket, t, L)
  <2>1. \A M \in bucket : ~Dominates(M, L)
      BY <1>8 DEF Useless
  <2>2. \A M \in labels : M \notin bucket => ~Dominates(M, L) /\ ~Dominates(L, M)
      BY <1>5 DEF Dominates
  <2>3. ~(Cardinality(kept) >= limits.labels)
      BY <1>4, <1>8
  <2>4. IsFiniteSet(bucket)
      BY <1>2, FS_Subset DEF Searched
  <2>5. limits.labels \in Nat
      BY <1>2, LimitsTyped
  <2>6. Entered(bucket, L) = kept \cup {L}
    <3> HIDE DEF bucket
    <3> QED
        BY <2>3, <2>4, <2>5, EnteredWhole
  <2>7. labels' = {M \in labels : ~Dominates(L, M)} \cup {L}
      BY <1>4, <1>8, <2>2, <2>6
  <2> QED
      BY <1>4, <1>8, <2>1, <2>2, <2>7 DEF L
<1> QED
    BY <1>3, <1>7, <1>8

\* Relax: what was covered by a label that goes is covered by the one that
\* comes, and an antichain stays one.
LEMMA RelaxStep ==
  ASSUME SearchInv, Relax
  PROVE  SearchInv'
<1>0. /\ phase = "search" /\ phase' = "search" /\ current' = current
      /\ UNCHANGED <<given, limits, edges>> /\ truncated \subseteq truncated'
    BY DEF Relax
<1>1. EdgeNames' = EdgeNames
    BY <1>0 DEF EdgeNames
<1>2. Phased'
    BY <1>0, <1>1 DEF SearchInv, Phased
<1>3. ASSUME NEW K, KeepsOrder(K)', MovesFit', truncated' = {} PROVE Searched(K)'
  <2>1. /\ KeepsOrder(K) /\ MovesFit /\ GraphTyped /\ Searched(K)
        /\ \A L : IsLabel(L, K)' = IsLabel(L, K)
        /\ \A L, e : Extended(L, e)' = Extended(L, e) /\ Goes(L, e)' = Goes(L, e)
      BY <1>0, <1>3, SearchStep
  <2>2. PICK e \in todo :
            /\ todo' = todo \ {e}
            /\ \/ /\ labels' = labels /\ open' = open
                  /\ \E M \in labels : Dominates(M, Extended(current, e))
               \/ /\ labels' = {M \in labels : ~Dominates(Extended(current, e), M)} \cup {Extended(current, e)}
                  /\ open' = open \cup {Extended(current, e)}
                  /\ \A M \in labels : ~Dominates(M, Extended(current, e))
      BY <1>3, RelaxEffect
  <2> DEFINE X == Extended(current, e)
             CoveredThen(W) == \E M \in labels' : NoWorse(M, W)
  <2>3. /\ IsLabel(current, K) /\ e \in DOMAIN edges /\ Goes(current, e)
        /\ \A f \in todo : f \in DOMAIN edges /\ Goes(current, f)
      BY <2>1, <2>2 DEF Searched
  <2>4. IsLabel(X, K)
      BY <2>1, <2>3, ExtendIsLabel DEF Goes, Allowed
  <2>5. NoWorse(X, X)
      BY <2>1, <2>4, NoWorseReflexive DEF IsLabel
  <2> HIDE DEF X
  <2>6. \A L \in labels' : IsLabel(L, K)
      BY <2>1, <2>2, <2>4 DEF X, Searched
  \* What was covered stays covered: what leaves is dominated by what comes.
  <2>7. ASSUME NEW W, IsWalk(W, K), Covered(W) PROVE CoveredThen(W)
    <3>1. PICK M \in labels : NoWorse(M, W)
        BY <2>7 DEF Covered
    <3>2. CASE M \in labels'
        BY <3>1, <3>2
    <3>3. CASE M \notin labels'
      <4>1. X \in labels' /\ NoWorse(X, M)
          BY <2>2, <3>3, DominatesIsNoWorse DEF X
      <4>2. IsWalk(M, K) /\ IsWalk(X, K)
          BY <2>1, <2>4 DEF Searched, IsLabel
      <4>3. NoWorse(X, W)
          BY <2>1, <2>7, <3>1, <4>1, <4>2, NoWorseTransitive
      <4> QED
          BY <4>1, <4>3
    <3> QED
        BY <3>2, <3>3
  <2>8. CoveredThen(X)
    <3>1. CASE labels' = labels /\ \E M \in labels : Dominates(M, X)
        BY <3>1, DominatesIsNoWorse
    <3>2. CASE X \in labels'
        BY <2>5, <3>2
    <3> QED
        BY <2>2, <3>1, <3>2 DEF X
  <2>9. ASSUME NEW L \in labels' \ open', NEW f \in DOMAIN edges, Goes(L, f)
        PROVE  (L = current /\ f \in todo') \/ CoveredThen(Extended(L, f))
    <3>1. L \in labels \ open
        BY <2>2, <2>9
    <3>2. CASE L = current /\ f = e
        BY <2>8, <3>2 DEF X
    <3>3. CASE L = current /\ f \in todo /\ f # e
        BY <2>2, <3>3
    <3>4. CASE Covered(Extended(L, f))
      <4>1. IsWalk(L, K)
          BY <2>1, <3>1 DEF Searched, IsLabel
      <4>2. IsWalk(Extended(L, f), K)
          BY <2>1, <2>9, <4>1, ExtendIsWalk DEF Goes, Allowed
      <4> QED
          BY <2>1, <2>7, <3>4, <4>2
    <3> QED
        BY <2>1, <2>9, <3>1, <3>2, <3>3, <3>4 DEF Searched
  <2>10. CoveredThen(FirstLabel)
    <3>1. Covered(FirstLabel)
        BY <2>1 DEF Searched
    <3>2. IsWalk(FirstLabel, K)
      <4>1. <<>> \in Seq(DOMAIN edges) /\ Len(<<>>) = 0
          OBVIOUS
      <4> QED
          BY <2>1, <4>1, LimitsTyped DEF KeepsOrder, IsWalk, FirstLabel
    <3> QED
        BY <2>7, <3>1, <3>2
  <2>11. IsFiniteSet(labels')
    <3>1. IsFiniteSet(labels)
        BY <2>1 DEF Searched
    <3>2. CASE labels' = labels
        BY <3>1, <3>2
    <3>3. CASE labels' = {M \in labels : ~Dominates(X, M)} \cup {X}
      <4>1. IsFiniteSet({M \in labels : ~Dominates(X, M)})
          BY <3>1, FS_Subset
      <4> QED
          BY <3>3, <4>1, FS_AddElement
    <3> QED
        BY <2>2, <3>2, <3>3 DEF X
  <2>12. \A L, M \in labels' : Dominates(L, M) => L = M
    <3>1. \A L, M \in labels : Dominates(L, M) => L = M
        BY <2>1 DEF Searched
    <3> QED
        BY <2>2, <3>1 DEF X
  <2>13. \A f \in todo' : f \in DOMAIN edges /\ Goes(current, f)
      BY <2>2, <2>3
  <2>14. \A W : CoveredThen(W) => Covered(W)'
      BY DEF Covered
  <2> HIDE DEF CoveredThen
  <2> QED
      BY <1>0, <2>1, <2>3, <2>6, <2>9, <2>10, <2>11, <2>12, <2>13, <2>14 DEF Searched
<1> QED
    BY <1>0, <1>2, <1>3 DEF SearchInv

\* Finish: nothing waits, so nothing is left to extend.
LEMMA FinishStep ==
  ASSUME SearchInv, Finish
  PROVE  SearchInv'
<1>0. /\ phase = "search" /\ phase' = "found" /\ todo = {} /\ open \cap labels = {}
      /\ UNCHANGED <<given, limits, edges, labels, open, current, todo, truncated>>
    BY DEF Finish
<1>1. EdgeNames' = EdgeNames
    BY <1>0 DEF EdgeNames
<1>2. Phased'
    BY <1>0, <1>1 DEF SearchInv, Phased
<1>3. ASSUME NEW K, KeepsOrder(K)', MovesFit', truncated' = {} PROVE Searched(K)'
  <2>1. /\ Searched(K) /\ \A L : IsLabel(L, K)' = IsLabel(L, K)
        /\ \A L, e : Extended(L, e)' = Extended(L, e) /\ Goes(L, e)' = Goes(L, e)
      BY <1>0, <1>3, SearchStep
  <2>2. \A W : Covered(W)' = Covered(W)
      BY <1>0 DEF Covered
  <2> QED
      BY <1>0, <2>1, <2>2 DEF Searched
<1> QED
    BY <1>0, <1>2, <1>3 DEF SearchInv

\* Every step keeps the invariant.
LEMMA StepSearches ==
  ASSUME SearchInv, [Next]_vars
  PROVE  SearchInv'
<1>1. CASE Products
    BY <1>1 DEF Products, SearchInv, Phased
<1>2. CASE Settle
    BY <1>2 DEF Settle, SearchInv, Phased
<1>3. CASE UNCHANGED vars
  <2>1. UNCHANGED <<phase, given, limits, edges, labels, open, current, todo, truncated>>
      BY <1>3 DEF vars
  <2>2. EdgeNames' = EdgeNames
      BY <2>1 DEF EdgeNames
  <2>3. \A K : KeepsOrder(K)' => KeepsOrder(K)
      BY <2>1, GraphKept
  <2>4. MovesFit' = MovesFit /\ \A L, e : Extended(L, e)' = Extended(L, e) /\ Goes(L, e)' = Goes(L, e)
      BY <2>1, GraphKept
  <2>5. \A W : Covered(W)' = Covered(W)
      BY <2>1 DEF Covered
  <2>6. \A L, K : IsLabel(L, K)' = IsLabel(L, K)
      BY <2>1 DEF IsLabel, IsWalk
  <2>7. \A K : Searched(K)' = Searched(K)
      BY <2>1, <2>4, <2>5, <2>6 DEF Searched
  <2> QED
      BY <2>1, <2>2, <2>3, <2>4, <2>7 DEF SearchInv, Phased
<1> QED
    BY <1>1, <1>2, <1>3, BuildStep, PopStep, RelaxStep, FinishStep DEF Next

----------------------------------------------------------------------------
(***************************************************************************)
(* Walks.  The function that collects them by their length is one: a least *)
(* length up to which there is none would follow one up to which there is. *)
(***************************************************************************)
Onwards(S) == UNION {{Extend(L, e, EdgeTax(e, L.keep)) : e \in {x \in DOMAIN edges : x[1] = L.node /\ Allowed(L, x)}} : L \in S}
Collects(f, m) == f = [n \in 0 .. m |-> IF n = 0 THEN {FirstLabel} ELSE Onwards(f[n - 1])]

\* The walks can be collected up to any length: at the least length where they
\* could not, those of one hop fewer would be extended.
LEMMA CollectsExists ==
  ASSUME NEW m \in Nat
  PROVE  \E f : Collects(f, m)
<1> DEFINE T == {k \in Nat : ~\E f : Collects(f, k)}
<1> SUFFICES ASSUME T # {}
             PROVE  FALSE
    OBVIOUS
<1>1. PICK k \in T : \A n \in T : k <= n
  <2> HIDE DEF T
  <2>1. T \in SUBSET Nat
      BY DEF T
  <2> QED
      BY <2>1, LeastNatural
<1>2. k # 0
  <2> SUFFICES ASSUME k = 0
               PROVE  FALSE
      OBVIOUS
  <2> DEFINE f == [n \in 0 .. 0 |-> {FirstLabel}]
  <2>1. f = [n \in 0 .. 0 |-> IF n = 0 THEN {FirstLabel} ELSE Onwards(f[n - 1])]
      OBVIOUS
  <2> HIDE DEF f
  <2>2. Collects(f, 0)
      BY <2>1 DEF Collects
  <2> QED
      BY <2>2
<1>3. k - 1 \in Nat /\ k - 1 \notin T
    BY <1>1, <1>2
<1>4. PICK g : Collects(g, k - 1)
    BY <1>3
<1> DEFINE f == [n \in 0 .. k |-> IF n = k THEN Onwards(g[k - 1]) ELSE g[n]]
<1>5. \A n \in 0 .. k - 1 : g[n] = IF n = 0 THEN {FirstLabel} ELSE Onwards(g[n - 1])
    BY <1>4, Zenon DEF Collects
<1>6. \A n \in 0 .. k : f[n] = IF n = 0 THEN {FirstLabel} ELSE Onwards(f[n - 1])
  <2> SUFFICES ASSUME NEW n \in 0 .. k
               PROVE  f[n] = IF n = 0 THEN {FirstLabel} ELSE Onwards(f[n - 1])
      OBVIOUS
  <2>1. CASE n = k
    <3>1. f[n] = Onwards(g[k - 1]) /\ f[n - 1] = g[k - 1]
        BY <1>2, <1>3, <2>1
    <3> QED
        BY <1>2, <2>1, <3>1
  <2>2. CASE n # k
    <3>1. n \in 0 .. k - 1 /\ f[n] = g[n]
        BY <1>3, <2>2
    <3>2. n # 0 => f[n - 1] = g[n - 1]
        BY <1>3, <2>2
    <3> QED
        BY <1>5, <3>1, <3>2
  <2> QED
      BY <2>1, <2>2
<1>7. Collects(f, k)
  <2>1. f = [n \in 0 .. k |-> f[n]]
      OBVIOUS
  <2> HIDE DEF f
  <2>2. [n \in 0 .. k |-> f[n]] = [n \in 0 .. k |-> IF n = 0 THEN {FirstLabel} ELSE Onwards(f[n - 1])]
      BY <1>6
  <2> QED
      BY <2>1, <2>2, Zenon DEF Collects
<1> QED
    BY <1>1, <1>7

\* The recursion of the walks has a solution, so it holds of WalksAfter.
LEMMA WalksAre ==
  ASSUME limits.hops \in Nat, NEW n \in 0 .. limits.hops
  PROVE  WalksAfter[n] = IF n = 0 THEN {FirstLabel} ELSE Onwards(WalksAfter[n - 1])
<1>1. \E f : Collects(f, limits.hops)
    BY CollectsExists
<1>2. WalksAfter = CHOOSE f : Collects(f, limits.hops)
    BY Zenon DEF WalksAfter, Collects, Onwards
<1>3. Collects(WalksAfter, limits.hops)
    BY <1>1, <1>2, Zenon
<1> QED
    BY <1>3, Zenon DEF Collects

\* Every walk is covered when the search is over.
LEMMA WalksCovered ==
  ASSUME GraphTyped, MovesFit, NEW K, KeepsOrder(K), Searched(K), todo = {}, open \cap labels = {},
         NEW n \in 0 .. limits.hops, NEW W \in WalksAfter[n]
  PROVE  IsWalk(W, K) /\ Covered(W)
<1> DEFINE Fine(V, k) == IsWalk(V, K) /\ Len(V.chain) = k /\ Covered(V)
           T == {k \in 0 .. limits.hops : ~\A V \in WalksAfter[k] : Fine(V, k)}
<1>0. limits.hops \in Nat
    BY LimitsTyped
<1>1. T = {}
  <2> SUFFICES ASSUME T # {}
               PROVE  FALSE
      OBVIOUS
  <2>1. PICK k \in T : \A i \in T : k <= i
    <3>1. T \in SUBSET Nat
        BY <1>0
    <3> HIDE DEF T
    <3> QED
        BY <3>1, LeastNatural
  <2>2. PICK V \in WalksAfter[k] : ~Fine(V, k)
      BY <2>1
  <2>3. k \in 0 .. limits.hops
      OBVIOUS
  <2>4. CASE k = 0
    <3>1. V = FirstLabel
        BY <1>0, <2>2, <2>4, WalksAre
    <3>2. Covered(FirstLabel)
        BY DEF Searched
    <3>3. <<>> \in Seq(DOMAIN edges) /\ Len(<<>>) = 0
        OBVIOUS
    <3>4. IsWalk(FirstLabel, K) /\ Len(FirstLabel.chain) = 0
        BY <1>0, <3>3 DEF KeepsOrder, IsWalk, FirstLabel
    <3> QED
        BY <2>2, <2>4, <3>1, <3>2, <3>4
  <2>5. CASE k # 0
    <3>1. k - 1 \in 0 .. limits.hops /\ k - 1 \notin T
        BY <1>0, <2>1, <2>3, <2>5
    <3>2. V \in Onwards(WalksAfter[k - 1])
        BY <1>0, <2>2, <2>3, <2>5, WalksAre
    <3>3. PICK U \in WalksAfter[k - 1], e \in DOMAIN edges : Goes(U, e) /\ V = Extended(U, e)
        BY <3>2 DEF Onwards, Goes, Extended
    <3>4. IsWalk(U, K) /\ Len(U.chain) = k - 1 /\ Covered(U)
        BY <3>1
    <3>5. e[1] = U.node /\ Len(U.chain) + 1 <= limits.hops
        BY <3>3 DEF Goes, Allowed
    <3>6. IsWalk(V, K) /\ Len(V.chain) = k
      <4>1. IsWalk(V, K) /\ Len(V.chain) = Len(U.chain) + 1
          BY <3>3, <3>4, <3>5, ExtendIsWalk
      <4> QED
          BY <2>3, <3>4, <4>1
    <3>7. PICK L \in labels : NoWorse(L, U)
        BY <3>4 DEF Covered
    <3>8. IsLabel(L, K) /\ IsWalk(L, K)
        BY <3>7 DEF Searched, IsLabel
    <3>9. e[1] = L.node /\ Len(L.chain) + 1 <= limits.hops
      <4>1. Len(L.chain) \in Nat /\ Len(U.chain) \in Nat /\ Len(L.chain) <= Len(U.chain) /\ L.node = U.node
          BY <3>4, <3>7, <3>8 DEF IsWalk, NoWorse
      <4> QED
          BY <1>0, <3>5, <4>1
    <3>10. Goes(L, e) /\ IsWalk(Extended(L, e), K)
        BY <3>8, <3>9, ExtendIsLabel, ExtendIsWalk
    <3>11. Covered(Extended(L, e))
        BY <3>7, <3>10 DEF Searched
    <3>12. PICK M \in labels : NoWorse(M, Extended(L, e))
        BY <3>11 DEF Covered
    <3>13. NoWorse(Extended(L, e), V)
        BY <3>3, <3>4, <3>5, <3>7, <3>8, ExtendKeepsNoWorse
    <3>14. IsWalk(M, K)
        BY <3>12 DEF Searched, IsLabel
    <3>15. NoWorse(M, V)
        BY <3>6, <3>10, <3>12, <3>13, <3>14, NoWorseTransitive
    <3> QED
        BY <2>2, <3>6, <3>12, <3>15 DEF Covered
  <2> QED
      BY <2>4, <2>5
<1> QED
    BY <1>1

\* The inductive invariant of the search.
THEOREM SearchSound == Spec => []SearchInv
<1>1. SearchInv /\ [Next]_vars => SearchInv'
    BY StepSearches
<1> QED
    BY InitPhased, <1>1, PTL DEF Spec

\* The search is exact wherever the taxes keep the order of the amounts, on
\* any graph, for any limits, and in whatever order labels are extended.
THEOREM SearchIsExact == Spec => [](OrderKept => FrontierExact)
<1>1. SearchInv => (OrderKept => FrontierExact)
  <2> SUFFICES ASSUME SearchInv, NEW K, KeepsOrder(K), phase = "found", truncated = {}, MovesFit,
                      NEW W \in Walks, W.node \in Destinations
               PROVE  /\ \E L \in Frontier : NoWorse(L, W)
                      /\ \A L \in Frontier : NoWorse(W, L) => NoWorse(L, W)
      BY DEF FrontierExact, OrderKept
  <2>1. Searched(K) /\ GraphTyped /\ todo = {} /\ open \cap labels = {}
      BY DEF SearchInv, Phased, GraphTyped
  <2>2. PICK n \in 1 .. limits.hops : W \in WalksAfter[n]
      BY DEF Walks
  <2>3. n \in 0 .. limits.hops
      BY <2>1, LimitsTyped
  <2>4. IsWalk(W, K) /\ Covered(W)
      BY <2>1, <2>2, <2>3, WalksCovered
  <2>5. PICK M \in labels : NoWorse(M, W)
      BY <2>4 DEF Covered
  <2>6. M \in Frontier /\ IsWalk(M, K)
      BY <2>1, <2>5 DEF Frontier, NoWorse, Searched, IsLabel
  <2>7. ASSUME NEW L \in Frontier, NoWorse(W, L) PROVE NoWorse(L, W)
    <3>1. L \in labels /\ IsWalk(L, K)
        BY <2>1 DEF Frontier, Searched, IsLabel
    <3>2. NoWorse(M, L)
        BY <2>4, <2>5, <2>6, <2>7, <3>1, NoWorseTransitive
    <3>3. M = L
        BY <2>1, <3>1, <3>2, DominatesIsNoWorse DEF Searched
    <3> QED
        BY <2>5, <3>3
  <2> QED
      BY <2>5, <2>6, <2>7
<1> QED
    BY <1>1, SearchSound, PTL

----------------------------------------------------------------------------
(***************************************************************************)
(* Taxes at a fixed rate keep the order: where no tax of the graph depends *)
(* on the amount, nothing is left to suppose.                              *)
(***************************************************************************)
LEMMA NetKeepsOrder ==
  ASSUME NEW a \in Int, NEW b \in Int, NEW t \in Int, a >= b, t < Whole
  PROVE  Net(a, t) \in Int /\ Net(a, t) >= Net(b, t)
<1>1. Whole - t \in Nat
    BY DEF Whole
<1>2. (Whole - t) * b <= (Whole - t) * a
    BY <1>1, TimesOrder
<1> DEFINE p == a * (Whole - t)
           q == b * (Whole - t)
<1>3. p \in Int /\ q \in Int
    BY <1>1
<1>4. q <= p
    BY <1>1, <1>2
<1>5. Net(a, t) = p \div Whole /\ Net(b, t) = q \div Whole
    BY DEF Net, Share
<1> HIDE DEF p, q
<1> QED
    BY <1>3, <1>4, <1>5 DEF Whole

FlatTaxes == \A e \in DOMAIN edges : ~edges[e].byAmount /\ edges[e].t \in [Sides -> Int]

\* build_graph leaves out a hop that takes everything.
NoneLost == phase \in {"search", "found"} => \A e \in DOMAIN edges : \A side \in Sides : edges[e].t[side] < Whole

\* All integer amounts, at every node, are a set of amounts that will do.
LEMMA FlatKeepsOrder ==
  ASSUME GraphTyped, FlatTaxes, \A e \in DOMAIN edges : \A side \in Sides : edges[e].t[side] < Whole
  PROVE  OrderKept
<1> DEFINE K == {Arrival(n, v, keep) : n \in 0 .. limits.hops, v \in Nodes \cup {Source}, keep \in [Sides -> Int]}
<1>0. limits.hops \in Nat
    BY LimitsTyped
<1>1. \A x \in K : x.hops \in 0 .. limits.hops /\ x.keep \in [Sides -> Int]
    BY DEF Arrival
<1>2. FirstLabel.keep \in [Sides -> Int]
    BY OptimizerAssumption DEF FirstLabel, Sides
<1>3. Arrival(0, Source, FirstLabel.keep) \in K
    BY <1>0, <1>2
<1>4. ASSUME NEW e \in DOMAIN edges, NEW x \in [Sides -> Int], NEW y \in [Sides -> Int]
      PROVE  /\ Delivered(e, x) \in [Sides -> Int]
             /\ AtLeast(x, y) => AtLeast(Delivered(e, x), Delivered(e, y))
             /\ \A side \in Sides : ~(EdgeTax(e, x)[side] >= Whole)
  <2> DEFINE t == edges[e].t
  <2>1. t \in [Sides -> Int] /\ \A side \in Sides : t[side] \in Int /\ t[side] < Whole
      BY DEF FlatTaxes
  <2>2. \A keep : EdgeTax(e, keep) = t
      BY Zenon DEF EdgeTax, FlatTaxes
  <2> HIDE DEF t
  <2>3. \A keep : Delivered(e, keep) = [floor |-> Net(keep["floor"], t["floor"]), ceiling |-> Net(keep["ceiling"], t["ceiling"])]
      BY <2>2 DEF Delivered, After
  <2>4. \A side \in Sides : Net(x[side], t[side]) \in Int /\ (x[side] >= y[side] => Net(x[side], t[side]) >= Net(y[side], t[side]))
    <3> SUFFICES ASSUME NEW side \in Sides
                 PROVE  Net(x[side], t[side]) \in Int /\ (x[side] >= y[side] => Net(x[side], t[side]) >= Net(y[side], t[side]))
        OBVIOUS
    <3>1. x[side] \in Int /\ y[side] \in Int /\ t[side] \in Int /\ t[side] < Whole /\ x[side] >= x[side]
        BY <2>1
    <3> QED
        BY <3>1, NetKeepsOrder
  <2>5. Delivered(e, x) \in [Sides -> Int]
      BY <2>3, <2>4 DEF Sides
  <2>6. AtLeast(x, y) => AtLeast(Delivered(e, x), Delivered(e, y))
      BY <2>3, <2>4 DEF AtLeast, Sides
  <2>7. \A side \in Sides : ~(t[side] >= Whole)
      BY <2>1 DEF Whole
  <2> QED
      BY <2>2, <2>5, <2>6, <2>7
<1>5. ASSUME NEW x \in K, NEW e \in DOMAIN edges, x.hops < limits.hops
      PROVE  Arrival(x.hops + 1, e[2], Delivered(e, x.keep)) \in K
  <2>1. x.hops + 1 \in 0 .. limits.hops
    <3> HIDE DEF K
    <3>1. x.hops \in 0 .. limits.hops
        BY <1>1
    <3> QED
        BY <1>0, <1>5, <3>1
  <2>2. e[2] \in Nodes
      BY EdgeTyped
  <2>3. Delivered(e, x.keep) \in [Sides -> Int]
      BY <1>1, <1>4
  <2> QED
      BY <2>1, <2>2, <2>3
<1> HIDE DEF K
<1> QED
    BY <1>1, <1>3, <1>4, <1>5 DEF KeepsOrder, OrderKept

\* No hop of the graph takes everything, whatever the rules (build_graph).
THEOREM NothingLost == Spec => []NoneLost
<1>1. Init => NoneLost
    BY DEF Init, NoneLost
<1>2. NoneLost /\ [Next]_vars => NoneLost'
  <2> SUFFICES ASSUME NoneLost, [Next]_vars
               PROVE  NoneLost'
      OBVIOUS
  <2>1. CASE Build
    <3>1. \A e \in DOMAIN Graph : \A side \in Sides : Graph[e].t[side] < Whole
        BY DEF Graph, GraphOf, NotLost
    <3> QED
        BY <2>1, <3>1 DEF Build, NoneLost
  <2>2. CASE phase = "search" /\ edges' = edges
      BY <2>2 DEF NoneLost
  <2>3. CASE UNCHANGED <<phase, edges>>
      BY <2>3 DEF NoneLost
  <2>4. CASE phase' \notin {"search", "found"}
      BY <2>4 DEF NoneLost
  <2> QED
      BY <2>1, <2>2, <2>3, <2>4 DEF Next, Pop, Relax, Finish, Products, Settle, vars
<1> QED
    BY <1>1, <1>2, PTL DEF Spec

\* Where every hop has a tax of its own, which does not depend on the amount,
\* the search is exact on any graph.
THEOREM FlatSearchIsExact == Spec => [](FlatTaxes => FrontierExact)
<1>1. SearchInv /\ NoneLost /\ FlatTaxes /\ phase = "found" => OrderKept
  <2> SUFFICES ASSUME SearchInv, NoneLost, FlatTaxes, phase = "found"
               PROVE  OrderKept
      OBVIOUS
  <2>1. GraphTyped /\ \A e \in DOMAIN edges : \A side \in Sides : edges[e].t[side] < Whole
      BY DEF SearchInv, Phased, GraphTyped, NoneLost
  <2> QED
      BY <2>1, FlatKeepsOrder
<1>2. phase # "found" => FrontierExact
    BY DEF FrontierExact
<1>3. SearchInv /\ NoneLost /\ (OrderKept => FrontierExact)
        => (FlatTaxes => FrontierExact)
    BY <1>1, <1>2
<1> QED
    BY <1>3, SearchSound, NothingLost, SearchIsExact, PTL

----------------------------------------------------------------------------
(***************************************************************************)
(* Conditions.  g settles f when it says of everything f knows the same;   *)
(* a reading that is unknown names what is missing.                        *)
(***************************************************************************)
Readings(f) == \A k \in DOMAIN f : f[k].s = "V" \/ (f[k].s = "U" /\ f[k].n # {})
Settles(g, f, mode) == \A k : Read(f, mode, k).s = "V" => Read(g, mode, k) = Read(f, mode, k)

\* A verdict in three values that other facts keep, and that names what it lacks.
Stands(v, w) ==
    /\ v.s \in {"T", "F", "U"} /\ w.s \in {"T", "F", "U"}
    /\ v.s # "U" => w.s = v.s
    /\ v.s = "U" => v.n # {}

\* What is read of a fact is known, or names what is missing.
LEMMA ReadIs ==
  ASSUME NEW f, Readings(f), NEW mode, NEW k
  PROVE  Read(f, mode, k).s = "V" \/ (Read(f, mode, k).s = "U" /\ Read(f, mode, k).n # {})
BY DEF Read, Readings, Known, Unknown

\* One comparison of a fact.
LEMMA LiteralStands ==
  ASSUME NEW f, NEW g, Readings(f), Readings(g), NEW mode, Settles(g, f, mode), NEW l
  PROVE  Stands(Literal(f, mode, l), Literal(g, mode, l))
<1> DEFINE r == Read(f, mode, l.key)
           q == Read(g, mode, l.key)
<1>1. r.s = "V" \/ (r.s = "U" /\ r.n # {})
    BY ReadIs
<1>2. q.s = "V" \/ (q.s = "U" /\ q.n # {})
    BY ReadIs
<1>3. r.s = "V" => q = r
    BY DEF Settles
<1>4. Literal(f, mode, l) = CASE r.s = "U" -> Truth3("U", r.n)
                              [] r.s = "V" /\ r.v \in l.want -> Truth3("T", {})
                              [] r.s = "V" /\ r.v \notin l.want -> Truth3("F", {})
    BY DEF Literal
<1>5. Literal(g, mode, l) = CASE q.s = "U" -> Truth3("U", q.n)
                              [] q.s = "V" /\ q.v \in l.want -> Truth3("T", {})
                              [] q.s = "V" /\ q.v \notin l.want -> Truth3("F", {})
    BY DEF Literal
<1> HIDE DEF r, q
<1> QED
    BY <1>1, <1>2, <1>3, <1>4, <1>5 DEF Truth3, Stands

\* What holds of the parts holds of the clause they are the alternatives of,
\* and of the condition they have to hold together in.
AnyOf(v) == Or3({v[x] : x \in DOMAIN v})
AllOf(v) == And3({v[x] : x \in DOMAIN v})

LEMMA PartsStand ==
  ASSUME NEW S, NEW v, NEW w, DOMAIN v = S, DOMAIN w = S, \A x \in S : Stands(v[x], w[x])
  PROVE  Stands(AnyOf(v), AnyOf(w)) /\ Stands(AllOf(v), AllOf(w))
<1> DEFINE V == {v[x] : x \in S}
           W == {w[x] : x \in S}
<1>1. \A x \in S : v[x].s \in {"T", "F", "U"} /\ w[x].s \in {"T", "F", "U"} /\ (v[x].s # "U" => w[x].s = v[x].s)
    BY DEF Stands
<1>2. (\E x \in S : v[x].s = "U") => Needs(V) # {}
    BY DEF Needs, Stands
<1>3. Stands(Or3(V), Or3(W))
  <2>1. Or3(V).s = (CASE \E x \in S : v[x].s = "T" -> "T" [] \A x \in S : v[x].s = "F" -> "F" [] OTHER -> "U")
      BY DEF Or3, Truth3
  <2>2. Or3(W).s = (CASE \E x \in S : w[x].s = "T" -> "T" [] \A x \in S : w[x].s = "F" -> "F" [] OTHER -> "U")
      BY DEF Or3, Truth3
  <2>3. Or3(V).s = "U" => Or3(V).n = Needs(V)
      BY DEF Or3, Truth3
  <2> HIDE DEF V, W
  <2> QED
      BY <1>1, <1>2, <2>1, <2>2, <2>3 DEF Stands
<1>4. Stands(And3(V), And3(W))
  <2>1. And3(V).s = (CASE \E x \in S : v[x].s = "F" -> "F" [] \A x \in S : v[x].s = "T" -> "T" [] OTHER -> "U")
      BY DEF And3, Truth3
  <2>2. And3(W).s = (CASE \E x \in S : w[x].s = "F" -> "F" [] \A x \in S : w[x].s = "T" -> "T" [] OTHER -> "U")
      BY DEF And3, Truth3
  <2>3. And3(V).s = "U" => And3(V).n = Needs(V)
      BY DEF And3, Truth3
  <2> HIDE DEF V, W
  <2> QED
      BY <1>1, <1>2, <2>1, <2>2, <2>3 DEF Stands
<1>5. {v[x] : x \in DOMAIN v} = V /\ {w[x] : x \in DOMAIN w} = W
    OBVIOUS
<1>6. AnyOf(v) = Or3(V) /\ AnyOf(w) = Or3(W) /\ AllOf(v) = And3(V) /\ AllOf(w) = And3(W)
    BY <1>5 DEF AnyOf, AllOf
<1> HIDE DEF V, W
<1> QED
    BY <1>3, <1>4, <1>6

\* A verdict on a condition stands whatever is learned of what was missing,
\* and one that is open names something that is missing (Context.eval).
THEOREM VerdictsStand ==
  ASSUME NEW f, NEW g, Readings(f), Readings(g), NEW mode, Settles(g, f, mode), NEW cond
  PROVE  Stands(Holds(f, mode, cond), Holds(g, mode, cond))
<1> DEFINE literals(h, c) == [l \in c |-> Literal(h, mode, l)]
           clauses(h) == [c \in cond |-> AnyOf(literals(h, c))]
<1>1. ASSUME NEW c \in cond PROVE Stands(clauses(f)[c], clauses(g)[c])
  <2> DEFINE v == literals(f, c)
             w == literals(g, c)
  <2>1. DOMAIN v = c /\ DOMAIN w = c /\ \A l \in c : Stands(v[l], w[l])
      BY LiteralStands
  <2>2. clauses(f)[c] = AnyOf(v) /\ clauses(g)[c] = AnyOf(w)
      OBVIOUS
  <2> HIDE DEF literals, clauses, v, w
  <2> QED
      BY <2>1, <2>2, PartsStand
<1>2. ASSUME NEW h PROVE Holds(h, mode, cond) = AllOf(clauses(h))
  <2>1. \A c \in cond : clauses(h)[c] = Or3({Literal(h, mode, l) : l \in c})
    <3>1. ASSUME NEW c \in cond PROVE {literals(h, c)[l] : l \in DOMAIN literals(h, c)} = {Literal(h, mode, l) : l \in c}
        OBVIOUS
    <3> QED
        BY <3>1 DEF AnyOf
  <2>2. DOMAIN clauses(h) = cond
      OBVIOUS
  <2> HIDE DEF clauses
  <2>3. {clauses(h)[c] : c \in DOMAIN clauses(h)} = {Or3({Literal(h, mode, l) : l \in c}) : c \in cond}
      BY <2>1, <2>2
  <2> QED
      BY <2>3 DEF Holds, AllOf
<1>3. DOMAIN clauses(f) = cond /\ DOMAIN clauses(g) = cond
    OBVIOUS
<1> HIDE DEF clauses
<1> QED
    BY <1>1, <1>2, <1>3, PartsStand

\* The two sides of a cell close in on each other (eval_cell): when missing
\* facts are supplied no favourable rule comes to the floor and no unfavourable
\* one leaves it, the ceiling the other way round; a rule that moves the value
\* both ways comes to neither.
THEOREM SidesCloseIn ==
  ASSUME NEW f, NEW g, Readings(f), Readings(g), NEW mode, Settles(g, f, mode), NEW cell
  PROVE  LET was == [r \in cell |-> Holds(f, mode, r.cond)]
             is == [r \in cell |-> Holds(g, mode, r.cond)]
         IN  \A r \in cell :
                /\ Direction(r) # "unfav" => (r \in Taken(is, "floor") => r \in Taken(was, "floor"))
                /\ Direction(r) # "fav" => (r \in Taken(is, "ceiling") => r \in Taken(was, "ceiling"))
                /\ Direction(r) = "unfav" => (r \in Taken(was, "floor") => r \in Taken(is, "floor"))
                /\ Direction(r) = "fav" => (r \in Taken(was, "ceiling") => r \in Taken(is, "ceiling"))
<1> DEFINE was == [r \in cell |-> Holds(f, mode, r.cond)]
           is == [r \in cell |-> Holds(g, mode, r.cond)]
<1>1. ASSUME NEW r \in cell PROVE Stands(was[r], is[r])
    BY VerdictsStand
<1>2. DOMAIN was = cell /\ DOMAIN is = cell
    OBVIOUS
<1>3. \A r : Direction(r) \in {"both", "fav", "unfav"}
    BY DEF Direction
<1> HIDE DEF was, is
<1>4. ASSUME NEW r \in cell
      PROVE  /\ Direction(r) # "unfav" => (r \in Taken(is, "floor") => r \in Taken(was, "floor"))
             /\ Direction(r) # "fav" => (r \in Taken(is, "ceiling") => r \in Taken(was, "ceiling"))
             /\ Direction(r) = "unfav" => (r \in Taken(was, "floor") => r \in Taken(is, "floor"))
             /\ Direction(r) = "fav" => (r \in Taken(was, "ceiling") => r \in Taken(is, "ceiling"))
  <2>1. Stands(was[r], is[r])
      BY <1>1
  <2> QED
      BY <1>2, <1>3, <2>1 DEF Taken, Certain, Doubtful, Stands
<1> QED
    BY <1>4 DEF was, is
=============================================================================
