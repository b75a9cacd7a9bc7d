----------------------------- MODULE GateProofs -----------------------------
(***************************************************************************)
(* The two things the gate asks before it lets an order through: what the  *)
(* ceilings allow (ExecutionMode), for every number of extra constraints,  *)
(* and what the signal has been through (SignalLifecycle), for every set   *)
(* of signals, every set of event ids and every length of time.            *)
(***************************************************************************)
EXTENDS ExecutionMode, SignalLifecycle, TLAPS, SequenceTheorems

-----------------------------------------------------------------------------
(* ExecutionMode.                                                          *)

(* What the fold has established over the constraints it has passed. *)
FoldInv ==
  /\ stage \in {"fold", "resolved"} =>
       /\ Rank[effective] <= Rank[requested]
       /\ \A i \in 1..index : Rank[effective] <= Rank[constraints[i].ceiling]
       /\ \/ effective = requested
          \/ \E i \in 1..index : effective = constraints[i].ceiling
  /\ stage = "resolved" => index = Len(constraints)
  /\ stage \notin {"fold", "resolved"} => index = 0

(* What the gathering has established about the ceilings found so far. *)
GatherInv ==
  /\ stage # "account" => constraints # << >>
  /\ stage # "refused"

(* Every mode has one of four ranks. *)
LEMMA RankType == Rank \in [Modes -> 0..3]
BY DEF Rank, Modes

(* Stricter returns one of its arguments, and the lower one. *)
LEMMA StricterIsMin ==
  ASSUME NEW first \in Modes, NEW second \in Modes
  PROVE  /\ Stricter(first, second) \in {first, second}
         /\ Rank[Stricter(first, second)] <= Rank[first]
         /\ Rank[Stricter(first, second)] <= Rank[second]
BY RankType DEF Stricter

(* What a caller adds is a sequence of constraints. *)
LEMMA ExtraSeqsAreSeqs ==
  ASSUME NEW extra \in ExtraSeqs
  PROVE  extra \in Seq(Constraints)
BY MaxExtraAssumption DEF ExtraSeqs

(* The ceiling a settings row contributes is a mode. *)
LEMMA CeilingType ==
  ASSUME NEW s \in Seq(Constraints), NEW i \in 1..Len(s)
  PROVE  s[i].ceiling \in Modes
<1>1. s[i] \in Constraints
  BY ElementOfSeq
<1>2. QED
  BY <1>1 DEF Constraints

(* No step of the gathering drops a ceiling. *)
LEMMA GatherKeeps ==
  ASSUME ModeTypeOK,
         NEW from, NEW to, NEW applies,
         NEW source \in Sources, NEW ceiling \in Modes,
         Gather(from, to, applies, source, ceiling),
         applies \/ constraints # << >>
  PROVE  constraints' # << >>
<1> DEFINE found == Constraint(source, ceiling)
<1>1. found \in Constraints
  BY DEF Constraint, Constraints
<1>2. Len(Append(constraints, found)) # 0
  BY <1>1 DEF ModeTypeOK
<1>3. QED
  BY <1>2 DEF Gather

(* Every step of the gathering keeps the state well typed. *)
LEMMA GatherType ==
  ASSUME ModeTypeOK,
         NEW from, NEW to \in Stages, NEW applies,
         NEW source \in Sources, NEW ceiling \in Modes,
         Gather(from, to, applies, source, ceiling)
  PROVE  ModeTypeOK'
<1>1. Constraint(source, ceiling) \in Constraints
  BY DEF Constraint, Constraints
<1>2. /\ constraints' \in Seq(Constraints)
      /\ Len(constraints') >= Len(constraints)
  BY <1>1 DEF Gather, ModeTypeOK
<1>3. QED
  BY <1>2 DEF Gather, ModeTypeOK

(* Every step of the resolver keeps the types. *)
LEMMA TypeStep == ModeTypeOK /\ [ModeNext]_modeVars => ModeTypeOK'
<1> SUFFICES ASSUME ModeTypeOK, [ModeNext]_modeVars PROVE ModeTypeOK'
  OBVIOUS
<1>1. CASE GatherAccount
  <2>1. context.account \in Modes
    BY DEF ModeTypeOK, Contexts
  <2>2. QED
    BY <1>1, <2>1, GatherType DEF GatherAccount, Stages, Sources
<1>2. CASE GatherSettings
  <2> DEFINE ceiling == IF context.settings = "none" THEN "disabled"
                                                     ELSE context.settings
  <2>1. ceiling \in Modes
    BY DEF ModeTypeOK, Contexts, Modes
  <2>2. QED
    BY <1>2, <2>1, GatherType DEF GatherSettings, Stages, Sources
<1>3. CASE GatherPromotion
  BY <1>3, GatherType DEF GatherPromotion, Stages, Sources, Modes
<1>4. CASE GatherFunded
  BY <1>4, GatherType DEF GatherFunded, Stages, Sources, Modes
<1>5. CASE GatherRisk
  BY <1>5, GatherType DEF GatherRisk, Stages, Sources, Modes
<1>6. CASE GatherExtra
  <2>1. PICK extra \in ExtraSeqs : constraints' = constraints \o extra
    BY <1>6 DEF GatherExtra
  <2>2. /\ constraints' \in Seq(Constraints)
        /\ Len(constraints') >= Len(constraints)
    BY <2>1, ExtraSeqsAreSeqs DEF ModeTypeOK
  <2>3. QED
    BY <1>6, <2>2 DEF GatherExtra, ModeTypeOK, Stages
<1>7. CASE Resolve
  BY <1>7 DEF Resolve, ModeTypeOK, Stages
<1>8. CASE Fold
  <2>1. constraints[index + 1].ceiling \in Modes
    BY <1>8, CeilingType DEF Fold, ModeTypeOK
  <2>2. QED
    BY <1>8, <2>1, StricterIsMin DEF Fold, ModeTypeOK
<1>9. CASE Explain
  BY <1>9 DEF Explain, BindingPositions, ModeTypeOK, Stages
<1>10. CASE UNCHANGED modeVars
  BY <1>10 DEF modeVars, ModeTypeOK
<1>11. QED
  BY <1>1, <1>2, <1>3, <1>4, <1>5, <1>6, <1>7, <1>8, <1>9, <1>10 DEF ModeNext

(* Type correctness of the gathering and of the fold (modes.py:148-186). *)
THEOREM ModeTypeCorrect == ModeSpec => []ModeTypeOK
<1>1. ModeInit => ModeTypeOK
  BY DEF ModeInit, ModeTypeOK, Contexts, Stages
<1>2. QED
  BY <1>1, TypeStep, PTL DEF ModeSpec

(* Every step keeps the loop invariant of the fold. *)
LEMMA FoldStep == ModeTypeOK /\ FoldInv /\ [ModeNext]_modeVars => FoldInv'
<1> SUFFICES ASSUME ModeTypeOK, FoldInv, [ModeNext]_modeVars PROVE FoldInv'
  OBVIOUS
<1>1. CASE \/ GatherAccount \/ GatherSettings \/ GatherPromotion
           \/ GatherFunded \/ GatherRisk \/ GatherExtra
  BY <1>1 DEF GatherAccount, GatherSettings, GatherPromotion, GatherFunded,
              GatherRisk, GatherExtra, Gather, FoldInv
<1>2. CASE Resolve
  BY <1>2, RankType DEF Resolve, FoldInv, ModeTypeOK
<1>3. CASE Fold
  <2> DEFINE c == constraints[index + 1].ceiling
  <2>1. c \in Modes /\ effective \in Modes /\ requested \in Modes
    BY <1>3, CeilingType DEF Fold, ModeTypeOK
  <2>2. /\ effective' \in {effective, c}
        /\ Rank[effective'] <= Rank[effective]
        /\ Rank[effective'] <= Rank[c]
    BY <1>3, <2>1, StricterIsMin DEF Fold
  <2>3. \A i \in 1..Len(constraints) : Rank[constraints[i].ceiling] \in 0..3
    BY RankType, CeilingType DEF ModeTypeOK
  <2>4. /\ Rank[effective] \in 0..3 /\ Rank[requested] \in 0..3
        /\ Rank[effective'] \in 0..3
    BY <2>1, <2>2, RankType
  <2>5. index \in Nat /\ index + 1 \in 1..Len(constraints) /\ index' = index + 1
    BY <1>3 DEF Fold, ModeTypeOK
  <2>6. Rank[effective'] <= Rank[requested]
    BY <1>3, <2>2, <2>4 DEF Fold, FoldInv
  <2>7. \A i \in 1..index' : Rank[effective'] <= Rank[constraints'[i].ceiling]
    <3> SUFFICES ASSUME NEW i \in 1..(index + 1)
                 PROVE  Rank[effective'] <= Rank[constraints[i].ceiling]
      BY <1>3, <2>5 DEF Fold
    <3>1. CASE i = index + 1
      BY <3>1, <2>2
    <3>2. CASE i \in 1..index
      <4>1. Rank[effective] <= Rank[constraints[i].ceiling]
        BY <1>3, <3>2 DEF Fold, FoldInv
      <4>2. i \in 1..Len(constraints)
        BY <2>5
      <4>3. QED
        BY <4>1, <4>2, <2>2, <2>3, <2>4
    <3>3. QED
      BY <3>1, <3>2, <2>5
  <2>8. \/ effective' = requested'
        \/ \E i \in 1..index' : effective' = constraints'[i].ceiling
    <3>1. CASE effective' = c
      BY <1>3, <3>1, <2>5 DEF Fold
    <3>2. CASE effective' = effective
      BY <1>3, <3>2, <2>5 DEF Fold, FoldInv
    <3>3. QED
      BY <3>1, <3>2, <2>2
  <2>9. QED
    BY <1>3, <2>6, <2>7, <2>8 DEF Fold, FoldInv
<1>4. CASE Explain
  BY <1>4 DEF Explain, FoldInv
<1>5. CASE UNCHANGED modeVars
  BY <1>5 DEF modeVars, FoldInv
<1>6. QED
  BY <1>1, <1>2, <1>3, <1>4, <1>5 DEF ModeNext

(* resolve_execution_mode returns the strictest of the request and every      *)
(* ceiling, however many constraints the caller adds.                         *)
THEOREM ResolverIsStrictest == ModeSpec => []StrictestWins
<1>1. ModeInit => FoldInv
  BY DEF ModeInit, FoldInv
<1>2. FoldInv => StrictestWins
  BY DEF FoldInv, StrictestWins
<1>3. QED
  BY <1>1, <1>2, FoldStep, ModeTypeCorrect, PTL DEF ModeSpec

(* The account contributes the first ceiling and nothing ever removes one, so *)
(* the resolver's refusal of an empty set is never met through the gate.      *)
THEOREM GateNeverUnchecked == ModeSpec => []NeverUnchecked
<1>1. ModeInit => GatherInv
  BY DEF ModeInit, GatherInv
<1>2. ModeTypeOK /\ GatherInv /\ [ModeNext]_modeVars => GatherInv'
  <2> SUFFICES ASSUME ModeTypeOK, GatherInv, [ModeNext]_modeVars PROVE GatherInv'
    OBVIOUS
  <2>2. CASE GatherAccount
    <3>1. context.account \in Modes
      BY DEF ModeTypeOK, Contexts
    <3>2. constraints' # << >>
      BY <2>2, <3>1, GatherKeeps DEF GatherAccount, Sources
    <3>3. QED
      BY <2>2, <3>2 DEF GatherAccount, Gather, GatherInv
  <2>3. CASE \/ GatherSettings \/ GatherPromotion \/ GatherFunded \/ GatherRisk
    <3> DEFINE ceiling == IF context.settings = "none" THEN "disabled"
                                                       ELSE context.settings
    <3>1. ceiling \in Modes /\ "signal_only" \in Modes
      BY DEF ModeTypeOK, Contexts, Modes
    <3>2. constraints # << >> /\ stage' \notin {"account", "refused"}
      BY <2>3 DEF GatherInv, GatherSettings, GatherPromotion, GatherFunded,
                  GatherRisk, Gather
    <3>3. constraints' # << >>
      BY <2>3, <3>1, <3>2, GatherKeeps
         DEF GatherSettings, GatherPromotion, GatherFunded, GatherRisk, Sources
    <3>4. QED
      BY <3>2, <3>3 DEF GatherInv
  <2>4. CASE GatherExtra
    <3>1. PICK extra \in ExtraSeqs : constraints' = constraints \o extra
      BY <2>4 DEF GatherExtra
    <3>2. constraints # << >> /\ stage' = "resolve"
      BY <2>4 DEF GatherExtra, GatherInv
    <3>3. Len(constraints') # 0
      BY <3>1, <3>2, ExtraSeqsAreSeqs, EmptySeq DEF ModeTypeOK
    <3>4. QED
      BY <3>2, <3>3 DEF GatherInv
  <2>5. CASE Resolve
    BY <2>5 DEF Resolve, GatherInv
  <2>6. CASE Fold
    BY <2>6 DEF Fold, GatherInv
  <2>7. CASE Explain
    BY <2>7 DEF Explain, GatherInv
  <2>8. CASE UNCHANGED modeVars
    BY <2>8 DEF modeVars, GatherInv
  <2>9. QED
    BY <2>2, <2>3, <2>4, <2>5, <2>6, <2>7, <2>8 DEF ModeNext
<1>3. GatherInv => NeverUnchecked
  BY DEF GatherInv, NeverUnchecked
<1>4. QED
  BY <1>1, <1>2, <1>3, ModeTypeCorrect, PTL DEF ModeSpec

(* The ceilings of different modes have different ranks. *)
LEMMA RankOrders == \A first, second \in Modes : Rank[first] = Rank[second] => first = second
BY DEF Rank, Modes

(* Once the decision stands, the blame is what BindingPositions finds. *)
BlameInv == stage = "resolved" => binding = BindingPositions

(* A downgrade names the constraint that caused it and nothing else is named: *)
(* the strictest mode is one of the ceilings or the request itself.           *)
THEOREM DowngradeIsExplainedHolds == ModeSpec => []DowngradeIsExplained
<1>1. ModeInit => BlameInv /\ FoldInv
  BY DEF ModeInit, BlameInv, FoldInv
<1>2. BlameInv /\ [ModeNext]_modeVars => BlameInv'
  BY DEF BlameInv, ModeNext, GatherAccount, GatherSettings, GatherPromotion, GatherFunded,
         GatherRisk, Gather, GatherExtra, Resolve, Fold, Explain, BindingPositions, modeVars
<1>3. ModeTypeOK /\ FoldInv /\ BlameInv => DowngradeIsExplained
  <2> SUFFICES ASSUME ModeTypeOK, FoldInv, BlameInv, stage = "resolved"
               PROVE  WasDowngraded <=> binding # {}
    BY DEF DowngradeIsExplained
  <2>1. /\ effective \in Modes /\ requested \in Modes
        /\ Rank[effective] \in 0..3 /\ Rank[requested] \in 0..3
    BY RankType DEF ModeTypeOK
  <2>2. /\ binding = BindingPositions
        /\ index = Len(constraints)
        /\ DOMAIN constraints = 1..Len(constraints)
    BY DEF BlameInv, FoldInv, ModeTypeOK
  <2>3. ASSUME WasDowngraded PROVE binding # {}
    <3>1. effective # requested
      BY <2>1, <2>3 DEF WasDowngraded
    <3>2. PICK i \in 1..Len(constraints) : effective = constraints[i].ceiling
      BY <2>2, <3>1 DEF FoldInv
    <3>. QED
      BY <2>2, <2>3, <3>2 DEF WasDowngraded, BindingPositions
  <2>4. ASSUME binding # {} PROVE WasDowngraded
    BY <2>2, <2>4 DEF WasDowngraded, BindingPositions
  <2>. QED
    BY <2>3, <2>4
<1>. QED
  BY <1>1, <1>2, <1>3, FoldStep, ModeTypeCorrect, PTL DEF ModeSpec

(* Some gathered ceiling is `mode`. *)
Met(mode) == \E i \in 1..Len(constraints) : constraints[i].ceiling = mode

(* Every source the gathering has passed and that forbids something has put   *)
(* its ceiling among the constraints.                                         *)
CeilingsInv ==
  /\ stage # "account" => Met(context.account)
  /\ stage \notin {"account", "settings"} /\ context.settings # "none" =>
       Met(context.settings)
  /\ stage \notin {"account", "settings", "promotion"} /\ context.promotion = "below_paper" =>
       Met("signal_only")
  /\ stage \notin {"account", "settings", "promotion", "funded"}
       /\ context.funded = "breached" => Met("signal_only")
  /\ stage \notin {"account", "settings", "promotion", "funded", "risk"}
       /\ context.riskBreach => Met("signal_only")

(* A step of the gathering keeps every ceiling, and adds the one that applies. *)
LEMMA GatherMeets ==
  ASSUME ModeTypeOK, NEW from, NEW to, NEW applies, NEW source \in Sources,
         NEW ceiling \in Modes, Gather(from, to, applies, source, ceiling)
  PROVE  /\ \A mode : Met(mode) => Met(mode)'
         /\ applies => Met(ceiling)'
<1> DEFINE found == Constraint(source, ceiling)
<1>1. found \in Constraints /\ found.ceiling = ceiling
  BY DEF Constraint, Constraints
<1>2. CASE applies
  <2>1. constraints' = Append(constraints, found)
    BY <1>2 DEF Gather
  <2> HIDE DEF found
  <2>2. /\ Len(constraints') = Len(constraints) + 1
        /\ constraints'[Len(constraints) + 1] = found
        /\ \A i \in 1..Len(constraints) : constraints'[i] = constraints[i]
        /\ Len(constraints) \in Nat
    BY <1>1, <2>1 DEF ModeTypeOK
  <2>3. /\ Len(constraints) + 1 \in 1..Len(constraints')
        /\ \A i \in 1..Len(constraints) : i \in 1..Len(constraints')
    BY <2>2
  <2>. QED
    BY <1>1, <2>2, <2>3 DEF Met
<1>3. CASE ~applies
  BY <1>3 DEF Gather, Met
<1>. QED
  BY <1>2, <1>3

(* Every step keeps the ceilings found so far. *)
LEMMA CeilingsStep == ModeTypeOK /\ CeilingsInv /\ [ModeNext]_modeVars => CeilingsInv'
<1> SUFFICES ASSUME ModeTypeOK, CeilingsInv, [ModeNext]_modeVars PROVE CeilingsInv'
  OBVIOUS
<1>1. CASE GatherAccount
  <2>1. PICK ceiling : ceiling = context.account
    OBVIOUS
  <2>2. ceiling \in Modes /\ "account" \in Sources
    BY <2>1 DEF ModeTypeOK, Contexts, Sources
  <2>3. Gather("account", "settings", TRUE, "account", ceiling)
    BY <1>1, <2>1 DEF GatherAccount
  <2>4. Met(ceiling)'
    BY <2>2, <2>3, GatherMeets
  <2>5. stage' = "settings" /\ context' = context
    BY <1>1 DEF GatherAccount, Gather
  <2>. QED
    BY <2>1, <2>4, <2>5 DEF CeilingsInv, Met
<1>2. CASE GatherSettings
  <2>1. PICK ceiling : ceiling = IF context.settings = "none" THEN "disabled"
                                                              ELSE context.settings
    OBVIOUS
  <2>2. ceiling \in Modes /\ "user_settings" \in Sources
    BY <2>1 DEF ModeTypeOK, Contexts, Modes, Sources
  <2>3. Gather("settings", "promotion", context.settings # "none", "user_settings", ceiling)
    BY <1>2, <2>1 DEF GatherSettings
  <2>4. /\ \A mode : Met(mode) => Met(mode)'
        /\ context.settings # "none" => Met(ceiling)'
    BY <2>2, <2>3, GatherMeets
  <2>5. stage = "settings" /\ stage' = "promotion" /\ context' = context
    BY <1>2 DEF GatherSettings, Gather
  <2>. QED
    BY <2>1, <2>4, <2>5 DEF CeilingsInv, Met
<1>3. CASE GatherPromotion
  <2>1. "signal_only" \in Modes /\ "model_promotion" \in Sources
    BY DEF Modes, Sources
  <2>2. /\ \A mode : Met(mode) => Met(mode)'
        /\ context.promotion = "below_paper" => Met("signal_only")'
    BY <1>3, <2>1, GatherMeets DEF GatherPromotion
  <2>3. stage = "promotion" /\ stage' = "funded" /\ context' = context
    BY <1>3 DEF GatherPromotion, Gather
  <2>. QED
    BY <2>2, <2>3 DEF CeilingsInv, Met
<1>4. CASE GatherFunded
  <2>1. "signal_only" \in Modes /\ "funded_rule" \in Sources
    BY DEF Modes, Sources
  <2>2. /\ \A mode : Met(mode) => Met(mode)'
        /\ context.funded = "breached" => Met("signal_only")'
    BY <1>4, <2>1, GatherMeets DEF GatherFunded
  <2>3. stage = "funded" /\ stage' = "risk" /\ context' = context
    BY <1>4 DEF GatherFunded, Gather
  <2>. QED
    BY <2>2, <2>3 DEF CeilingsInv, Met
<1>5. CASE GatherRisk
  <2>1. "signal_only" \in Modes /\ "risk_engine" \in Sources
    BY DEF Modes, Sources
  <2>2. /\ \A mode : Met(mode) => Met(mode)'
        /\ context.riskBreach => Met("signal_only")'
    BY <1>5, <2>1, GatherMeets DEF GatherRisk
  <2>3. stage = "risk" /\ stage' = "extra" /\ context' = context
    BY <1>5 DEF GatherRisk, Gather
  <2>. QED
    BY <2>2, <2>3 DEF CeilingsInv, Met
<1>6. CASE GatherExtra
  <2>1. PICK extra \in ExtraSeqs : constraints' = constraints \o extra
    BY <1>6 DEF GatherExtra
  <2>2. /\ Len(constraints) \in Nat /\ Len(constraints') >= Len(constraints)
        /\ Len(constraints') \in Nat
        /\ \A i \in 1..Len(constraints) : constraints'[i] = constraints[i]
    BY <2>1, ExtraSeqsAreSeqs DEF ModeTypeOK
  <2>3. \A mode : Met(mode) => Met(mode)'
    BY <2>2 DEF Met
  <2>4. stage = "extra" /\ stage' = "resolve" /\ context' = context
    BY <1>6 DEF GatherExtra
  <2>. QED
    BY <2>3, <2>4 DEF CeilingsInv, Met
<1>7. CASE Resolve \/ Fold \/ Explain
  <2>1. /\ context' = context /\ constraints' = constraints
        /\ stage \in {"resolve", "fold"} /\ stage' \in {"refused", "fold", "resolved"}
    BY <1>7 DEF Resolve, Fold, Explain
  <2>. QED
    BY <2>1 DEF CeilingsInv, Met
<1>8. CASE UNCHANGED modeVars
  BY <1>8 DEF modeVars, CeilingsInv, Met
<1>. QED
  BY <1>1, <1>2, <1>3, <1>4, <1>5, <1>6, <1>7, <1>8 DEF ModeNext

(* No breach, no unpromoted model and no account or settings row that forbids *)
(* orders is outvoted, whatever ceilings the caller adds and however many.    *)
THEOREM BreachForbidsOrdersHolds == ModeSpec => []BreachForbidsOrders
<1>1. ModeInit => CeilingsInv /\ FoldInv
  BY DEF ModeInit, CeilingsInv, FoldInv
<1>2. ModeTypeOK /\ FoldInv /\ CeilingsInv => BreachForbidsOrders
  <2> SUFFICES ASSUME ModeTypeOK, FoldInv, CeilingsInv, stage = "resolved", AllowsOrders(effective)
               PROVE  /\ context.funded # "breached"
                      /\ ~context.riskBreach
                      /\ context.promotion # "below_paper"
                      /\ AllowsOrders(context.account)
                      /\ context.settings # "none" => AllowsOrders(context.settings)
    BY DEF BreachForbidsOrders
  <2>1. \A mode \in Modes : Met(mode) => Rank[effective] <= Rank[mode]
    BY DEF FoldInv, Met
  <2>2. effective \in Modes
    BY DEF ModeTypeOK
  <2>3. \A mode \in Modes : Met(mode) => AllowsOrders(mode)
    BY <2>1, <2>2 DEF AllowsOrders, Rank, Modes
  <2>4. ~Met("signal_only")
    BY <2>3 DEF AllowsOrders, Modes
  <2>5. context.account \in Modes /\ context.settings \in Modes \cup {"none"}
    BY DEF ModeTypeOK, Contexts
  <2>. QED
    BY <2>3, <2>4, <2>5 DEF CeilingsInv
<1>. QED
  BY <1>1, <1>2, FoldStep, CeilingsStep, ModeTypeCorrect, PTL DEF ModeSpec

-----------------------------------------------------------------------------
(***************************************************************************)
(* SignalLifecycle.  Whatever Next does, one signal either stays, is       *)
(* created or makes one legal move, so the proofs reason about one signal  *)
(* at a time.                                                              *)
(***************************************************************************)

Stays(g) == /\ status'[g] = status[g]
            /\ expiry'[g] = expiry[g]
            /\ events'[g] = events[g]
            /\ written'[g] = written[g]

Writes(g, from, to, at) ==
  /\ \E id \in EventIds : events'[g] = events[g] \cup {Event(g, id, from, to, at)}
  /\ written'[g] = written[g] + 1
  /\ status'[g] = to

Creates(g) ==
  /\ status[g] = "none"
  /\ expiry'[g] \in 1..NoExpiry
  /\ \E to \in CreatableSignalStatuses, at \in Times : Writes(g, "none", to, at)

Moves(g) ==
  /\ expiry'[g] = expiry[g]
  /\ \E to \in SignalStatuses, at \in Times :
       /\ to \in SignalTransitions[status[g]]
       /\ to = "expired" => expiry[g] <= at
       /\ Writes(g, status[g], to, at)

(* What the signal transition table says. *)
LEMMA TableTypes ==
  /\ SignalStatuses = {"none", "generated", "pending_approval", "approved",
                       "rejected", "missed", "expired", "executed", "failed",
                       "cancelled"}
  /\ \A s \in SignalStatuses : SignalTransitions[s] \subseteq SignalStatuses
  /\ \A s \in SignalStatuses : s # "none" \/ SignalTransitions[s] = {}
  /\ \A s \in TerminalSignalStatuses : SignalTransitions[s] = {}
  /\ \A s \in SignalStatuses : "none" \notin SignalTransitions[s]
  /\ \A s \in SignalStatuses : "executed" \in SignalTransitions[s] => s = "approved"
  /\ \A s \in OpenSignalStatuses :
       s \in SignalStatuses /\ "expired" \in SignalTransitions[s]
  /\ CreatableSignalStatuses \subseteq SignalStatuses \ {"none"}
  /\ CreatableSignalStatuses \cap TerminalSignalStatuses = {}
  /\ "expired" \notin CreatableSignalStatuses
BY DEF SignalStatuses, SignalTransitions, TerminalSignalStatuses,
       OpenSignalStatuses, CreatableSignalStatuses

(* A transition moves one signal and writes one row for it. *)
LEMMA TransitionMoves ==
  ASSUME TypeOK, NEW g \in Signals, NEW to \in SignalStatuses, NEW at \in Times,
         Transition(g, to, at),
         to = "expired" => expiry[g] <= at
  PROVE  Moves(g) /\ \A h \in Signals \ {g} : Stays(h)
<1>1. PICK id \in FreshIds(g) :
        events' = [events EXCEPT ![g] = @ \cup {Event(g, id, status[g], to, at)}]
  BY DEF Transition, AppendEvent
<1>2. Writes(g, status[g], to, at)
  BY <1>1 DEF Transition, AppendEvent, Writes, TypeOK, FreshIds
<1>3. \A h \in Signals \ {g} : Stays(h)
  BY <1>1 DEF Transition, AppendEvent, Stays, TypeOK
<1>4. QED
  BY <1>2, <1>3 DEF Moves, Transition

(* What a step does to one signal: it creates it, moves it or leaves it      *)
(* alone.                                                                    *)
LEMMA StepPerSignal ==
  ASSUME TypeOK, [Next]_vars
  PROVE  \A g \in Signals : Stays(g) \/ Creates(g) \/ Moves(g)
<1>1. CASE Tick \/ UNCHANGED vars
  BY <1>1 DEF Tick, vars, Stays
<1>2. ASSUME NEW mine \in SUBSET Signals, NEW now \in Times, ExpireDue(mine, now)
      PROVE  \A g \in Signals : Stays(g) \/ Moves(g)
  <2> SUFFICES ASSUME NEW g \in Signals PROVE Stays(g) \/ Moves(g)
    OBVIOUS
  <2>1. CASE g \notin Due(mine, now)
    BY <1>2, <2>1 DEF ExpireDue, Stays
  <2>2. CASE g \in Due(mine, now)
    <3>1. PICK id \in [Due(mine, now) -> EventIds] :
            events'[g] = events[g] \cup
                           {Event(g, id[g], status[g], "expired", now)}
      BY <1>2, <2>2 DEF ExpireDue
    <3>2. Writes(g, status[g], "expired", now)
      BY <1>2, <2>2, <3>1 DEF ExpireDue, Writes
    <3>3. /\ "expired" \in SignalTransitions[status[g]]
          /\ "expired" \in SignalStatuses
          /\ expiry[g] <= now
      BY <2>2, TableTypes DEF Due, IsExpired
    <3>4. now \in Times /\ expiry'[g] = expiry[g]
      BY <1>2 DEF TypeOK, ExpireDue
    <3>5. QED
      BY <3>2, <3>3, <3>4 DEF Moves
  <2>3. QED
    BY <2>1, <2>2
<1>3. ASSUME NEW g \in Signals, CreateSignal(g)
      PROVE  \A h \in Signals : Stays(h) \/ Creates(h)
  <2>0. PICK to \in CreatableSignalStatuses, at \in Times :
          \E due \in (at + 1)..NoExpiry :
            /\ status' = [status EXCEPT ![g] = to]
            /\ expiry' = [expiry EXCEPT ![g] = due]
            /\ AppendEvent(g, "none", to, at)
    BY <1>3 DEF CreateSignal
  <2>1. PICK due \in (at + 1)..NoExpiry :
          /\ status' = [status EXCEPT ![g] = to]
          /\ expiry' = [expiry EXCEPT ![g] = due]
          /\ AppendEvent(g, "none", to, at)
    BY <2>0
  <2>2. PICK id \in FreshIds(g) :
          events' = [events EXCEPT ![g] = @ \cup {Event(g, id, "none", to, at)}]
    BY <2>1 DEF AppendEvent
  <2>3. due \in 1..NoExpiry
    BY MaxClockAssumption DEF TypeOK, Times, NoExpiry
  <2>4. Creates(g)
    BY <1>3, <2>1, <2>2, <2>3
       DEF CreateSignal, AppendEvent, Creates, Writes, TypeOK, FreshIds
  <2>5. \A h \in Signals \ {g} : Stays(h)
    BY <2>1, <2>2 DEF AppendEvent, Stays, TypeOK
  <2>6. QED
    BY <2>4, <2>5
<1>4. ASSUME NEW g \in Signals, Expire(g)
      PROVE  \A h \in Signals : Stays(h) \/ Moves(h)
  <2>1. clock \in Times /\ "expired" \in SignalStatuses
    BY TableTypes DEF TypeOK
  <2>2. QED
    BY <1>4, <2>1, TransitionMoves DEF Expire, IsExpired
<1>5. ASSUME NEW g \in Signals, Execute(g)
      PROVE  \A h \in Signals : Stays(h) \/ Moves(h)
  <2>1. "executed" \in SignalStatuses
    BY TableTypes
  <2>2. QED
    BY <1>5, <2>1, TransitionMoves DEF Execute
<1>6. ASSUME NEW g \in Signals, NEW to \in SignalStatuses, Decide(g, to)
      PROVE  \A h \in Signals : Stays(h) \/ Moves(h)
  <2>1. clock \in Times /\ to # "expired"
    BY <1>6 DEF Decide, TypeOK
  <2>2. QED
    BY <1>6, <2>1, TransitionMoves DEF Decide
<1>7. QED
  BY <1>1, <1>2, <1>3, <1>4, <1>5, <1>6 DEF Next

(* The same for all signals at once. *)
LEMMA StepShape ==
  ASSUME TypeOK, [Next]_vars
  PROVE  /\ clock' \in Times
         /\ DOMAIN status' = Signals /\ DOMAIN expiry' = Signals
         /\ DOMAIN events' = Signals /\ DOMAIN written' = Signals
         /\ status' = [g \in Signals |-> status'[g]]
         /\ expiry' = [g \in Signals |-> expiry'[g]]
         /\ events' = [g \in Signals |-> events'[g]]
         /\ written' = [g \in Signals |-> written'[g]]
BY MaxClockAssumption
   DEF TypeOK, Next, vars, Tick, ExpireDue, CreateSignal, Expire, Execute,
       Decide, Transition, AppendEvent, Times

(* Types of the signal rows, their audit rows and the ghost counter. *)
THEOREM TypeCorrect == Spec => []TypeOK
<1>1. Init => TypeOK
  BY MaxClockAssumption, TableTypes DEF Init, TypeOK, Times, NoExpiry
<1>2. TypeOK /\ [Next]_vars => TypeOK'
  <2> SUFFICES ASSUME TypeOK, [Next]_vars PROVE TypeOK'
    OBVIOUS
  <2>1. ASSUME NEW g \in Signals
        PROVE  /\ status'[g] \in SignalStatuses
               /\ expiry'[g] \in 1..NoExpiry
               /\ events'[g] \in SUBSET EventRows
               /\ written'[g] \in Nat
    <3>1. /\ status[g] \in SignalStatuses /\ expiry[g] \in 1..NoExpiry
          /\ events[g] \in SUBSET EventRows /\ written[g] \in Nat
          /\ clock \in Times
      BY DEF TypeOK
    <3>2. \A id \in EventIds, from \in SignalStatuses, to \in SignalStatuses,
             at \in Times : Event(g, id, from, to, at) \in EventRows
      BY <3>1 DEF Event, EventRows
    <3>3. CASE Stays(g)
      BY <3>1, <3>3 DEF Stays
    <3>4. CASE Creates(g)
      <4>1. "none" \in SignalStatuses /\ CreatableSignalStatuses \subseteq SignalStatuses
        BY TableTypes
      <4>2. QED
        BY <3>1, <3>2, <3>4, <4>1 DEF Creates, Writes
    <3>5. CASE Moves(g)
      BY <3>1, <3>2, <3>5 DEF Moves, Writes
    <3>6. QED
      BY <3>3, <3>4, <3>5, StepPerSignal
  <2>2. QED
    BY <2>1, StepShape DEF TypeOK
<1>3. QED
  BY <1>1, <1>2, PTL DEF Spec

(* How far into its life a signal with this status is. *)
StatusRank ==
  [none |-> 0, generated |-> 1, pending_approval |-> 2, approved |-> 3,
   rejected |-> 4, missed |-> 4, expired |-> 4, executed |-> 4, failed |-> 4,
   cancelled |-> 4]

(* Every legal move goes further into that life, and so does a creation. *)
LEMMA MovesGoOn ==
  /\ \A s \in SignalStatuses : StatusRank[s] \in Nat
  /\ \A s \in SignalStatuses : \A t \in SignalTransitions[s] :
       StatusRank[s] < StatusRank[t]
  /\ \A t \in CreatableSignalStatuses : StatusRank["none"] < StatusRank[t]
BY DEF SignalStatuses, SignalTransitions, CreatableSignalStatuses, StatusRank

(***************************************************************************)
(* The inductive invariant, one signal at a time: the trail of             *)
(* TrailExplainsStatus, with the rows counted from the creation on and all *)
(* of them leaving statuses the signal is past, and what the rows say of   *)
(* an approval and of an expiry.                                           *)
(***************************************************************************)
TrailOf(g) ==
  /\ status[g] = "none" => written[g] = 0
  /\ status[g] # "none" =>
       \E e \in events[g] : e.to = status[g] /\ e.number + 1 = written[g]
  /\ \A e \in events[g] :
       /\ e.number < written[g]
       /\ e.number = 0 => e.from = "none" /\ e.to \in CreatableSignalStatuses
       /\ e.number > 0 => /\ e.to \in SignalTransitions[e.from]
                          /\ \E d \in events[g] : /\ d.number + 1 = e.number
                                                  /\ d.to = e.from
  /\ \A e \in events[g] : StatusRank[e.from] < StatusRank[status[g]]
  /\ \A d, e \in events[g] : d.from = e.from => d = e

ApprovalOf(g) ==
  status[g] = "executed" =>
    \E e \in events[g] : e.to = "approved" /\ e.number + 2 = written[g]

ExpiryOf(g) == \A e \in events[g] : e.to = "expired" => expiry[g] <= e.at

SignalInv == \A g \in Signals : TrailOf(g) /\ ApprovalOf(g) /\ ExpiryOf(g)

(* The row of the creation starts the chain. *)
LEMMA CreationTrail ==
  ASSUME TypeOK, NEW g \in Signals, TrailOf(g), Creates(g)
  PROVE  TrailOf(g)' /\ ApprovalOf(g)' /\ ExpiryOf(g)'
<1>1. written[g] = 0 /\ events[g] = {}
  <2>1. written[g] = 0
    BY DEF TrailOf, Creates
  <2>2. \A e \in events[g] : e.number \in Nat /\ e.number < 0
    BY <2>1 DEF TrailOf, TypeOK, EventRows
  <2>3. QED
    BY <2>1, <2>2
<1>2. PICK to \in CreatableSignalStatuses, at \in Times, id \in EventIds :
        /\ events'[g] = {Event(g, id, "none", to, at)}
        /\ written'[g] = 1
        /\ status'[g] = to
  BY <1>1 DEF Creates, Writes
<1>3. /\ Event(g, id, "none", to, at).number = 0
      /\ Event(g, id, "none", to, at).to = to
      /\ Event(g, id, "none", to, at).from = "none"
  BY <1>1 DEF Event
<1>4. to # "none" /\ to # "executed" /\ to # "expired"
  BY DEF CreatableSignalStatuses
<1>5. StatusRank["none"] < StatusRank[to]
  BY MovesGoOn
<1>6. QED
  BY <1>2, <1>3, <1>4, <1>5 DEF TrailOf, ApprovalOf, ExpiryOf

(* A legal move extends the chain by one row. *)
LEMMA MoveTrail ==
  ASSUME TypeOK, NEW g \in Signals,
         TrailOf(g), ApprovalOf(g), ExpiryOf(g), Moves(g)
  PROVE  TrailOf(g)' /\ ApprovalOf(g)' /\ ExpiryOf(g)'
<1>1. PICK to \in SignalStatuses, at \in Times, id \in EventIds :
        /\ to \in SignalTransitions[status[g]]
        /\ to = "expired" => expiry[g] <= at
        /\ events'[g] = events[g] \cup {Event(g, id, status[g], to, at)}
        /\ written'[g] = written[g] + 1
        /\ status'[g] = to
        /\ expiry'[g] = expiry[g]
  BY DEF Moves, Writes
<1> DEFINE new == Event(g, id, status[g], to, at)
<1>2. /\ new.number = written[g] /\ new.to = to /\ new.from = status[g]
      /\ new.at = at
  BY DEF Event
<1>3. /\ status[g] \in SignalStatuses /\ written[g] \in Nat
      /\ \A e \in events[g] : e.number \in Nat
  BY DEF TypeOK, EventRows
<1>4. status[g] # "none" /\ to # "none"
  BY <1>1, <1>3, TableTypes DEF SignalTransitions
<1>5. PICK last \in events[g] :
        last.to = status[g] /\ last.number + 1 = written[g]
  BY <1>4 DEF TrailOf
<1>6. new \in events'[g] /\ last \in events'[g] /\ events[g] \subseteq events'[g]
  BY <1>1
<1>7. TrailOf(g)'
  <2>1. status'[g] # "none"
    BY <1>1, <1>4
  <2>2. \E e \in events'[g] : e.to = status'[g] /\ e.number + 1 = written'[g]
    BY <1>1, <1>2, <1>6
  <2>3. ASSUME NEW e \in events'[g]
        PROVE  /\ e.number < written'[g]
               /\ e.number = 0 =>
                    e.from = "none" /\ e.to \in CreatableSignalStatuses
               /\ e.number > 0 =>
                    /\ e.to \in SignalTransitions[e.from]
                    /\ \E d \in events'[g] : /\ d.number + 1 = e.number
                                             /\ d.to = e.from
    <3>1. CASE e \in events[g]
      <4>1. e.number < written[g] /\ e.number \in Nat
        BY <3>1, <1>3 DEF TrailOf
      <4>2. e.number < written'[g]
        BY <4>1, <1>1, <1>3
      <4>3. QED
        BY <3>1, <4>2, <1>6 DEF TrailOf
    <3>2. CASE e = new
      <4>1. e.number > 0 /\ e.number < written'[g]
        BY <3>2, <1>1, <1>2, <1>3, <1>5
      <4>2. e.to \in SignalTransitions[e.from]
        BY <3>2, <1>1, <1>2
      <4>3. last.number + 1 = e.number /\ last.to = e.from
        BY <3>2, <1>2, <1>5
      <4>4. QED
        BY <4>1, <4>2, <4>3, <1>6
    <3>3. QED
      BY <1>1, <3>1, <3>2
  <2>4. ASSUME NEW e \in events'[g]
        PROVE  StatusRank[e.from] < StatusRank[to]
    <3>1. StatusRank[status[g]] < StatusRank[to]
      BY <1>1, <1>3, MovesGoOn
    <3>2. CASE e \in events[g]
      <4>1. e.from \in SignalStatuses
        BY <3>2 DEF TypeOK, EventRows
      <4>2. StatusRank[e.from] < StatusRank[status[g]]
        BY <3>2 DEF TrailOf
      <4>3. /\ StatusRank[e.from] \in Nat /\ StatusRank[status[g]] \in Nat
            /\ StatusRank[to] \in Nat
        BY <1>1, <1>3, <4>1, MovesGoOn
      <4>4. QED
        BY <3>1, <4>2, <4>3
    <3>3. CASE e = new
      BY <1>2, <3>1, <3>3
    <3>4. QED
      BY <1>1, <3>2, <3>3
  <2>5. \A d, e \in events'[g] : d.from = e.from => d = e
    <3>1. \A e \in events[g] : e.from # status[g]
      <4>1. StatusRank[status[g]] \in Nat
        BY <1>3, MovesGoOn
      <4>2. \A e \in events[g] : StatusRank[e.from] < StatusRank[status[g]]
        BY DEF TrailOf
      <4>3. QED
        BY <4>1, <4>2
    <3>2. \A d, e \in events[g] : d.from = e.from => d = e
      BY DEF TrailOf
    <3>3. QED
      BY <1>1, <1>2, <3>1, <3>2
  <2>6. QED
    BY <1>1, <2>1, <2>2, <2>3, <2>4, <2>5 DEF TrailOf
<1>8. ApprovalOf(g)'
  <2> SUFFICES ASSUME to = "executed"
               PROVE  \E e \in events'[g] :
                        e.to = "approved" /\ e.number + 2 = written'[g]
    BY <1>1 DEF ApprovalOf
  <2>1. status[g] = "approved"
    BY <1>1, <1>3, TableTypes
  <2>2. last.to = "approved" /\ last.number + 2 = written'[g]
    BY <2>1, <1>1, <1>3, <1>5
  <2>3. QED
    BY <2>2, <1>6
<1>9. ExpiryOf(g)'
  BY <1>1, <1>2 DEF ExpiryOf
<1>10. QED
  BY <1>7, <1>8, <1>9

(* The chain, the approval and the expiry rows of every signal are always in *)
(* order.                                                                    *)
LEMMA SignalInvariant == Spec => []SignalInv
<1>1. Init => SignalInv
  BY DEF Init, SignalInv, TrailOf, ApprovalOf, ExpiryOf
<1>2. TypeOK /\ SignalInv /\ [Next]_vars => SignalInv'
  <2> SUFFICES ASSUME TypeOK, SignalInv, [Next]_vars, NEW g \in Signals
               PROVE  TrailOf(g)' /\ ApprovalOf(g)' /\ ExpiryOf(g)'
    BY DEF SignalInv
  <2>1. TrailOf(g) /\ ApprovalOf(g) /\ ExpiryOf(g)
    BY DEF SignalInv
  <2>2. CASE Stays(g)
    BY <2>1, <2>2 DEF Stays, TrailOf, ApprovalOf, ExpiryOf
  <2>3. CASE Creates(g)
    BY <2>1, <2>3, CreationTrail
  <2>4. CASE Moves(g)
    BY <2>1, <2>4, MoveTrail
  <2>5. QED
    BY <2>2, <2>3, <2>4, StepPerSignal
<1>3. QED
  BY <1>1, <1>2, TypeCorrect, PTL DEF Spec

(* transition_signal never changes a status without the matching audit row:   *)
(* the rows are one unbroken chain of legal moves up to the present status,   *)
(* and no two of them leave the same status.                                  *)
THEOREM TrailIsComplete == Spec => []TrailExplainsStatus
<1>1. SignalInv => TrailExplainsStatus
  BY DEF SignalInv, TrailOf, TrailExplainsStatus
<1>2. QED
  BY <1>1, SignalInvariant, PTL

(* No route, sweep or execution reaches the market around the approval. *)
THEOREM ExecutionFollowsApproval == Spec => []ExecutedWasApproved
<1>1. SignalInv => ExecutedWasApproved
  BY DEF SignalInv, ApprovalOf, ExecutedWasApproved
<1>2. QED
  BY <1>1, SignalInvariant, PTL

(* An expiry row is never dated before the signal's expiry time. *)
THEOREM ExpiryIsTruthful == Spec => []ExpiredWasDue
<1>1. SignalInv => ExpiredWasDue
  BY DEF SignalInv, ExpiryOf, ExpiredWasDue
<1>2. QED
  BY <1>1, SignalInvariant, PTL

(* A signal that ended keeps its status and its trail for good. *)
THEOREM EndIsFinal == Spec => EndedIsFinal
<1> DEFINE Final == \A g \in Signals :
                      status[g] \in TerminalSignalStatuses =>
                        status'[g] = status[g] /\ events'[g] = events[g]
<1>1. TypeOK /\ [Next]_vars => [Final]_vars
  <2> SUFFICES ASSUME TypeOK, [Next]_vars, NEW g \in Signals,
                      status[g] \in TerminalSignalStatuses
               PROVE  Stays(g)
    BY DEF Stays
  <2>1. SignalTransitions[status[g]] = {} /\ status[g] # "none"
    BY TableTypes DEF TerminalSignalStatuses
  <2>2. ~Creates(g) /\ ~Moves(g)
    BY <2>1 DEF Creates, Moves
  <2>3. QED
    BY <2>2, StepPerSignal
<1>2. QED
  BY <1>1, TypeCorrect, PTL DEF Spec, EndedIsFinal
=============================================================================
