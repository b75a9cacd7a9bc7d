--------------------------- MODULE ExecutionMode ---------------------------
(***************************************************************************)
(* How far AQOS may act on a signal: the ceilings an execution attempt     *)
(* meets are gathered (paper_trading/eligibility.py) and folded into one   *)
(* effective mode (execution_policy/modes.py).  The fold is a state        *)
(* machine so that every intermediate mode is visible.                     *)
(***************************************************************************)
EXTENDS Naturals, Sequences

CONSTANT MaxExtra       \* how many extra constraints a caller passes
ASSUME MaxExtraAssumption == MaxExtra \in Nat

Modes == {"disabled", "signal_only", "manual_approval", "auto_trade"}

Rank == [mode \in Modes |->
           CASE mode = "disabled"        -> 0
             [] mode = "signal_only"     -> 1
             [] mode = "manual_approval" -> 2
             [] mode = "auto_trade"      -> 3]

AllowsOrders(mode) == mode \in {"manual_approval", "auto_trade"}

(* Mutant: the comparison of the two ranks is swapped. *)
StricterSwapped(first, second) ==
  IF Rank[first] >= Rank[second] THEN first ELSE second

Stricter(first, second) == IF Rank[first] <= Rank[second] THEN first ELSE second

Sources == {"user_settings", "account", "funded_rule", "model_promotion",
            "risk_engine"}

Constraint(source, ceiling) == [source |-> source, ceiling |-> ceiling]
Constraints == [source : Sources, ceiling : Modes]

(***************************************************************************)
(* What the gate knows when it gathers.  "none" stands for the absent      *)
(* settings row and for a context that resolved no promotion stage.        *)
(***************************************************************************)
Contexts == [account    : Modes,
             settings   : Modes \cup {"none"},
             promotion  : {"none", "reaches_paper", "below_paper"},
             funded     : {"none", "passed", "breached"},
             riskBreach : BOOLEAN]

VARIABLES
  context,      \* the eligibility context and the account's own mode
  requested,    \* the mode the caller asked for
  constraints,  \* the ceilings gathered so far, in order
  stage,        \* where the gathering or the resolver stands
  index,        \* constraints already folded
  effective,    \* the mode the fold has reached
  binding       \* positions of the constraints blamed for a downgrade

modeVars == <<context, requested, constraints, stage, index, effective, binding>>

ModeInit ==
  /\ context \in Contexts
  /\ requested \in Modes
  /\ constraints = << >>
  /\ stage = "account"
  /\ index = 0
  /\ effective = requested
  /\ binding = {}

(***************************************************************************)
(* One step of collect_execution_constraints: append `found` or nothing.   *)
(***************************************************************************)
Gather(from, to, applies, source, ceiling) ==
  /\ stage = from
  /\ stage' = to
  /\ constraints' = IF applies
                      THEN Append(constraints, Constraint(source, ceiling))
                      ELSE constraints
  /\ UNCHANGED <<context, requested, index, effective, binding>>

(* Mutant: an unrestricted account adds no ceiling of its own. *)
GatherAccountIfRestricted ==
  Gather("account", "settings", context.account # "auto_trade",
         "account", context.account)

GatherAccount ==
  Gather("account", "settings", TRUE, "account", context.account)

GatherSettings ==
  Gather("settings", "promotion", context.settings # "none",
         "user_settings",
         IF context.settings = "none" THEN "disabled" ELSE context.settings)

GatherPromotion ==
  Gather("promotion", "funded", context.promotion = "below_paper",
         "model_promotion", "signal_only")

(* Mutant: the outcome of the funded-rule evaluation is read backwards. *)
GatherFundedInverted ==
  Gather("funded", "risk", context.funded = "passed",
         "funded_rule", "signal_only")

GatherFunded ==
  Gather("funded", "risk", context.funded = "breached",
         "funded_rule", "signal_only")

GatherRisk ==
  Gather("risk", "extra", context.riskBreach, "risk_engine", "signal_only")

(* Ceilings the caller adds on top (execution_service passes them through). *)
ExtraSeqs == UNION {[1..n -> Constraints] : n \in 0..MaxExtra}

GatherExtra ==
  /\ stage = "extra"
  /\ \E extra \in ExtraSeqs : constraints' = constraints \o extra
  /\ stage' = "resolve"
  /\ UNCHANGED <<context, requested, index, effective, binding>>

(***************************************************************************)
(* resolve_execution_mode.  Called on no constraint at all it raises;      *)
(* otherwise it folds the ceilings and then names the binding ones.        *)
(***************************************************************************)
Resolve ==
  /\ stage = "resolve"
  /\ stage' = IF constraints = << >> THEN "refused" ELSE "fold"
  /\ effective' = requested
  /\ UNCHANGED <<context, requested, constraints, index, binding>>

Fold ==
  /\ stage = "fold"
  /\ index < Len(constraints)
  /\ effective' = Stricter(effective, constraints[index + 1].ceiling)
  /\ index' = index + 1
  /\ UNCHANGED <<context, requested, constraints, stage, binding>>

(* Mutant: blames equal ceilings that lowered nothing. *)
BindingWithoutDowngrade ==
  {i \in DOMAIN constraints : constraints[i].ceiling = effective}

(* The binding ceilings are the strictest ones, and only if they lowered the *)
(* requested mode; they are kept as positions in `constraints`.              *)
BindingPositions ==
  {i \in DOMAIN constraints :
     /\ constraints[i].ceiling = effective
     /\ Rank[constraints[i].ceiling] < Rank[requested]}

Explain ==
  /\ stage = "fold"
  /\ index = Len(constraints)
  /\ binding' = BindingPositions
  /\ stage' = "resolved"
  /\ UNCHANGED <<context, requested, constraints, index, effective>>

ModeNext ==
  \/ GatherAccount \/ GatherSettings \/ GatherPromotion
  \/ GatherFunded \/ GatherRisk \/ GatherExtra
  \/ Resolve \/ Fold \/ Explain

ModeSpec == ModeInit /\ [][ModeNext]_modeVars

WasDowngraded == Rank[effective] < Rank[requested]

-----------------------------------------------------------------------------
Stages == {"account", "settings", "promotion", "funded", "risk", "extra",
           "resolve", "refused", "fold", "resolved"}

(* Type invariant of the gathered constraints and of the resolver's state. *)
ModeTypeOK ==
  /\ context \in Contexts
  /\ requested \in Modes
  /\ constraints \in Seq(Constraints)
  /\ stage \in Stages
  /\ index \in 0..Len(constraints)
  /\ effective \in Modes
  /\ binding \subseteq 1..Len(constraints)

(* "Reduce a requested execution mode to the strictest ceiling": the resolved *)
(* mode is above neither the request nor any ceiling, and it is one of them   *)
(* -- resolve_execution_mode never invents a stricter mode either.            *)
StrictestWins ==
  stage = "resolved" =>
    /\ Rank[effective] <= Rank[requested]
    /\ \A i \in 1..Len(constraints) :
         Rank[effective] <= Rank[constraints[i].ceiling]
    /\ \/ effective = requested
       \/ \E i \in 1..Len(constraints) : effective = constraints[i].ceiling

(* The audit trail of ExecutionModeDecision: a mode is downgraded exactly when *)
(* some constraint is blamed, so explain() never prints an empty list of       *)
(* reasons for a downgrade nor blames anyone without one.                      *)
DowngradeIsExplained ==
  stage = "resolved" => (WasDowngraded <=> binding # {})

(* End to end over the gathering and the fold: a breached funded rule, a risk  *)
(* breach or a model below paper trading can never resolve to a mode that      *)
(* sends orders, whatever the account, the settings or the caller ask for, and *)
(* neither can an account or a settings row that forbids orders.               *)
BreachForbidsOrders ==
  stage = "resolved" /\ AllowsOrders(effective) =>
    /\ context.funded # "breached"
    /\ ~context.riskBreach
    /\ context.promotion # "below_paper"
    /\ AllowsOrders(context.account)
    /\ context.settings # "none" => AllowsOrders(context.settings)

(* "the resolver is never called with an empty set": the account always       *)
(* contributes, so the gate never meets the resolver's ValueError.            *)
NeverUnchecked == stage # "refused"
=============================================================================
