--------------------------- MODULE PaperLifecycle ---------------------------
(***************************************************************************)
(* The transition tables every lifecycle check of the paper-trading core   *)
(* consults: orders and positions (paper_trading/contracts.py), sessions   *)
(* (paper_trading/sessions.py) and signals (signals/models.py).  A table   *)
(* maps a status to the statuses it may move to; "none" is the status of a *)
(* row that does not exist yet.                                            *)
(***************************************************************************)

OrderTransitions ==
  [none             |-> {},
   created          |-> {"accepted", "rejected", "cancelled", "failed"},
   accepted         |-> {"partially_filled", "filled", "cancelled", "expired",
                         "failed"},
   partially_filled |-> {"partially_filled", "filled", "cancelled", "expired",
                         "failed"},
   rejected         |-> {},
   filled           |-> {},
   cancelled        |-> {},
   expired          |-> {},
   failed           |-> {}]

PositionTransitions ==
  [none             |-> {},
   open             |-> {"partially_closed", "closed"},
   partially_closed |-> {"partially_closed", "closed"},
   closed           |-> {}]

SessionTransitions ==
  [none      |-> {},
   created   |-> {"running", "cancelled", "failed"},
   running   |-> {"paused", "completed", "failed", "cancelled"},
   paused    |-> {"running", "cancelled", "failed"},
   completed |-> {},
   failed    |-> {},
   cancelled |-> {}]

SignalTransitions ==
  [none             |-> {},
   generated        |-> {"pending_approval", "approved", "rejected", "missed",
                         "expired", "cancelled"},
   pending_approval |-> {"approved", "rejected", "missed", "expired",
                         "cancelled"},
   approved         |-> {"executed", "failed", "missed", "expired",
                         "cancelled"},
   rejected         |-> {},
   missed           |-> {},
   expired          |-> {},
   executed         |-> {},
   failed           |-> {},
   cancelled        |-> {}]

OrderStatuses    == DOMAIN OrderTransitions
PositionStatuses == DOMAIN PositionTransitions
SessionStatuses  == DOMAIN SessionTransitions
SignalStatuses   == DOMAIN SignalTransitions

TerminalSessionStatuses == {"completed", "failed", "cancelled"}
TerminalSignalStatuses  == {"rejected", "missed", "expired", "executed",
                            "failed", "cancelled"}
OpenSignalStatuses      == {"generated", "pending_approval", "approved"}
CreatableSignalStatuses == {"generated", "pending_approval"}

(* The session commands a caller may send, and the status each one asks for. *)
SessionCommands ==
  [start    |-> "running",
   pause    |-> "paused",
   resume   |-> "running",
   complete |-> "completed",
   cancel   |-> "cancelled",
   fail     |-> "failed"]

(* has_execution_for_signal: orders in these statuses do not consume a signal. *)
NonBlockingOrderStatuses == {"rejected", "cancelled", "expired", "failed"}
=============================================================================
