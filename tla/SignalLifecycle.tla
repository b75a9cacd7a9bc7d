-------------------------- MODULE SignalLifecycle --------------------------
(***************************************************************************)
(* A trading signal's lifecycle and its audit trail                        *)
(* (signals/repositories.py, http_api/routes_signal_actions.py), with the  *)
(* timestamps the trail is read back by.  Every status change writes one   *)
(* event row.  Server-stamped events carry the clock, whose granularity is *)
(* one second; the event of an execution carries the request's             *)
(* submitted_at_utc, which the client may choose.                          *)
(***************************************************************************)
EXTENDS Naturals, PaperLifecycle

CONSTANTS
  Signals,      \* signal ids
  EventIds,     \* ids of event rows: random, so unrelated to time
  MaxClock      \* bound on the seconds a behaviour lasts

ASSUME EventIdsAssumption == EventIds \subseteq Nat
ASSUME MaxClockAssumption == MaxClock \in Nat

NoExpiry == MaxClock + 1        \* expires_at_utc is unset

Times == 0..MaxClock

(* A signal_events row; `number` is a ghost: the order rows were written in. *)
EventRows == [id : EventIds, from : SignalStatuses, to : SignalStatuses,
              at : Times, number : Nat]

VARIABLES
  clock,      \* the server's wall clock, in seconds
  status,     \* signal -> status, "none" before it is created
  expiry,     \* signal -> expires_at_utc
  events,     \* signal -> its event rows
  written     \* signal -> how many event rows it has had

vars == <<clock, status, expiry, events, written>>

Init ==
  /\ clock = 0
  /\ status = [g \in Signals |-> "none"]
  /\ expiry = [g \in Signals |-> NoExpiry]
  /\ events = [g \in Signals |-> {}]
  /\ written = [g \in Signals |-> 0]

FreshIds(g) == EventIds \ {e.id : e \in events[g]}

(* append_event. *)
Event(g, id, from, to, at) ==
  [id |-> id, from |-> from, to |-> to, at |-> at, number |-> written[g]]

AppendEvent(g, from, to, at) ==
  /\ \E id \in FreshIds(g) :
       events' = [events EXCEPT ![g] = @ \cup {Event(g, id, from, to, at)}]
  /\ written' = [written EXCEPT ![g] = @ + 1]

(* Mutant: an expiry in the past is accepted. *)
CreateSignalAlreadyDue(g) ==
  /\ status[g] = "none"
  /\ \E to \in CreatableSignalStatuses, due \in 0..NoExpiry, generatedAt \in Times :
       /\ status' = [status EXCEPT ![g] = to]
       /\ expiry' = [expiry EXCEPT ![g] = due]
       /\ AppendEvent(g, "none", to, generatedAt)
  /\ UNCHANGED clock

(***************************************************************************)
(* create_signal: the caller says when the signal was generated, and an    *)
(* expiry must lie after that.                                             *)
(***************************************************************************)
CreateSignal(g) ==
  /\ status[g] = "none"
  /\ \E to \in CreatableSignalStatuses, generatedAt \in Times :
       \E due \in (generatedAt + 1)..NoExpiry :
         /\ status' = [status EXCEPT ![g] = to]
         /\ expiry' = [expiry EXCEPT ![g] = due]
         /\ AppendEvent(g, "none", to, generatedAt)
  /\ UNCHANGED clock

(* Mutant: the table is not consulted. *)
TransitionUnchecked(g, to, at) ==
  /\ status[g] # "none"
  /\ status' = [status EXCEPT ![g] = to]
  /\ AppendEvent(g, status[g], to, at)
  /\ UNCHANGED <<clock, expiry>>

(* Mutant: the event is built after the row was updated. *)
TransitionLateEvent(g, to, at) ==
  /\ to \in SignalTransitions[status[g]]
  /\ status' = [status EXCEPT ![g] = to]
  /\ AppendEvent(g, to, to, at)
  /\ UNCHANGED <<clock, expiry>>

(***************************************************************************)
(* transition_signal: validate, then update the row and append its event.  *)
(***************************************************************************)
Transition(g, to, at) ==
  /\ to \in SignalTransitions[status[g]]
  /\ status' = [status EXCEPT ![g] = to]
  /\ AppendEvent(g, status[g], to, at)
  /\ UNCHANGED <<clock, expiry>>

(* Mutant: a signal is due one second early. *)
IsExpiredEarly(g, now) == expiry[g] <= now + 1

IsExpired(g, now) == expiry[g] <= now

(* approve, reject, miss, cancel, mark-pending and (library only) fail. *)
Decide(g, to) ==
  /\ to \in {"pending_approval", "approved", "rejected", "missed",
             "cancelled", "failed"}
  /\ Transition(g, to, clock)

(* POST /signals/{id}/expire: refused until the signal is due. *)
Expire(g) ==
  /\ IsExpired(g, clock)
  /\ Transition(g, "expired", clock)

(* _mark_signal_executed: stamped with the request's submitted_at_utc. *)
Execute(g) ==
  \E submittedAt \in Times : Transition(g, "executed", submittedAt)

(* Mutant: the sweep looks at every signal that is not executed. *)
DueIncludingClosed(mine, now) == {g \in mine : /\ status[g] \notin {"none", "executed"}
                                               /\ IsExpired(g, now)}

Due(mine, now) == {g \in mine : status[g] \in OpenSignalStatuses /\ IsExpired(g, now)}

(***************************************************************************)
(* expire_due_signals: every open signal, of one user or of all, whose     *)
(* expiry time has passed at the time the caller names, in one unit of     *)
(* work.  `mine` stands for that user's signals.                           *)
(***************************************************************************)
ExpireDue(mine, now) ==
  LET due == Due(mine, now)
  IN  /\ due # {}
      /\ \E id \in [due -> EventIds] :
           /\ \A g \in due : id[g] \in FreshIds(g)
           /\ events' = [g \in Signals |->
                           IF g \in due
                             THEN events[g] \cup
                                    {Event(g, id[g], status[g], "expired", now)}
                             ELSE events[g]]
      /\ written' = [g \in Signals |-> IF g \in due THEN written[g] + 1
                                                    ELSE written[g]]
      /\ status' = [g \in Signals |-> IF g \in due THEN "expired" ELSE status[g]]
      /\ UNCHANGED <<clock, expiry>>

Tick ==
  /\ clock < MaxClock
  /\ clock' = clock + 1
  /\ UNCHANGED <<status, expiry, events, written>>

Next ==
  \/ Tick
  \/ \E mine \in SUBSET Signals, now \in Times : ExpireDue(mine, now)
  \/ \E g \in Signals :
       \/ CreateSignal(g)
       \/ Expire(g)
       \/ Execute(g)
       \/ \E to \in SignalStatuses : Decide(g, to)

Spec == Init /\ [][Next]_vars

-----------------------------------------------------------------------------
(* Types of the rows and of the ghost counter. *)
TypeOK ==
  /\ clock \in Times
  /\ status \in [Signals -> SignalStatuses]
  /\ expiry \in [Signals -> 1..NoExpiry]
  /\ events \in [Signals -> SUBSET EventRows]
  /\ written \in [Signals -> Nat]

(* "A signal can never change status without a matching audit row": the rows  *)
(* of a signal, in the order they were written, are one unbroken chain of     *)
(* legal transitions from its creation to the status it has now; and no two   *)
(* rows leave the same status, so that the rows alone give that order back,   *)
(* however their times and ids sort.                                          *)
TrailExplainsStatus ==
  \A g \in Signals :
    /\ status[g] # "none" =>
         \E e \in events[g] : e.to = status[g] /\ e.number + 1 = written[g]
    /\ \A e \in events[g] :
         /\ e.number < written[g]
         /\ e.number = 0 => e.from = "none" /\ e.to \in CreatableSignalStatuses
         /\ e.number > 0 => /\ e.to \in SignalTransitions[e.from]
                            /\ \E d \in events[g] : /\ d.number + 1 = e.number
                                                    /\ d.to = e.from
    /\ \A d, e \in events[g] : d.from = e.from => d = e

(* "Letting a caller stamp it on a live signal would ... put a false statement *)
(* in the audit trail": an expiry row is never dated before the expiry time,   *)
(* whether a caller or the sweep wrote it.                                     *)
ExpiredWasDue ==
  \A g \in Signals : \A e \in events[g] : e.to = "expired" => expiry[g] <= e.at

(* A signal that reached the market was approved first, and never after an     *)
(* end: every executed signal has the row of its approval.                     *)
ExecutedWasApproved ==
  \A g \in Signals :
    status[g] = "executed" =>
      \E e \in events[g] : e.to = "approved" /\ e.number + 2 = written[g]

(* "Statuses a signal can never leave", and the audit trail of an ended signal *)
(* never grows: no request or sweep moves it again.                            *)
EndedIsFinal ==
  [][\A g \in Signals :
       status[g] \in TerminalSignalStatuses =>
         status'[g] = status[g] /\ events'[g] = events[g]]_vars
=============================================================================
