------------------------ MODULE PaperRequestsProofs ------------------------
(***************************************************************************)
(* What overlapping requests cannot break, for any number of requests,     *)
(* sessions, signals and positions.  The argument never uses the locks:    *)
(* every commit writes consistent rows over consistent rows, however stale *)
(* the snapshot it was computed from.                                      *)
(***************************************************************************)
EXTENDS PaperRequests, TLAPS

(* What the assumptions and the transition tables give. *)
LEMMA Constants ==
  /\ GrossPnls \subseteq Int /\ InitialBalance \in Nat /\ None \notin Signals
  /\ \A s \in SessionStatuses : SessionTransitions[s] \subseteq SessionStatuses
  /\ \A s \in SignalStatuses : SignalTransitions[s] \subseteq SignalStatuses
  /\ {"approved", "executed"} \subseteq SignalStatuses
  /\ {"running"} \subseteq SessionStatuses
  /\ "running" \notin TerminalSessionStatuses
BY RequestsAssumption DEF SessionStatuses, SessionTransitions, SignalStatuses,
   SignalTransitions, TerminalSessionStatuses

(* What each kind of request carries. *)
LEMMA RequestFields ==
  ASSUME NEW q \in Requests
  PROVE  \/ /\ q.kind = "open"
            /\ q.session \in Sessions /\ q.signal \in Signals \cup {None}
         \/ /\ q.kind \in {"close", "exit"}
            /\ q.session \in Sessions /\ q.signal \in Signals \cup {None}
            /\ q.position \in Positions /\ q.gross \in GrossPnls
         \/ /\ q.kind = "command" /\ q.session \in Sessions /\ q.to \in SessionStatuses
         \/ /\ q.kind = "decide" /\ q.signal \in Signals /\ q.to \in SignalStatuses
BY DEF Requests

(* A filled order changes the orders and nothing else. *)
LEMMA FilledFields ==
  ASSUME NEW rows \in Tables, NEW t \in Txns, NEW q, q.signal \in Signals \cup {None}
  PROVE  /\ Filled(rows, t, q) \in Tables
         /\ Filled(rows, t, q).session = rows.session
         /\ Filled(rows, t, q).signal = rows.signal
         /\ Filled(rows, t, q).position = rows.position
         /\ Filled(rows, t, q).balance = rows.balance
         /\ Filled(rows, t, q).trades = rows.trades
         /\ Filled(rows, t, q).events = rows.events
         /\ \A o \in Filled(rows, t, q).orders : o \in rows.orders \/ o.txn = t
<1> DEFINE row == [txn |-> t, signal |-> q.signal]
<1>1. row \in OrderRows
  BY DEF OrderRows
<1>2. rows.orders \cup {row} \in SUBSET OrderRows
  BY <1>1 DEF Tables
<1>3. Filled(rows, t, q) = [rows EXCEPT !.orders = rows.orders \cup {row}]
  BY DEF Filled, Tables
<1>4. \A o \in rows.orders \cup {row} : o \in rows.orders \/ o.txn = t
  OBVIOUS
<1> HIDE DEF row
<1>5. QED
  BY <1>2, <1>3, <1>4 DEF Tables

(* A transition writes one status and appends one event. *)
LEMMA EventedChanges ==
  ASSUME NEW rows \in Tables, NEW g \in Signals,
         NEW from \in SignalStatuses, NEW to \in SignalStatuses
  PROVE  /\ Evented(rows, g, from, to) \in Tables
         /\ Evented(rows, g, from, to).signal = [rows.signal EXCEPT ![g] = to]
         /\ Evented(rows, g, from, to).events =
              [rows.events EXCEPT ![g] = Append(@, [from |-> from, to |-> to])]
<1> DEFINE event == [from |-> from, to |-> to]
<1>1. event \in EventRows
  BY DEF EventRows
<1>2. rows.events[g] \in Seq(EventRows) /\ rows.events \in [Signals -> Seq(EventRows)]
  BY DEF Tables
<1>3. Append(rows.events[g], event) \in Seq(EventRows)
  BY <1>1, <1>2
<1>4. [rows.events EXCEPT ![g] = Append(@, event)] \in [Signals -> Seq(EventRows)]
  BY <1>2, <1>3
<1>5. [rows.signal EXCEPT ![g] = to] \in [Signals -> SignalStatuses]
  BY DEF Tables
<1>6. QED
  BY <1>4, <1>5 DEF Evented, Tables

(* A transition leaves every other table alone. *)
LEMMA EventedKeeps ==
  ASSUME NEW rows, NEW g, NEW from, NEW to, rows \in Tables
  PROVE  /\ Evented(rows, g, from, to).session = rows.session
         /\ Evented(rows, g, from, to).position = rows.position
         /\ Evented(rows, g, from, to).balance = rows.balance
         /\ Evented(rows, g, from, to).trades = rows.trades
         /\ Evented(rows, g, from, to).orders = rows.orders
BY DEF Evented, Tables

(* A transition keeps the types of the rows. *)
LEMMA EventedType ==
  ASSUME NEW rows \in Tables, NEW g \in Signals,
         NEW from \in SignalStatuses, NEW to \in SignalStatuses
  PROVE  Evented(rows, g, from, to) \in Tables
BY EventedChanges

(* A close writes one position, the balance and one trade. *)
LEMMA ClosedChanges ==
  ASSUME NEW rows \in Tables, NEW seen \in Tables, NEW q,
         q.position \in Positions, q.gross \in GrossPnls
  PROVE  LET after == NotBelowZero(seen.balance + q.gross)
             trade == [position |-> q.position, net |-> q.gross, balanceAfter |-> after]
         IN  /\ Closed(rows, q, seen) \in Tables
             /\ Closed(rows, q, seen).position =
                  [rows.position EXCEPT ![q.position] = "closed"]
             /\ Closed(rows, q, seen).balance \in {rows.balance, after}
             /\ Closed(rows, q, seen).trades = Append(rows.trades, trade)
<1> DEFINE after == NotBelowZero(seen.balance + q.gross)
           trade == [position |-> q.position, net |-> q.gross, balanceAfter |-> after]
<1>1. after \in Nat /\ q.gross \in Int
  <2>1. seen.balance \in Nat /\ q.gross \in Int
    BY Constants DEF Tables
  <2>2. seen.balance + q.gross \in Int
    BY <2>1
  <2>3. QED
    BY <2>1, <2>2 DEF NotBelowZero
<1>2. trade \in TradeRows
  BY <1>1 DEF TradeRows
<1>3. Append(rows.trades, trade) \in Seq(TradeRows)
  BY <1>2 DEF Tables
<1>4. [rows.position EXCEPT ![q.position] = "closed"] \in
        [Positions -> {"none", "open", "closed"}]
  BY DEF Tables
<1>5. Closed(rows, q, seen) =
        [rows EXCEPT !.position = [rows.position EXCEPT ![q.position] = "closed"],
                     !.balance = IF after = seen.balance THEN rows.balance ELSE after,
                     !.trades = Append(rows.trades, trade)]
  BY DEF Closed, Tables
<1> HIDE DEF after, trade
<1>6. QED
  BY <1>1, <1>3, <1>4, <1>5 DEF Tables, after, trade

(* A close leaves sessions, signals and orders alone. *)
LEMMA ClosedKeeps ==
  ASSUME NEW rows, NEW seen, NEW q, rows \in Tables
  PROVE  /\ Closed(rows, q, seen).session = rows.session
         /\ Closed(rows, q, seen).signal = rows.signal
         /\ Closed(rows, q, seen).events = rows.events
         /\ Closed(rows, q, seen).orders = rows.orders
BY DEF Closed, Tables

(* A close keeps the types of the rows. *)
LEMMA ClosedType ==
  ASSUME NEW rows \in Tables, NEW seen \in Tables, NEW q,
         q.position \in Positions, q.gross \in GrossPnls
  PROVE  Closed(rows, q, seen) \in Tables
BY ClosedChanges

(* A close touches no other position. *)
LEMMA ClosedPosition ==
  ASSUME NEW rows \in Tables, NEW seen \in Tables, NEW q, q.position \in Positions
  PROVE  Closed(rows, q, seen).position = [rows.position EXCEPT ![q.position] = "closed"]
BY DEF Closed, Tables

(* A session command changes one session, whose end time it never clears. *)
LEMMA CommandedFields ==
  ASSUME NEW rows \in Tables, NEW q, q.session \in Sessions, q.to \in SessionStatuses
  PROVE  /\ Commanded(rows, q) \in Tables
         /\ Commanded(rows, q).signal = rows.signal
         /\ Commanded(rows, q).position = rows.position
         /\ Commanded(rows, q).balance = rows.balance
         /\ Commanded(rows, q).trades = rows.trades
         /\ Commanded(rows, q).events = rows.events
         /\ Commanded(rows, q).orders = rows.orders
         /\ \A s \in Sessions : rows.session[s].ended =>
                                  Commanded(rows, q).session[s].ended
<1> DEFINE row == [status |-> q.to,
                   ended |-> q.to \in TerminalSessionStatuses
                             \/ rows.session[q.session].ended]
<1>1. row \in [status : SessionStatuses, ended : BOOLEAN]
  BY DEF Tables
<1>2. [rows.session EXCEPT ![q.session] = row] \in
        [Sessions -> [status : SessionStatuses, ended : BOOLEAN]]
  BY <1>1 DEF Tables
<1>3. Commanded(rows, q) = [rows EXCEPT !.session = [rows.session EXCEPT ![q.session] = row]]
  BY DEF Commanded, Tables
<1>4. \A s \in Sessions : rows.session[s].ended =>
                            [rows.session EXCEPT ![q.session] = row][s].ended
  BY DEF Tables
<1> HIDE DEF row
<1>5. QED
  BY <1>2, <1>3, <1>4 DEF Tables

(* Marking a signal executed changes signals and events only. *)
LEMMA SpentFields ==
  ASSUME NEW rows \in Tables, NEW seen \in Tables, NEW g \in Signals \cup {None}
  PROVE  /\ Spent(rows, g, seen) \in Tables
         /\ Spent(rows, g, seen).session = rows.session
         /\ Spent(rows, g, seen).position = rows.position
         /\ Spent(rows, g, seen).balance = rows.balance
         /\ Spent(rows, g, seen).trades = rows.trades
         /\ Spent(rows, g, seen).orders = rows.orders
<1>1. CASE g = None
  BY <1>1 DEF Spent
<1>2. CASE g # None
  <2>1. seen.signal[g] \in SignalStatuses /\ "executed" \in SignalStatuses
    BY <1>2, Constants DEF Tables
  <2>2. Spent(rows, g, seen) = Evented(rows, g, seen.signal[g], "executed")
    BY <1>2 DEF Spent
  <2>3. g \in Signals
    BY <1>2
  <2>4. QED
    BY <2>1, <2>2, <2>3, EventedType, EventedKeeps
<1>3. QED
  BY <1>1, <1>2

(* An opening request adds an order and a position of its own name. *)
LEMMA OpenedFields ==
  ASSUME NEW rows \in Tables, NEW t \in Txns
  PROVE  LET opened == [rows EXCEPT !.position[t] = "open"]
         IN  /\ opened \in Tables
             /\ opened.session = rows.session /\ opened.signal = rows.signal
             /\ opened.position = [rows.position EXCEPT ![t] = "open"]
             /\ opened.balance = rows.balance /\ opened.trades = rows.trades
             /\ opened.events = rows.events /\ opened.orders = rows.orders
<1>1. [rows.position EXCEPT ![t] = "open"] \in [Positions -> {"none", "open", "closed"}]
  BY DEF Tables, Positions
<1>2. [rows EXCEPT !.position[t] = "open"] =
        [rows EXCEPT !.position = [rows.position EXCEPT ![t] = "open"]]
  BY DEF Tables
<1>3. QED
  BY <1>1, <1>2 DEF Tables

-----------------------------------------------------------------------------
(***************************************************************************)
(* The promises of one version of the rows.                                *)
(***************************************************************************)
Explained(rows) ==
  \A g \in Signals :
    IF rows.events[g] = << >> THEN rows.signal[g] = "approved"
    ELSE rows.signal[g] = rows.events[g][Len(rows.events[g])].to

Balanced(rows) ==
  \/ rows.balance = InitialBalance
  \/ \E i \in DOMAIN rows.trades : rows.trades[i].balanceAfter = rows.balance

Settled(rows) ==
  \A p \in Positions :
    rows.position[p] = "closed" <=>
      \E i \in DOMAIN rows.trades : rows.trades[i].position = p

(* After a transition the last event still says what the status is. *)
LEMMA EventedExplains ==
  ASSUME NEW rows \in Tables, NEW g \in Signals, Explained(rows),
         NEW from \in SignalStatuses, NEW to \in SignalStatuses
  PROVE  Explained(Evented(rows, g, from, to))
<1> DEFINE event == [from |-> from, to |-> to]
           after == Evented(rows, g, from, to)
<1>1. /\ after.signal = [rows.signal EXCEPT ![g] = to]
      /\ after.events = [rows.events EXCEPT ![g] = Append(@, event)]
  BY EventedChanges
<1>2. /\ rows.events \in [Signals -> Seq(EventRows)] /\ event \in EventRows
      /\ rows.signal \in [Signals -> SignalStatuses]
  BY DEF Tables, EventRows
<1>3. event.to = to
  OBVIOUS
<1> HIDE DEF event, after
<1>4. /\ after.signal[g] = to
      /\ after.events[g] = Append(rows.events[g], event)
      /\ \A h \in Signals \ {g} : /\ after.signal[h] = rows.signal[h]
                                  /\ after.events[h] = rows.events[h]
  BY <1>1, <1>2
<1>5. /\ after.events[g] # << >>
      /\ after.events[g][Len(after.events[g])] = event
  <2>1. rows.events[g] \in Seq(EventRows)
    BY <1>2
  <2>2. /\ Append(rows.events[g], event) \in Seq(EventRows)
        /\ Len(Append(rows.events[g], event)) = Len(rows.events[g]) + 1
        /\ Append(rows.events[g], event)[Len(rows.events[g]) + 1] = event
        /\ Len(rows.events[g]) \in Nat
    BY <1>2, <2>1
  <2>3. QED
    BY <1>4, <2>2
<1>6. Explained(after)
  BY <1>3, <1>4, <1>5 DEF Explained
<1>7. QED
  BY <1>6 DEF after

(* So it does after a signal was marked executed. *)
LEMMA SpentExplains ==
  ASSUME NEW rows \in Tables, NEW seen \in Tables, NEW g \in Signals \cup {None},
         Explained(rows)
  PROVE  Explained(Spent(rows, g, seen))
<1>1. CASE g = None
  BY <1>1 DEF Spent
<1>2. CASE g # None
  <2>1. seen.signal[g] \in SignalStatuses /\ "executed" \in SignalStatuses
    BY <1>2, Constants DEF Tables
  <2>2. Spent(rows, g, seen) = Evented(rows, g, seen.signal[g], "executed")
    BY <1>2 DEF Spent
  <2>3. g \in Signals
    BY <1>2
  <2>4. QED
    BY <2>1, <2>2, <2>3, EventedExplains
<1>3. QED
  BY <1>1, <1>2

(* A close keeps positions, trades and the balance in step. *)
LEMMA ClosedSettles ==
  ASSUME NEW rows \in Tables, NEW seen \in Tables, NEW q,
         q.position \in Positions, q.gross \in GrossPnls,
         Settled(rows), Balanced(rows)
  PROVE  /\ Settled(Closed(rows, q, seen))
         /\ Balanced(Closed(rows, q, seen))
<1> DEFINE after == Closed(rows, q, seen)
           balance == NotBelowZero(seen.balance + q.gross)
           trade == [position |-> q.position, net |-> q.gross, balanceAfter |-> balance]
<1>1. /\ after \in Tables
      /\ after.position = [rows.position EXCEPT ![q.position] = "closed"]
      /\ after.balance \in {rows.balance, balance}
      /\ after.trades = Append(rows.trades, trade)
  BY ClosedChanges
<1>2. trade.position = q.position /\ trade.balanceAfter = balance
  OBVIOUS
<1>3. rows.trades \in Seq(TradeRows) /\ after.trades \in Seq(TradeRows)
  BY <1>1 DEF Tables
<1>4. rows.position \in [Positions -> {"none", "open", "closed"}]
  BY DEF Tables
<1> HIDE DEF trade, after, balance
<1>5. /\ Len(after.trades) = Len(rows.trades) + 1
      /\ DOMAIN after.trades = 1..(Len(rows.trades) + 1)
      /\ DOMAIN rows.trades = 1..Len(rows.trades)
      /\ Len(rows.trades) \in Nat
      /\ after.trades[Len(rows.trades) + 1] = trade
      /\ \A i \in 1..Len(rows.trades) : after.trades[i] = rows.trades[i]
  BY <1>1, <1>3
<1>6. Balanced(after)
  <2>1. 1..Len(rows.trades) \subseteq 1..(Len(rows.trades) + 1)
        /\ Len(rows.trades) + 1 \in 1..(Len(rows.trades) + 1)
    BY <1>5
  <2>2. CASE after.balance = balance
    BY <1>2, <1>5, <2>1, <2>2 DEF Balanced
  <2>3. CASE after.balance = rows.balance
    BY <1>5, <2>1, <2>3 DEF Balanced
  <2>4. QED
    BY <1>1, <2>2, <2>3
<1>7. ASSUME NEW p \in Positions
      PROVE  (\E i \in DOMAIN after.trades : after.trades[i].position = p)
               <=> (p = q.position \/ \E i \in DOMAIN rows.trades : rows.trades[i].position = p)
  <2>1. \A i \in 1..(Len(rows.trades) + 1) :
          i \in 1..Len(rows.trades) \/ i = Len(rows.trades) + 1
    BY <1>5
  <2>2. 1..Len(rows.trades) \subseteq 1..(Len(rows.trades) + 1)
        /\ Len(rows.trades) + 1 \in 1..(Len(rows.trades) + 1)
    BY <1>5
  <2>3. QED
    BY <1>2, <1>5, <2>1, <2>2
<1>8. Settled(after)
  BY <1>1, <1>4, <1>7 DEF Settled
<1>9. QED
  BY <1>6, <1>8 DEF after

-----------------------------------------------------------------------------
(***************************************************************************)
(* One commit.                                                             *)
(***************************************************************************)
Books(rows) == rows \in Tables /\ Explained(rows) /\ Balanced(rows) /\ Settled(rows)

(* A transaction closes a position that exists and opens one that does not. *)
Targets(q, t, rows) ==
  /\ q.kind = "open" => rows.position[t] = "none"
  /\ q.kind \in {"close", "exit"} => rows.position[q.position] # "none"

(* Whatever snapshot a request decided on, the rows it commits keep their     *)
(* promises, and an end time, once set, stays.                                *)
LEMMA WrittenKeepsBooks ==
  ASSUME NEW rows, Books(rows), NEW seen \in Tables, NEW t \in Txns,
         NEW q \in Requests, Targets(q, t, rows)
  PROVE  /\ Books(Written(rows, t, q, seen))
         /\ \A s \in Sessions : rows.session[s].ended =>
                                  Written(rows, t, q, seen).session[s].ended
         /\ \A p \in Positions :
              rows.position[p] # "none" => Written(rows, t, q, seen).position[p] # "none"
         /\ \A u \in Txns \ {t} :
              rows.position[u] = "none" => Written(rows, t, q, seen).position[u] = "none"
<1> DEFINE after == Written(rows, t, q, seen)
<1> USE DEF Books
<1>1. CASE q.kind = "open"
  <2> DEFINE opened == [rows EXCEPT !.position[t] = "open"]
             filled == Filled(opened, t, q)
  <2>0. q.session \in Sessions /\ q.signal \in Signals \cup {None}
    BY <1>1, RequestFields
  <2>1. after = Spent(filled, q.signal, seen)
    BY <1>1 DEF Written
  <2>2. /\ opened \in Tables
        /\ opened.session = rows.session /\ opened.signal = rows.signal
        /\ opened.position = [rows.position EXCEPT ![t] = "open"]
        /\ opened.balance = rows.balance /\ opened.trades = rows.trades
        /\ opened.events = rows.events
    BY OpenedFields
  <2> HIDE DEF opened
  <2>3. /\ filled \in Tables
        /\ filled.session = rows.session /\ filled.signal = rows.signal
        /\ filled.position = opened.position /\ filled.balance = rows.balance
        /\ filled.trades = rows.trades /\ filled.events = rows.events
    BY <2>0, <2>2, FilledFields
  <2> HIDE DEF filled, after
  <2>4. /\ after \in Tables /\ after.session = rows.session
        /\ after.position = opened.position /\ after.balance = rows.balance
        /\ after.trades = rows.trades
    BY <2>0, <2>1, <2>3, SpentFields
  <2>5. Explained(filled)
    BY <2>3 DEF Explained
  <2>6. Explained(after)
    BY <2>0, <2>1, <2>3, <2>5, SpentExplains
  <2>7. Balanced(after)
    BY <2>4 DEF Balanced
  <2>8. /\ rows.position \in [Positions -> {"none", "open", "closed"}]
        /\ t \in Positions /\ rows.position[t] = "none"
    BY <1>1 DEF Tables, Positions, Targets
  <2>9. Settled(after)
    BY <2>2, <2>4, <2>8 DEF Settled
  <2>10. QED
    BY <2>2, <2>4, <2>6, <2>7, <2>8, <2>9 DEF after, Positions
<1>2. CASE q.kind \in {"close", "exit"}
  <2> DEFINE filled == Filled(rows, t, q)
             closed == Closed(filled, q, seen)
  <2>0. /\ q.session \in Sessions /\ q.signal \in Signals \cup {None}
        /\ q.position \in Positions /\ q.gross \in GrossPnls
        /\ rows.position[q.position] # "none"
    BY <1>2, RequestFields DEF Targets
  <2>1. after = closed \/ after = Spent(closed, q.signal, seen)
    BY <1>2 DEF Written
  <2>2. /\ filled \in Tables
        /\ filled.session = rows.session /\ filled.signal = rows.signal
        /\ filled.position = rows.position /\ filled.balance = rows.balance
        /\ filled.trades = rows.trades /\ filled.events = rows.events
    BY <2>0, FilledFields
  <2>3. Explained(filled) /\ Settled(filled) /\ Balanced(filled)
    BY <2>2 DEF Explained, Settled, Balanced
  <2> HIDE DEF filled
  <2>4. /\ closed \in Tables /\ closed.session = rows.session
        /\ closed.position = [rows.position EXCEPT ![q.position] = "closed"]
        /\ closed.signal = filled.signal /\ closed.events = filled.events
    <3>1. closed \in Tables
      BY <2>0, <2>2, ClosedType
    <3>2. /\ closed.session = filled.session /\ closed.signal = filled.signal
          /\ closed.events = filled.events
      BY <2>2, ClosedKeeps
    <3>3. closed.position = [filled.position EXCEPT ![q.position] = "closed"]
      BY <2>0, <2>2, ClosedPosition
    <3>4. QED
      BY <2>2, <3>1, <3>2, <3>3
  <2>5. Settled(closed) /\ Balanced(closed)
    BY <2>0, <2>2, <2>3, ClosedSettles
  <2>6. Explained(closed)
    BY <2>3, <2>4 DEF Explained
  <2> HIDE DEF closed, after
  <2>7. /\ after \in Tables /\ after.session = closed.session
        /\ after.position = closed.position /\ after.balance = closed.balance
        /\ after.trades = closed.trades /\ Explained(after)
    <3>1. CASE after = closed
      BY <2>4, <2>6, <3>1
    <3>2. CASE after = Spent(closed, q.signal, seen)
      <4>1. closed \in Tables /\ q.signal \in Signals \cup {None} /\ Explained(closed)
        BY <2>0, <2>4, <2>6
      <4>2. Explained(Spent(closed, q.signal, seen))
        BY <4>1, SpentExplains
      <4>3. /\ Spent(closed, q.signal, seen) \in Tables
            /\ Spent(closed, q.signal, seen).session = closed.session
            /\ Spent(closed, q.signal, seen).position = closed.position
            /\ Spent(closed, q.signal, seen).balance = closed.balance
            /\ Spent(closed, q.signal, seen).trades = closed.trades
        BY <4>1, SpentFields
      <4>4. QED
        BY <3>2, <4>2, <4>3
    <3>3. QED
      BY <2>1, <3>1, <3>2
  <2>8. Settled(after) /\ Balanced(after)
    BY <2>5, <2>7 DEF Settled, Balanced
  <2>9. rows.position \in [Positions -> {"none", "open", "closed"}]
    BY DEF Tables
  <2>10. QED
    BY <2>0, <2>4, <2>7, <2>8, <2>9 DEF after, Positions
<1>3. CASE q.kind = "command"
  <2>1. after = Commanded(rows, q)
    BY <1>3 DEF Written
  <2>2. q.session \in Sessions /\ q.to \in SessionStatuses
    BY <1>3, RequestFields
  <2> HIDE DEF after
  <2>3. /\ after \in Tables /\ after.signal = rows.signal
        /\ after.position = rows.position /\ after.balance = rows.balance
        /\ after.trades = rows.trades /\ after.events = rows.events
        /\ \A s \in Sessions : rows.session[s].ended => after.session[s].ended
    BY <2>1, <2>2, CommandedFields
  <2>4. Books(after)
    BY <2>3 DEF Explained, Balanced, Settled
  <2>5. QED
    BY <2>3, <2>4 DEF after
<1>4. CASE q.kind = "decide"
  <2>1. after = Evented(rows, q.signal, seen.signal[q.signal], q.to)
    BY <1>4 DEF Written
  <2>2. /\ q.signal \in Signals /\ q.to \in SignalStatuses
        /\ seen.signal[q.signal] \in SignalStatuses
    BY <1>4, RequestFields DEF Tables
  <2> HIDE DEF after
  <2>3. /\ after \in Tables /\ after.session = rows.session
        /\ after.position = rows.position /\ after.balance = rows.balance
        /\ after.trades = rows.trades
    BY <2>1, <2>2, EventedType, EventedKeeps
  <2>4. Explained(after)
    BY <2>1, <2>2, EventedExplains
  <2>5. Books(after)
    BY <2>3, <2>4 DEF Balanced, Settled
  <2>6. QED
    BY <2>3, <2>5 DEF after
<1>5. QED
  BY <1>1, <1>2, <1>3, <1>4, RequestFields

(* A commit reopens nothing, closes what its request closes, and adds no      *)
(* order but its own.                                                         *)
LEMMA WrittenCloses ==
  ASSUME NEW rows \in Tables, NEW seen \in Tables, NEW t \in Txns,
         NEW q \in Requests, Targets(q, t, rows)
  PROVE  /\ \A p \in Positions : rows.position[p] = "closed" =>
                                  Written(rows, t, q, seen).position[p] = "closed"
         /\ q.kind \in {"close", "exit"} =>
              Written(rows, t, q, seen).position[q.position] = "closed"
         /\ \A o \in Written(rows, t, q, seen).orders : o \in rows.orders \/ o.txn = t
<1>1. rows.position \in [Positions -> {"none", "open", "closed"}] /\ t \in Positions
  BY DEF Tables, Positions
<1>2. CASE q.kind = "open"
  <2> DEFINE opened == [rows EXCEPT !.position[t] = "open"]
             filled == Filled(opened, t, q)
  <2>1. q.signal \in Signals \cup {None}
    BY <1>2, RequestFields
  <2>2. Written(rows, t, q, seen) = Spent(filled, q.signal, seen)
    BY <1>2 DEF Written
  <2>3. /\ opened \in Tables /\ opened.orders = rows.orders
        /\ opened.position = [rows.position EXCEPT ![t] = "open"]
    BY OpenedFields
  <2> HIDE DEF opened
  <2>4. /\ filled \in Tables /\ filled.position = opened.position
        /\ \A o \in filled.orders : o \in opened.orders \/ o.txn = t
    BY <2>1, <2>3, FilledFields
  <2> HIDE DEF filled
  <2>5. /\ Spent(filled, q.signal, seen).position = filled.position
        /\ Spent(filled, q.signal, seen).orders = filled.orders
    BY <2>1, <2>4, SpentFields
  <2>6. rows.position[t] = "none"
    BY <1>2 DEF Targets
  <2>7. QED
    BY <1>1, <1>2, <2>2, <2>3, <2>4, <2>5, <2>6
<1>3. CASE q.kind \in {"close", "exit"}
  <2> DEFINE filled == Filled(rows, t, q)
             closed == Closed(filled, q, seen)
  <2>1. /\ q.signal \in Signals \cup {None}
        /\ q.position \in Positions /\ q.gross \in GrossPnls
    BY <1>3, RequestFields
  <2>2. \/ Written(rows, t, q, seen) = closed
        \/ Written(rows, t, q, seen) = Spent(closed, q.signal, seen)
    BY <1>3 DEF Written
  <2>3. /\ filled \in Tables /\ filled.position = rows.position
        /\ \A o \in filled.orders : o \in rows.orders \/ o.txn = t
    BY <2>1, FilledFields
  <2> HIDE DEF filled
  <2>4. closed \in Tables /\ closed.orders = filled.orders
    BY <2>1, <2>3, ClosedType, ClosedKeeps
  <2>5. closed.position = [filled.position EXCEPT ![q.position] = "closed"]
    BY <2>1, <2>3, ClosedPosition
  <2> HIDE DEF closed
  <2>6. /\ Spent(closed, q.signal, seen).position = closed.position
        /\ Spent(closed, q.signal, seen).orders = closed.orders
    BY <2>1, <2>4, SpentFields
  <2>7. /\ Written(rows, t, q, seen).position = closed.position
        /\ Written(rows, t, q, seen).orders = closed.orders
    BY <2>2, <2>6
  <2>8. QED
    BY <1>1, <2>1, <2>3, <2>4, <2>5, <2>7
<1>4. CASE q.kind = "command"
  <2>1. /\ Written(rows, t, q, seen) = Commanded(rows, q)
        /\ q.session \in Sessions /\ q.to \in SessionStatuses
    BY <1>4, RequestFields DEF Written
  <2>2. /\ Commanded(rows, q).position = rows.position
        /\ Commanded(rows, q).orders = rows.orders
    BY <2>1, CommandedFields
  <2>3. QED
    BY <1>4, <2>1, <2>2
<1>5. CASE q.kind = "decide"
  <2>1. Written(rows, t, q, seen) =
          Evented(rows, q.signal, seen.signal[q.signal], q.to)
    BY <1>5 DEF Written
  <2>2. QED
    BY <1>5, <2>1, EventedKeeps
<1>6. QED
  BY <1>2, <1>3, <1>4, <1>5, RequestFields

-----------------------------------------------------------------------------
(***************************************************************************)
(* The inductive invariant.                                                *)
(***************************************************************************)
Statuses == {"new", "working", "done", "failed"}

(* The position a request opens is not there before its commit. *)
Fresh == \A t \in Txns : db.position[t] # "none" => phase[t] = "done"

(* A working request is a request, and the position it closes exists. *)
Working ==
  \A t \in Txns : phase[t] = "working" =>
    /\ request[t] \in Requests
    /\ request[t].kind \in {"close", "exit"} =>
         db.position[request[t].position] # "none"

RowsInv ==
  /\ Books(db) /\ SatisfiesConstraints(db)
  /\ view \in [Txns -> Tables]
  /\ request \in [Txns -> Requests \cup {NoRequest}]
  /\ phase \in [Txns -> Statuses]
  /\ Fresh /\ Working

(* The rows the requests start from keep the promises. *)
LEMMA FirstBooks == Books(FirstRows) /\ SatisfiesConstraints(FirstRows)
<1>1. FirstRows \in Tables
  <2>1. << >> \in Seq(TradeRows) /\ << >> \in Seq(EventRows)
    OBVIOUS
  <2>2. {} \in SUBSET OrderRows
    OBVIOUS
  <2>3. [g \in Signals |-> << >>] \in [Signals -> Seq(EventRows)]
    BY <2>1
  <2>4. [s \in Sessions |-> [status |-> "running", ended |-> FALSE]] \in
          [Sessions -> [status : SessionStatuses, ended : BOOLEAN]]
    BY Constants
  <2>5. [g \in Signals |-> "approved"] \in [Signals -> SignalStatuses]
    BY Constants
  <2>6. [p \in Positions |-> IF p \in Held THEN "open" ELSE "none"] \in
          [Positions -> {"none", "open", "closed"}]
    OBVIOUS
  <2>7. QED
    BY <2>1, <2>2, <2>3, <2>4, <2>5, <2>6, Constants DEF FirstRows, Tables
<1>2. Explained(FirstRows)
  BY DEF Explained, FirstRows
<1>3. Balanced(FirstRows)
  BY DEF Balanced, FirstRows
<1>4. Settled(FirstRows)
  <2>1. DOMAIN FirstRows.trades = {}
    BY DEF FirstRows
  <2>2. \A p \in Positions : FirstRows.position[p] # "closed"
    BY DEF FirstRows
  <2>3. QED
    BY <2>1, <2>2 DEF Settled
<1>5. SatisfiesConstraints(FirstRows)
  BY Constants DEF SatisfiesConstraints, FirstRows
<1>6. QED
  BY <1>1, <1>2, <1>3, <1>4, <1>5 DEF Books

(* The inductive invariant holds initially. *)
LEMMA RowsInvInit == Init => RowsInv
<1> SUFFICES ASSUME Init PROVE RowsInv
  OBVIOUS
<1>1. db = FirstRows /\ view = [t \in Txns |-> FirstRows]
      /\ request = [t \in Txns |-> NoRequest] /\ phase = [t \in Txns |-> "new"]
  BY DEF Init
<1>2. Books(db) /\ SatisfiesConstraints(db) /\ view \in [Txns -> Tables]
  BY <1>1, FirstBooks DEF Books
<1>3. Fresh
  <2>1. \A t \in Txns : FirstRows.position[t] = "none"
    BY RequestsAssumption DEF FirstRows, Positions
  <2>2. QED
    BY <1>1, <2>1 DEF Fresh
<1>4. Working
  BY <1>1 DEF Working
<1>5. QED
  BY <1>1, <1>2, <1>3, <1>4 DEF RowsInv, Statuses

(* A request that rolls back changes no row. *)
LEMMA RollBackStep ==
  ASSUME RowsInv, NEW t \in Txns, RollBack(t), phase[t] = "working"
  PROVE  RowsInv'
<1>1. /\ UNCHANGED <<db, request, view>>
      /\ phase' = [phase EXCEPT ![t] = "failed"]
  BY DEF RollBack
<1>2. phase' \in [Txns -> Statuses]
      /\ \A u \in Txns : /\ phase[u] = "done" => phase'[u] = "done"
                         /\ phase'[u] = "working" => phase[u] = "working"
  BY <1>1 DEF RowsInv, Statuses
<1>3. QED
  BY <1>1, <1>2 DEF RowsInv, Fresh, Working, Books, Explained, Balanced, Settled,
                    SatisfiesConstraints

(* What a commit may write. *)
LEMMA CommitWrites ==
  ASSUME RowsInv, NEW t \in Txns, Commit(t)
  PROVE  /\ phase[t] = "working"
         /\ Books(db') /\ SatisfiesConstraints(db')
         /\ \A s \in Sessions : db.session[s].ended => db'.session[s].ended
         /\ \A p \in Positions : db.position[p] # "none" => db'.position[p] # "none"
         /\ \A u \in Txns \ {t} : db.position[u] = "none" => db'.position[u] = "none"
<1>1. /\ phase[t] = "working"
      /\ db' = Written(db, t, request[t], view[t])
      /\ SatisfiesConstraints(db')
  BY DEF Commit, Ready
<1>2. request[t] \in Requests /\ view[t] \in Tables /\ Books(db)
  BY <1>1 DEF RowsInv, Working
<1>3. Targets(request[t], t, db)
  BY <1>1, <1>2 DEF RowsInv, Fresh, Working, Targets
<1>4. QED
  BY <1>1, <1>2, <1>3, WrittenKeepsBooks

(* Every step of every request keeps the inductive invariant. *)
LEMMA RowsInvStep == RowsInv /\ [Next]_vars => RowsInv'
<1> SUFFICES ASSUME RowsInv, [Next]_vars PROVE RowsInv'
  OBVIOUS
<1>1. ASSUME NEW t \in Txns, Begin(t) PROVE RowsInv'
  <2>1. PICK q \in Requests : /\ Accepts(q, db)
                              /\ request' = [request EXCEPT ![t] = q]
    BY <1>1 DEF Begin
  <2>2. /\ phase[t] = "new" /\ UNCHANGED db
        /\ view' = [view EXCEPT ![t] = db]
        /\ phase' = [phase EXCEPT ![t] = "working"]
    BY <1>1 DEF Begin
  <2>3. /\ view' \in [Txns -> Tables] /\ phase' \in [Txns -> Statuses]
        /\ request' \in [Txns -> Requests \cup {NoRequest}]
    BY <2>1, <2>2 DEF RowsInv, Books, Statuses
  <2>4. Fresh'
    BY <2>2 DEF RowsInv, Fresh, Statuses
  <2>5. q.kind \in {"close", "exit"} => db.position[q.position] = "open"
    BY <2>1 DEF Accepts
  <2>6. Working'
    BY <2>1, <2>2, <2>5 DEF RowsInv, Working, Statuses
  <2>7. Books(db)' /\ SatisfiesConstraints(db)'
    BY <2>2 DEF RowsInv, Books, Explained, Balanced, Settled, SatisfiesConstraints
  <2>8. QED
    BY <2>3, <2>4, <2>6, <2>7 DEF RowsInv
<1>2. ASSUME NEW t \in Txns, Acquire(t) PROVE RowsInv'
  BY <1>2 DEF Acquire, RowsInv, Fresh, Working, Books, Explained, Balanced, Settled,
              SatisfiesConstraints
<1>3. ASSUME NEW t \in Txns, Commit(t) PROVE RowsInv'
  <2>1. /\ phase[t] = "working" /\ Books(db') /\ SatisfiesConstraints(db')
        /\ \A p \in Positions : db.position[p] # "none" => db'.position[p] # "none"
        /\ \A u \in Txns \ {t} : db.position[u] = "none" => db'.position[u] = "none"
    BY <1>3, CommitWrites
  <2>2. /\ UNCHANGED <<request, view>> /\ phase' = [phase EXCEPT ![t] = "done"]
    BY <1>3 DEF Commit
  <2>3. phase' \in [Txns -> Statuses] /\ phase'[t] = "done"
        /\ \A u \in Txns \ {t} : phase'[u] = phase[u]
    BY <2>2 DEF RowsInv, Statuses
  <2>4. Fresh'
    BY <2>1, <2>3 DEF RowsInv, Fresh
  <2>5. Working'
    <3>1. SUFFICES ASSUME NEW u \in Txns, phase'[u] = "working"
                   PROVE  /\ request'[u] \in Requests
                          /\ request'[u].kind \in {"close", "exit"} =>
                               db'.position[request'[u].position] # "none"
      BY DEF Working
    <3>2. phase[u] = "working" /\ request'[u] = request[u]
      BY <2>2, <2>3, <3>1
    <3>3. /\ request[u] \in Requests
          /\ request[u].kind \in {"close", "exit"} =>
               db.position[request[u].position] # "none"
      BY <3>2 DEF RowsInv, Working
    <3>4. request[u].kind \in {"close", "exit"} => request[u].position \in Positions
      BY <3>3, RequestFields
    <3>5. QED
      BY <2>1, <3>2, <3>3, <3>4
  <2>6. Books(db)' /\ SatisfiesConstraints(db)'
    BY <2>1 DEF Books, Explained, Balanced, Settled, SatisfiesConstraints
  <2>7. QED
    BY <2>2, <2>3, <2>4, <2>5, <2>6 DEF RowsInv
<1>4. ASSUME NEW t \in Txns, Violate(t) PROVE RowsInv'
  BY <1>4, RollBackStep DEF Violate, Ready
<1>5. ASSUME NEW t \in Txns, BreakDeadlock(t) PROVE RowsInv'
  <2>1. \E w : t \in Blockers(w) /\ Blockers(t) # {}
    BY <1>5 DEF BreakDeadlock, Deadlocked
  <2>2. phase[t] = "working"
    BY <2>1 DEF Blockers
  <2>3. QED
    BY <1>5, <2>2, RollBackStep DEF BreakDeadlock
<1>6. ASSUME NEW t \in Txns, Abandon(t) PROVE RowsInv'
  BY <1>6, RollBackStep DEF Abandon
<1>7. ASSUME UNCHANGED vars PROVE RowsInv'
  BY <1>7 DEF vars, RowsInv, Fresh, Working, Books, Explained, Balanced, Settled,
              SatisfiesConstraints
<1>8. QED
  BY <1>1, <1>2, <1>3, <1>4, <1>5, <1>6, <1>7 DEF Next

(* The rows always satisfy the inductive invariant. *)
THEOREM RowsCorrect == Spec => []RowsInv
BY RowsInvInit, RowsInvStep, PTL DEF Spec

(***************************************************************************)
(* What a request has read: orders of requests that were done, and of a    *)
(* position they closed that it is closed; what it closes it read open.    *)
(***************************************************************************)
ReadInv ==
  /\ \A o \in db.orders : phase[o.txn] = "done"
  /\ \A u \in Txns : \A o \in view[u].orders : phase[o.txn] = "done"
  /\ \A p \in Positions : \A t \in Closers(p) : db.position[p] = "closed"
  /\ \A p \in Positions : \A t \in Closers(p) : \A u \in Txns :
       HasRead(u, t) => view[u].position[p] = "closed"
  /\ \A u \in Txns :
       phase[u] \in {"working", "done"} /\ request[u].kind \in {"close", "exit"} =>
         view[u].position[request[u].position] = "open"

(* A step that writes nothing and leaves nobody done disturbs none of it.     *)
LEMMA ReadKept ==
  ASSUME RowsInv, ReadInv, UNCHANGED <<db, request, view>>,
         \A u \in Txns : /\ phase'[u] = "done" <=> phase[u] = "done"
                         /\ phase'[u] = "working" => phase[u] = "working"
  PROVE  ReadInv'
<1>1. \A p \in Positions : Closers(p)' = Closers(p)
  BY DEF Closers
<1>2. \A t, u \in Txns : HasRead(u, t)' <=> HasRead(u, t)
  BY DEF HasRead
<1>3. /\ \A o \in db.orders : o.txn \in Txns
      /\ \A u \in Txns : \A o \in view[u].orders : o.txn \in Txns
  BY DEF RowsInv, Books, Tables, OrderRows
<1>4. \A p \in Positions : Closers(p) \subseteq Txns
  BY DEF Closers
<1>5. QED
  BY <1>1, <1>2, <1>3, <1>4 DEF ReadInv

(* Every step keeps it: a new request reads committed rows, and a commit adds *)
(* rows nobody has read.                                                      *)
LEMMA ReadStep == RowsInv /\ ReadInv /\ [Next]_vars => ReadInv'
<1> SUFFICES ASSUME RowsInv, ReadInv, [Next]_vars PROVE ReadInv'
  OBVIOUS
<1>0. /\ \A o \in db.orders : o.txn \in Txns
      /\ \A u \in Txns : \A o \in view[u].orders : o.txn \in Txns
      /\ \A p \in Positions : Closers(p) \subseteq Txns
  BY DEF RowsInv, Books, Tables, OrderRows, Closers
<1>1. ASSUME NEW t \in Txns, Begin(t) PROVE ReadInv'
  <2>1. PICK q \in Requests : /\ Accepts(q, db)
                              /\ request' = [request EXCEPT ![t] = q]
    BY <1>1 DEF Begin
  <2>2. /\ phase[t] = "new" /\ UNCHANGED db
        /\ view' = [view EXCEPT ![t] = db]
        /\ phase' = [phase EXCEPT ![t] = "working"]
    BY <1>1 DEF Begin
  <2>3. /\ request'[t] = q /\ view'[t] = db /\ phase'[t] = "working"
        /\ \A u \in Txns \ {t} : /\ request'[u] = request[u] /\ view'[u] = view[u]
                                 /\ phase'[u] = phase[u]
    BY <2>1, <2>2 DEF RowsInv
  <2>4. \A p \in Positions : Closers(p)' = Closers(p)
    BY <2>2, <2>3 DEF Closers
  <2>5. q.kind \in {"close", "exit"} => db.position[q.position] = "open"
    BY <2>1 DEF Accepts
  <2>6. /\ \A o \in db'.orders : phase'[o.txn] = "done"
        /\ \A u \in Txns : \A o \in view'[u].orders : phase'[o.txn] = "done"
    BY <1>0, <2>2, <2>3 DEF ReadInv
  <2>7. \A p \in Positions : \A c \in Closers(p) : \A u \in Txns :
          HasRead(u, c)' => view'[u].position[p] = "closed"
    BY <2>3 DEF ReadInv, HasRead
  <2>8. \A u \in Txns :
          phase'[u] \in {"working", "done"} /\ request'[u].kind \in {"close", "exit"} =>
            view'[u].position[request'[u].position] = "open"
    BY <2>3, <2>5 DEF ReadInv
  <2>9. QED
    BY <2>2, <2>4, <2>6, <2>7, <2>8 DEF ReadInv
<1>2. ASSUME NEW t \in Txns, Commit(t) PROVE ReadInv'
  <2>1. /\ phase[t] = "working" /\ db' = Written(db, t, request[t], view[t])
        /\ phase' = [phase EXCEPT ![t] = "done"] /\ UNCHANGED <<request, view>>
    BY <1>2 DEF Commit, Ready
  <2>2. /\ request[t] \in Requests /\ view[t] \in Tables /\ db \in Tables
        /\ Targets(request[t], t, db)
    BY <2>1 DEF RowsInv, Books, Fresh, Working, Targets
  <2>3. /\ \A p \in Positions : db.position[p] = "closed" => db'.position[p] = "closed"
        /\ request[t].kind \in {"close", "exit"} =>
             db'.position[request[t].position] = "closed"
        /\ \A o \in db'.orders : o \in db.orders \/ o.txn = t
    BY <2>1, <2>2, WrittenCloses
  <2>4. phase'[t] = "done" /\ \A u \in Txns \ {t} : phase'[u] = phase[u]
    BY <2>1 DEF RowsInv
  <2>5. \A p \in Positions : \A c \in Closers(p)' :
          \/ c \in Closers(p)
          \/ c = t /\ request[t].kind \in {"close", "exit"} /\ request[t].position = p
    BY <2>1, <2>4 DEF Closers
  <2>6. /\ \A o \in db'.orders : phase'[o.txn] = "done"
        /\ \A u \in Txns : \A o \in view'[u].orders : phase'[o.txn] = "done"
    BY <1>0, <2>1, <2>3, <2>4 DEF ReadInv
  <2>7. \A p \in Positions : \A c \in Closers(p)' : db'.position[p] = "closed"
    BY <2>3, <2>5 DEF ReadInv
  <2>8. \A u \in Txns : ~HasRead(u, t)
    BY <2>1 DEF ReadInv, HasRead
  <2>9. \A p \in Positions : \A c \in Closers(p)' : \A u \in Txns :
          HasRead(u, c)' => view'[u].position[p] = "closed"
    BY <2>1, <2>5, <2>8 DEF ReadInv, HasRead
  <2>10. \A u \in Txns :
           phase'[u] \in {"working", "done"} /\ request'[u].kind \in {"close", "exit"} =>
             view'[u].position[request'[u].position] = "open"
    BY <2>1, <2>4 DEF ReadInv
  <2>11. QED
    BY <2>6, <2>7, <2>9, <2>10 DEF ReadInv
<1>3. ASSUME NEW t \in Txns, Acquire(t) PROVE ReadInv'
  <2>1. UNCHANGED <<db, request, view, phase>>
    BY <1>3 DEF Acquire
  <2>2. QED
    BY <2>1, ReadKept
<1>4. ASSUME NEW t \in Txns, phase[t] = "working", RollBack(t) PROVE ReadInv'
  <2>1. /\ UNCHANGED <<db, request, view>>
        /\ \A u \in Txns : /\ phase'[u] = "done" <=> phase[u] = "done"
                           /\ phase'[u] = "working" => phase[u] = "working"
    <3>1. UNCHANGED <<db, request, view>> /\ phase' = [phase EXCEPT ![t] = "failed"]
      BY <1>4 DEF RollBack
    <3>2. phase \in [Txns -> Statuses]
      BY DEF RowsInv
    <3>3. QED
      BY <1>4, <3>1, <3>2
  <2>2. QED
    BY <2>1, ReadKept
<1>5. ASSUME NEW t \in Txns, Violate(t) \/ BreakDeadlock(t) \/ Abandon(t)
      PROVE  ReadInv'
  <2>1. phase[t] = "working" /\ RollBack(t)
    BY <1>5 DEF Violate, Ready, BreakDeadlock, Deadlocked, Blockers, Abandon
  <2>2. QED
    BY <1>4, <2>1
<1>6. CASE UNCHANGED vars
  BY <1>6, ReadKept DEF vars
<1>7. QED
  BY <1>1, <1>2, <1>3, <1>5, <1>6 DEF Next

(* However requests overlap, fail or deadlock, a position is closed exactly   *)
(* when a trade was booked for it (one transaction around close_position),    *)
(* and only requests neither of which read the other's rows both close it.    *)
THEOREM NoHalfClose == Spec => []ClosedIffTraded
<1>1. Init => ReadInv
  BY DEF Init, FirstRows, ReadInv, Closers, HasRead, NoRequest
<1>2. RowsInv /\ ReadInv => ClosedIffTraded
  <2>1. SUFFICES ASSUME RowsInv, ReadInv PROVE ClosedIffTraded
    OBVIOUS
  <2>2. ASSUME NEW p \in Positions, NEW t \in Closers(p), NEW u \in Closers(p)
        PROVE  ~HasRead(t, u)
    <3>1. t \in Txns /\ view[t].position[p] = "open"
      BY <2>1, <2>2 DEF ReadInv, Closers
    <3>2. QED
      BY <2>1, <2>2, <3>1 DEF ReadInv
  <2>3. QED
    BY <2>1, <2>2 DEF RowsInv, Books, Settled, ClosedIffTraded
<1>3. QED
  BY <1>1, <1>2, ReadStep, RowsCorrect, PTL DEF Spec

(* A signal's status is what its last audit row says, whichever of two        *)
(* requests on it committed last (transition_signal).                         *)
THEOREM TrailFollowsStatus == Spec => []LastEventIsStatus
<1>1. RowsInv => LastEventIsStatus
  BY DEF RowsInv, Books, Explained, LastEventIsStatus
<1>2. QED
  BY <1>1, RowsCorrect, PTL

(* However many updates are lost, the balance is the first one or one that a  *)
(* trade reports (_apply_realized_pnl).                                       *)
THEOREM BalanceHasItsTrade == Spec => []BalanceIsReported
<1>1. RowsInv => BalanceIsReported
  BY DEF RowsInv, Books, Balanced, BalanceIsReported
<1>2. QED
  BY <1>1, RowsCorrect, PTL

(* No stale command reopens a run: transition_session never clears the end    *)
(* time, and the schema refuses an open run that has one.                     *)
THEOREM EndsAreFinal == Spec => EndedRunStaysEnded
<1> DEFINE Ended == \A s \in Sessions :
             db.session[s].status \in TerminalSessionStatuses =>
               db'.session[s].status \in TerminalSessionStatuses
<1>1. ASSUME RowsInv, RowsInv', [Next]_vars PROVE [Ended]_vars
  <2>1. SUFFICES ASSUME ~UNCHANGED vars PROVE Ended
    OBVIOUS
  <2>2. SatisfiesConstraints(db) /\ SatisfiesConstraints(db')
    BY <1>1 DEF RowsInv, SatisfiesConstraints
  <2>3. \A s \in Sessions : db.session[s].ended => db'.session[s].ended
    <3>1. ASSUME NEW t \in Txns, Commit(t)
          PROVE  \A s \in Sessions : db.session[s].ended => db'.session[s].ended
      BY <1>1, <3>1, CommitWrites
    <3>2. ASSUME UNCHANGED db
          PROVE  \A s \in Sessions : db.session[s].ended => db'.session[s].ended
      BY <3>2
    <3>3. (\E t \in Txns : Commit(t)) \/ UNCHANGED db
      BY <1>1 DEF Next, vars, Begin, Acquire, Violate, BreakDeadlock, Abandon, RollBack
    <3>4. QED
      BY <3>1, <3>2, <3>3
  <2>4. QED
    BY <2>2, <2>3 DEF SatisfiesConstraints
<1>2. QED
  BY <1>1, RowsCorrect, PTL DEF Spec, EndedRunStaysEnded

-----------------------------------------------------------------------------
(***************************************************************************)
(* Locks: nobody holds more than its plan.                                 *)
(***************************************************************************)
Locks == [row : {Account} \cup Sessions \cup Signals \cup Positions, mode : {"S", "X"}]

(* The plan of a request is a sequence of locks. *)
LEMMA PlanType ==
  ASSUME NEW q \in Requests \cup {NoRequest}
  PROVE  Plan(q) \in Seq(Locks) /\ Len(Plan(q)) \in Nat
<1>1. \A row \in {Account} \cup Sessions \cup Signals \cup Positions :
        Share(row) \in Locks /\ Own(row) \in Locks
  BY DEF Share, Own, Locks
<1>2. ASSUME q.signal \in Signals \cup {None}
      PROVE  /\ OnSignal(q, Share(q.signal)) \in Seq(Locks)
             /\ OnSignal(q, Own(q.signal)) \in Seq(Locks)
  BY <1>1, <1>2 DEF OnSignal
<1>3. CASE q.kind = "open"
  <2>1. q.session \in Sessions /\ q.signal \in Signals \cup {None}
    BY <1>3, RequestFields DEF NoRequest
  <2>2. <<Share(Account), Share(q.session)>> \in Seq(Locks)
    BY <1>1, <2>1
  <2>3. Plan(q) = <<Share(Account), Share(q.session)>>
                    \o OnSignal(q, Share(q.signal)) \o OnSignal(q, Own(q.signal))
    BY <1>3 DEF Plan
  <2>4. Plan(q) \in Seq(Locks)
    BY <1>2, <2>1, <2>2, <2>3
  <2>5. QED
    BY <2>4
<1>4. CASE q.kind = "close"
  <2>1. q.session \in Sessions /\ q.signal \in Signals \cup {None} /\ q.position \in Positions
    BY <1>4, RequestFields DEF NoRequest
  <2>2. /\ <<Share(Account), Share(q.session)>> \in Seq(Locks)
        /\ <<Share(q.position), Own(Account), Own(q.position)>> \in Seq(Locks)
    BY <1>1, <2>1
  <2>3. Plan(q) = <<Share(Account), Share(q.session)>> \o OnSignal(q, Share(q.signal))
                    \o <<Share(q.position), Own(Account), Own(q.position)>>
                    \o OnSignal(q, Own(q.signal))
    BY <1>4 DEF Plan
  <2>4. Plan(q) \in Seq(Locks)
    BY <1>2, <2>1, <2>2, <2>3
  <2>5. QED
    BY <2>4
<1>5. CASE q.kind = "exit"
  <2>1. q.session \in Sessions /\ q.signal \in Signals \cup {None} /\ q.position \in Positions
    BY <1>5, RequestFields DEF NoRequest
  <2>2. /\ <<Share(Account), Share(q.session)>> \in Seq(Locks)
        /\ <<Share(q.position), Own(Account), Own(q.position)>> \in Seq(Locks)
    BY <1>1, <2>1
  <2>3. Plan(q) = <<Share(Account), Share(q.session)>> \o OnSignal(q, Share(q.signal))
                    \o <<Share(q.position), Own(Account), Own(q.position)>>
    BY <1>5 DEF Plan
  <2>4. Plan(q) \in Seq(Locks)
    BY <1>2, <2>1, <2>2, <2>3
  <2>5. QED
    BY <2>4
<1>6. CASE q.kind = "command"
  <2>1. q.session \in Sessions /\ Plan(q) = <<Own(q.session)>>
    BY <1>6, RequestFields DEF NoRequest, Plan
  <2>2. QED
    BY <1>1, <2>1
<1>7. CASE q.kind = "decide"
  <2>1. q.signal \in Signals /\ Plan(q) = <<Own(q.signal)>>
    BY <1>7, RequestFields DEF NoRequest, Plan
  <2>2. QED
    BY <1>1, <2>1
<1>8. CASE q.kind = "none"
  <2>1. Plan(q) = << >>
    BY <1>8 DEF Plan
  <2>2. QED
    BY <2>1
<1>9. QED
  BY <1>3, <1>4, <1>5, <1>6, <1>7, <1>8, RequestFields DEF NoRequest

(* A request that has not begun holds no lock. *)
LocksInv ==
  /\ granted \in [Txns -> Nat]
  /\ \A t \in Txns : /\ granted[t] <= Len(Plan(request[t]))
                     /\ phase[t] = "new" => granted[t] = 0

(* Every step keeps the locks within their plans. *)
LEMMA LocksStep == RowsInv /\ LocksInv /\ [Next]_vars => LocksInv'
<1> SUFFICES ASSUME RowsInv, LocksInv, [Next]_vars PROVE LocksInv'
  OBVIOUS
<1>1. ASSUME NEW t \in Txns, Begin(t) PROVE LocksInv'
  <2>1. PICK q \in Requests : request' = [request EXCEPT ![t] = q]
    BY <1>1 DEF Begin
  <2>2. /\ phase[t] = "new" /\ UNCHANGED granted
        /\ phase' = [phase EXCEPT ![t] = "working"]
    BY <1>1 DEF Begin
  <2>3. granted[t] = 0 /\ Len(Plan(q)) \in Nat
    BY <2>2, PlanType DEF LocksInv
  <2>4. ASSUME NEW u \in Txns
        PROVE  /\ granted'[u] <= Len(Plan(request'[u]))
               /\ phase'[u] = "new" => granted'[u] = 0
    <3>1. CASE u = t
      BY <2>1, <2>2, <2>3, <3>1 DEF RowsInv
    <3>2. CASE u # t
      BY <2>1, <2>2, <3>2 DEF RowsInv, LocksInv
    <3>3. QED
      BY <3>1, <3>2
  <2>5. QED
    BY <2>2, <2>4 DEF LocksInv
<1>2. ASSUME NEW t \in Txns, Acquire(t) PROVE LocksInv'
  <2>1. /\ phase[t] = "working" /\ granted[t] # Len(Plan(request[t]))
        /\ granted' = [granted EXCEPT ![t] = @ + 1] /\ UNCHANGED <<request, phase>>
    BY <1>2 DEF Acquire, Ready
  <2>2. Len(Plan(request[t])) \in Nat
    BY PlanType DEF RowsInv
  <2>3. granted[t] + 1 <= Len(Plan(request[t]))
    BY <2>1, <2>2 DEF LocksInv
  <2>4. QED
    BY <2>1, <2>3 DEF LocksInv
<1>3. ASSUME NEW t \in Txns, phase[t] = "working",
             UNCHANGED <<request, granted>>,
             \E end \in {"done", "failed"} : phase' = [phase EXCEPT ![t] = end]
      PROVE  LocksInv'
  BY <1>3 DEF RowsInv, LocksInv
<1>4. ASSUME NEW t \in Txns,
             Commit(t) \/ Violate(t) \/ BreakDeadlock(t) \/ Abandon(t)
      PROVE  LocksInv'
  <2>1. phase[t] = "working" /\ UNCHANGED <<request, granted>>
    BY <1>4 DEF Commit, Violate, Ready, BreakDeadlock, Deadlocked, Blockers, Abandon, RollBack
  <2>2. \E end \in {"done", "failed"} : phase' = [phase EXCEPT ![t] = end]
    BY <1>4 DEF Commit, Violate, BreakDeadlock, Abandon, RollBack
  <2>3. QED
    BY <1>3, <2>1, <2>2
<1>5. CASE UNCHANGED vars
  BY <1>5 DEF vars, LocksInv
<1>6. QED
  BY <1>1, <1>2, <1>4, <1>5 DEF Next

(* Rows keep their types, committed or read, and no request takes a lock it   *)
(* has not planned: granted locks only ever reach the end of the plan.        *)
THEOREM TypeCorrect == Spec => []TypeOK
<1>1. ASSUME Init PROVE LocksInv
  <2>1. \A t \in Txns : Len(Plan(request[t])) \in Nat
    BY <1>1, PlanType DEF Init
  <2>2. QED
    BY <1>1, <2>1 DEF Init, LocksInv
<1>2. RowsInv /\ LocksInv => TypeOK
  BY DEF RowsInv, LocksInv, Books, Statuses, TypeOK
<1>3. QED
  BY <1>1, <1>2, LocksStep, RowsCorrect, PTL DEF Spec
=============================================================================
