-------------------------- MODULE SimulatedTradingProofs --------------------------
(* The two components that trade without a venue keep their books right, for  *)
(* every configuration and every sequence of calls or of bars: the invariants *)
(* of the in-memory broker (MemoryBroker), then those of a backtest run       *)
(* (Backtest).  Both rest on the theorems about sums.                         *)
EXTENDS MemoryBroker, Backtest, SumTheorems, SequenceTheorems

-----------------------------------------------------------------------------
(* The in-memory broker: its books agree after every sequence of calls, the   *)
(* ones that raise half-way included, for every set of quantities, prices,    *)
(* times and commissions.                                                     *)

Statuses == {"accepted", "partially_filled"} \cup Terminal
OrderRows == [action : Actions, quantity : Nat, filled : Nat, status : Statuses]
FillRows == [order : Nat, quantity : Nat, price : Nat, at : Nat, commission : Nat]
PositionRows == [side : {"buy", "sell"}, quantity : Nat, entry : Nat, opened : Nat,
                 closed : Nat, realized : Int]
TradeRows == [position : Nat, quantity : Nat, gross : Int, commission : Nat, after : Int]

(* Types, and what the rows refer to: an orphan is a fill of a closing order. *)
RowsFit ==
  /\ orders \in Seq(OrderRows)
  /\ fills \in Seq(FillRows)
  /\ positions \in Seq(PositionRows)
  /\ trades \in Seq(TradeRows)
  /\ balance \in Int
  /\ \A i \in DOMAIN fills : fills[i].order \in DOMAIN orders
  /\ \A i \in DOMAIN trades : trades[i].position \in DOMAIN positions
  /\ orphans \subseteq ClosingFills

IInv == RowsFit /\ NothingClosedUnfilled /\ BalanceAddsUp /\ TradesExplainPositions

-----------------------------------------------------------------------------
(* The rows of a table are finitely many.                                     *)
LEMMA FiniteRows ==
  ASSUME NEW T, NEW s \in Seq(T)
  PROVE  /\ Len(s) \in Nat /\ DOMAIN s = 1 .. Len(s)
         /\ IsFiniteSet(DOMAIN s)
         /\ \A S \in SUBSET DOMAIN s : IsFiniteSet(S)
<1>1. Len(s) \in Nat /\ DOMAIN s = 1 .. Len(s)
  OBVIOUS
<1>2. IsFiniteSet(1 .. Len(s))
  BY <1>1, FS_Interval
<1>3. IsFiniteSet(DOMAIN s)
  BY <1>1, <1>2
<1>. QED
  BY <1>1, <1>3, FS_Subset

(* A table with one more row.                                                 *)
LEMMA OneMoreRow ==
  ASSUME NEW T, NEW s \in Seq(T), NEW row \in T
  PROVE  LET n == Len(s) + 1 IN
         /\ Append(s, row) \in Seq(T)
         /\ Len(Append(s, row)) = n
         /\ DOMAIN Append(s, row) = DOMAIN s \cup {n}
         /\ n \in Nat /\ n \notin DOMAIN s
         /\ \A i \in DOMAIN s : Append(s, row)[i] = s[i]
         /\ Append(s, row)[n] = row
<1>1. Len(s) \in Nat /\ DOMAIN s = 1 .. Len(s)
  OBVIOUS
<1>2. /\ Append(s, row) \in Seq(T)
      /\ Len(Append(s, row)) = Len(s) + 1
      /\ \A i \in 1 .. Len(s) : Append(s, row)[i] = s[i]
      /\ Append(s, row)[Len(s) + 1] = row
  BY AppendProperties
<1>3. DOMAIN Append(s, row) = 1 .. Len(s) + 1
  BY <1>1, <1>2
<1>4. 1 .. Len(s) + 1 = (1 .. Len(s)) \cup {Len(s) + 1}
  BY <1>1
<1>. QED
  BY <1>1, <1>2, <1>3, <1>4

(* The columns hold integers.                                                 *)
LEMMA ColumnTypes ==
  ASSUME RowsFit
  PROVE  /\ \A i \in DOMAIN fills : Filled[i] \in Int /\ Charged[i] \in Int
         /\ \A p \in DOMAIN positions :
              Opened[p] \in Int /\ Closed[p] \in Int /\ Realized[p] \in Int
         /\ \A i \in DOMAIN trades : Traded[i] \in Int /\ Earned[i] \in Int
<1>1. ASSUME NEW i \in DOMAIN fills PROVE Filled[i] \in Int /\ Charged[i] \in Int
  <2>1. fills[i] \in FillRows
    BY ElementOfSeq DEF RowsFit
  <2>. QED
    BY <2>1 DEF FillRows, Filled, Charged
<1>2. ASSUME NEW p \in DOMAIN positions
      PROVE  Opened[p] \in Int /\ Closed[p] \in Int /\ Realized[p] \in Int
  <2>1. positions[p] \in PositionRows
    BY ElementOfSeq DEF RowsFit
  <2>. QED
    BY <2>1 DEF PositionRows, Opened, Closed, Realized
<1>3. ASSUME NEW i \in DOMAIN trades PROVE Traded[i] \in Int /\ Earned[i] \in Int
  <2>1. trades[i] \in TradeRows
    BY ElementOfSeq DEF RowsFit
  <2>. QED
    BY <2>1 DEF TradeRows, Traded, Earned
<1>. QED
  BY <1>1, <1>2, <1>3

(* What a fill takes off a position: no more than either has.                 *)
LEMMA TakenBound ==
  ASSUME NEW p, NEW quantity \in Nat, OpenQuantity(p) \in Nat
  PROVE  /\ Taken(p, quantity) \in Nat
         /\ Taken(p, quantity) <= quantity /\ Taken(p, quantity) <= OpenQuantity(p)
<1> DEFINE S == {quantity, OpenQuantity(p)}
<1>1. \E x \in S : \A y \in S : x <= y
  <2>1. CASE quantity <= OpenQuantity(p)
    BY <2>1
  <2>2. CASE OpenQuantity(p) <= quantity
    BY <2>2
  <2>. QED
    BY <2>1, <2>2
<1>2. Min(S) \in S /\ \A y \in S : Min(S) <= y
  <2> HIDE DEF S
  <2>. QED
    BY <1>1 DEF Min
<1>. QED
  BY <1>2 DEF Taken

(* The oldest open position exists: the earliest opening time, and among the  *)
(* positions opened then the first.                                           *)
LEMMA FirstOpenIsOpen ==
  ASSUME RowsFit, OpenPositions # {}
  PROVE  FirstOpen \in OpenPositions
<1>1. \A p \in OpenPositions : p \in Nat /\ positions[p].opened \in Nat
  <2>1. \A p \in DOMAIN positions : p \in Nat /\ positions[p] \in PositionRows
    BY ElementOfSeq DEF RowsFit
  <2>. QED
    BY <2>1 DEF OpenPositions, PositionRows
<1>2. PICK t \in {positions[p].opened : p \in OpenPositions} :
        \A u \in {positions[p].opened : p \in OpenPositions} : t <= u
  <2> DEFINE S == {positions[p].opened : p \in OpenPositions}
  <2>1. S \subseteq Nat /\ S # {}
    BY <1>1
  <2> HIDE DEF S
  <2>2. \E t \in S : \A u \in S : t <= u
    BY <2>1, LeastNatural
  <2>. QED
    BY <2>2 DEF S
<1>3. PICK p \in {q \in OpenPositions : positions[q].opened = t} :
        \A r \in {q \in OpenPositions : positions[q].opened = t} : p <= r
  <2> DEFINE S == {q \in OpenPositions : positions[q].opened = t}
  <2>1. S \subseteq Nat /\ S # {}
    BY <1>1, <1>2
  <2> HIDE DEF S
  <2>2. \E n \in S : \A m \in S : n <= m
    BY <2>1, LeastNatural
  <2>. QED
    BY <2>2 DEF S
<1>4. \A q \in OpenPositions : Before(p, q)
  BY <1>1, <1>2, <1>3 DEF Before
<1>. QED
  BY <1>3, <1>4 DEF FirstOpen

-----------------------------------------------------------------------------
(* What booking a fill leaves behind, whatever follows it: the order it       *)
(* belongs to keeps its action, and the fill is one row more.                 *)
LEMMA BookFillRows ==
  ASSUME RowsFit, NEW o \in DOMAIN orders,
         NEW quantity \in Quantities, NEW price \in Prices, NEW at \in Times,
         NEW commission \in Commissions,
         BookFill(o, quantity, price, at, commission)
  PROVE  LET n == Len(fills) + 1
             closes == orders[o].action = "close" IN
         /\ orders' \in Seq(OrderRows) /\ fills' \in Seq(FillRows)
         /\ \A i \in DOMAIN fills' : fills'[i].order \in DOMAIN orders'
         /\ n \notin DOMAIN fills
         /\ Len(fills') = n /\ DOMAIN fills' = DOMAIN fills \cup {n}
         /\ \A i \in DOMAIN fills : fills'[i] = fills[i]
         /\ fills'[n].quantity = quantity /\ fills'[n].at = at
         /\ fills'[n].commission = commission
         /\ ClosingFills' = IF closes THEN ClosingFills \cup {n} ELSE ClosingFills
<1> DEFINE n == Len(fills) + 1
           total == orders[o].filled + quantity
           row == [order |-> o, quantity |-> quantity, price |-> price,
                   at |-> at, commission |-> commission]
<1>1. /\ fills' = Append(fills, row)
      /\ orders' = [orders EXCEPT
           ![o].filled = total,
           ![o].status = IF total >= orders[o].quantity THEN "filled"
                         ELSE "partially_filled"]
  BY DEF BookFill
<1>2. /\ quantity \in Nat /\ price \in Nat /\ at \in Nat /\ commission \in Nat
  BY BrokerConfig
<1>3. o \in Nat /\ orders[o] \in OrderRows
  BY ElementOfSeq DEF RowsFit
<1>4. row \in FillRows
  BY <1>2, <1>3 DEF FillRows
<1>5. orders' \in Seq(OrderRows) /\ DOMAIN orders' = DOMAIN orders
  <2>1. Len(orders) \in Nat /\ orders \in [1 .. Len(orders) -> OrderRows]
        /\ o \in 1 .. Len(orders)
    BY DEF RowsFit
  <2> DEFINE status == IF total >= orders[o].quantity THEN "filled"
                       ELSE "partially_filled"
             mid == [orders EXCEPT ![o].filled = total]
  <2>2. orders' = [mid EXCEPT ![o].status = status]
    BY <1>1
  <2>3. total \in Nat /\ status \in Statuses
    BY <1>2, <1>3 DEF OrderRows, Statuses, Terminal
  <2> HIDE DEF total, status
  <2>4. mid \in [1 .. Len(orders) -> OrderRows]
    BY <2>1, <2>3 DEF OrderRows
  <2> HIDE DEF mid
  <2>5. orders' \in [1 .. Len(orders) -> OrderRows]
    BY <2>1, <2>2, <2>3, <2>4 DEF OrderRows
  <2>6. orders' \in Seq(OrderRows)
    BY <2>1, <2>5, SeqDef
  <2>. QED
    BY <2>1, <2>5, <2>6
<1>6. \A x \in DOMAIN orders : orders'[x].action = orders[x].action
  <2>1. \A x \in DOMAIN orders : orders[x] \in OrderRows
    BY ElementOfSeq DEF RowsFit
  <2>. QED
    BY <1>1, <2>1 DEF OrderRows, RowsFit
<1>7. /\ fills' \in Seq(FillRows) /\ Len(fills') = n
      /\ DOMAIN fills' = DOMAIN fills \cup {n}
      /\ n \notin DOMAIN fills
      /\ \A i \in DOMAIN fills : fills'[i] = fills[i]
      /\ fills'[n] = row
  <2> HIDE DEF row
  <2>. QED
    BY <1>1, <1>4, OneMoreRow DEF RowsFit
<1>8. \A i \in DOMAIN fills' : fills'[i].order \in DOMAIN orders'
  BY <1>5, <1>7 DEF RowsFit
<1>9. \A i \in DOMAIN fills :
        orders'[fills'[i].order].action = orders[fills[i].order].action
  BY <1>6, <1>7 DEF RowsFit
<1>10. orders'[fills'[n].order].action = orders[o].action
  BY <1>6, <1>7
<1>11. ClosingFills' = IF orders[o].action = "close" THEN ClosingFills \cup {n}
                       ELSE ClosingFills
  <2>1. ClosingFills' = {i \in DOMAIN fills \cup {n} :
                           orders'[fills'[i].order].action = "close"}
    BY <1>7 DEF ClosingFills
  <2> HIDE DEF n
  <2>. QED
    BY <1>9, <1>10, <2>1 DEF ClosingFills
<1>. QED
  BY <1>5, <1>7, <1>8, <1>11

(* What it adds to the sums over fills.                                       *)
LEMMA BookFillSums ==
  ASSUME RowsFit, NEW o \in DOMAIN orders,
         NEW quantity \in Quantities, NEW price \in Prices, NEW at \in Times,
         NEW commission \in Commissions,
         BookFill(o, quantity, price, at, commission)
  PROVE  \A S \in SUBSET DOMAIN fills :
           /\ SumFunctionOnSet(Filled, S) \in Int
           /\ SumFunctionOnSet(Charged, S) \in Int
           /\ SumFunctionOnSet(Filled', S) = SumFunctionOnSet(Filled, S)
           /\ SumFunctionOnSet(Charged', S) = SumFunctionOnSet(Charged, S)
           /\ SumFunctionOnSet(Filled', S \cup {Len(fills) + 1})
                = SumFunctionOnSet(Filled, S) + quantity
           /\ SumFunctionOnSet(Charged', S \cup {Len(fills) + 1})
                = SumFunctionOnSet(Charged, S) + commission
<1> DEFINE n == Len(fills) + 1
<1>1. quantity \in Int /\ commission \in Int
  BY BrokerConfig
<1>2. /\ n \notin DOMAIN fills /\ DOMAIN fills' = DOMAIN fills \cup {n}
      /\ \A i \in DOMAIN fills : fills'[i] = fills[i]
      /\ fills'[n].quantity = quantity /\ fills'[n].commission = commission
  BY BookFillRows
<1>3. IsFiniteSet(DOMAIN fills)
  BY FiniteRows DEF RowsFit
<1>4. /\ \A i \in DOMAIN fills : Filled[i] \in Int /\ Filled'[i] = Filled[i]
      /\ \A i \in DOMAIN fills : Charged[i] \in Int /\ Charged'[i] = Charged[i]
      /\ Filled'[n] = quantity /\ Charged'[n] = commission
  <2> HIDE DEF n
  <2>. QED
    BY <1>2, ColumnTypes DEF Filled, Charged
<1> HIDE DEF n
<1>5. Filled'[n] \in Int /\ Charged'[n] \in Int
  BY <1>1, <1>4
<1>6. \A S \in SUBSET DOMAIN fills :
        /\ SumFunctionOnSet(Filled, S) \in Int
        /\ SumFunctionOnSet(Filled', S) = SumFunctionOnSet(Filled, S)
        /\ SumFunctionOnSet(Filled', S \cup {n}) = SumFunctionOnSet(Filled, S) + Filled'[n]
  <2>1. n \notin DOMAIN fills
    BY <1>2
  <2> DEFINE f == Filled
             g == Filled'
  <2>2. /\ \A i \in DOMAIN fills : f[i] \in Int /\ g[i] = f[i]
        /\ g[n] \in Int
    BY <1>4, <1>5
  <2> HIDE DEF f, g
  <2>3. \A S \in SUBSET DOMAIN fills :
          /\ SumFunctionOnSet(f, S) \in Int
          /\ SumFunctionOnSet(g, S) = SumFunctionOnSet(f, S)
          /\ SumFunctionOnSet(g, S \cup {n}) = SumFunctionOnSet(f, S) + g[n]
    BY <1>3, <2>1, <2>2, SumGrow
  <2>. QED
    BY <2>3 DEF f, g
<1>7. \A S \in SUBSET DOMAIN fills :
        /\ SumFunctionOnSet(Charged, S) \in Int
        /\ SumFunctionOnSet(Charged', S) = SumFunctionOnSet(Charged, S)
        /\ SumFunctionOnSet(Charged', S \cup {n}) = SumFunctionOnSet(Charged, S) + Charged'[n]
  <2>1. n \notin DOMAIN fills
    BY <1>2
  <2> DEFINE f == Charged
             g == Charged'
  <2>2. /\ \A i \in DOMAIN fills : f[i] \in Int /\ g[i] = f[i]
        /\ g[n] \in Int
    BY <1>4, <1>5
  <2> HIDE DEF f, g
  <2>3. \A S \in SUBSET DOMAIN fills :
          /\ SumFunctionOnSet(f, S) \in Int
          /\ SumFunctionOnSet(g, S) = SumFunctionOnSet(f, S)
          /\ SumFunctionOnSet(g, S \cup {n}) = SumFunctionOnSet(f, S) + g[n]
    BY <1>3, <2>1, <2>2, SumGrow
  <2>. QED
    BY <2>3 DEF f, g
<1>. QED
  BY <1>4, <1>6, <1>7 DEF n

-----------------------------------------------------------------------------
(* A position more: the sums over positions take its values.                  *)
LEMMA NewPosition ==
  ASSUME RowsFit, NEW row \in PositionRows, positions' = Append(positions, row)
  PROVE  LET m == Len(positions) + 1 IN
         /\ positions' \in Seq(PositionRows)
         /\ DOMAIN positions' = DOMAIN positions \cup {m} /\ m \notin DOMAIN positions
         /\ \A p \in DOMAIN positions : positions'[p] = positions[p]
         /\ positions'[m] = row
         /\ SumFunction(Opened') = SumFunction(Opened) + row.quantity
         /\ SumFunction(Closed') = SumFunction(Closed) + row.closed
         /\ SumFunction(Realized') = SumFunction(Realized) + row.realized
<1> DEFINE m == Len(positions) + 1
           D == DOMAIN positions
<1>1. /\ positions' \in Seq(PositionRows)
      /\ DOMAIN positions' = D \cup {m} /\ m \notin D
      /\ \A p \in D : positions'[p] = positions[p]
      /\ positions'[m] = row
  BY OneMoreRow DEF RowsFit
<1>2. IsFiniteSet(D)
  BY FiniteRows DEF RowsFit
<1>3. row.quantity \in Int /\ row.closed \in Int /\ row.realized \in Int
  BY DEF PositionRows
<1> HIDE DEF m, D
<1>4. ASSUME NEW f, NEW g, NEW v \in Int,
             \A p \in D : f[p] \in Int /\ g[p] = f[p], g[m] = v,
             DOMAIN f = D, DOMAIN g = D \cup {m}
      PROVE  SumFunction(g) = SumFunction(f) + v
  <2>1. D \in SUBSET D /\ m \notin D /\ g[m] \in Int
    BY <1>1, <1>4
  <2>2. \A S \in SUBSET D :
          /\ SumFunctionOnSet(f, S) \in Int
          /\ SumFunctionOnSet(g, S) = SumFunctionOnSet(f, S)
          /\ SumFunctionOnSet(g, S \cup {m}) = SumFunctionOnSet(f, S) + g[m]
    BY <1>2, <1>4, <2>1, SumGrow
  <2>3. SumFunctionOnSet(g, D \cup {m}) = SumFunctionOnSet(f, D) + v
    BY <1>4, <2>1, <2>2, Zenon
  <2>. QED
    BY <1>4, <2>3 DEF SumFunction
<1>5. SumFunction(Opened') = SumFunction(Opened) + row.quantity
  <2>1. /\ \A p \in D : Opened[p] \in Int /\ Opened'[p] = Opened[p]
        /\ Opened'[m] = row.quantity
        /\ DOMAIN Opened = D /\ DOMAIN Opened' = D \cup {m}
    BY <1>1, ColumnTypes DEF Opened, D
  <2>. QED
    BY <1>3, <1>4, <2>1
<1>6. SumFunction(Closed') = SumFunction(Closed) + row.closed
  <2>1. /\ \A p \in D : Closed[p] \in Int /\ Closed'[p] = Closed[p]
        /\ Closed'[m] = row.closed
        /\ DOMAIN Closed = D /\ DOMAIN Closed' = D \cup {m}
    BY <1>1, ColumnTypes DEF Closed, D
  <2>. QED
    BY <1>3, <1>4, <2>1
<1>7. SumFunction(Realized') = SumFunction(Realized) + row.realized
  <2>1. /\ \A p \in D : Realized[p] \in Int /\ Realized'[p] = Realized[p]
        /\ Realized'[m] = row.realized
        /\ DOMAIN Realized = D /\ DOMAIN Realized' = D \cup {m}
    BY <1>1, ColumnTypes DEF Realized, D
  <2>. QED
    BY <1>3, <1>4, <2>1
<1>. QED
  BY <1>1, <1>5, <1>6, <1>7 DEF m, D

(* Some more of a position closed: what its row becomes.                      *)
LEMMA UpdatedRow ==
  ASSUME NEW row \in PositionRows, NEW taken \in Nat, NEW gross \in Int
  PROVE  /\ Updated(row, taken, gross) \in PositionRows
         /\ Updated(row, taken, gross).quantity = row.quantity
         /\ Updated(row, taken, gross).opened = row.opened
         /\ Updated(row, taken, gross).closed = row.closed + taken
         /\ Updated(row, taken, gross).realized = row.realized + gross
<1> DEFINE closed == row.closed + taken
           realized == row.realized + gross
           mid == [row EXCEPT !.closed = closed]
           new == [mid EXCEPT !.realized = realized]
<1>1. closed \in Nat /\ realized \in Int
  BY DEF PositionRows
<1>2. Updated(row, taken, gross) = new
  BY DEF Updated, PositionRows
<1> HIDE DEF closed, realized
<1>3. /\ mid \in PositionRows
      /\ mid.quantity = row.quantity /\ mid.opened = row.opened /\ mid.closed = closed
  BY <1>1 DEF PositionRows
<1> HIDE DEF mid
<1>4. /\ new \in PositionRows
      /\ new.quantity = mid.quantity /\ new.opened = mid.opened
      /\ new.closed = mid.closed /\ new.realized = realized
  BY <1>1, <1>3 DEF PositionRows
<1> HIDE DEF new
<1>. QED
  BY <1>2, <1>3, <1>4 DEF closed, realized

(* A position closed by some more: its sums move by that much.                *)
LEMMA PositionCloses ==
  ASSUME RowsFit, NEW p \in DOMAIN positions, NEW taken \in Nat, NEW gross \in Int,
         positions' = [positions EXCEPT ![p] = Updated(@, taken, gross)]
  PROVE  /\ positions' \in Seq(PositionRows) /\ DOMAIN positions' = DOMAIN positions
         /\ \A q \in DOMAIN positions \ {p} : positions'[q] = positions[q]
         /\ positions'[p].quantity = positions[p].quantity
         /\ positions'[p].opened = positions[p].opened
         /\ positions'[p].closed = positions[p].closed + taken
         /\ positions'[p].realized = positions[p].realized + gross
         /\ SumFunction(Opened') = SumFunction(Opened)
         /\ SumFunction(Closed') = SumFunction(Closed) + taken
         /\ SumFunction(Realized') = SumFunction(Realized) + gross
<1> DEFINE D == DOMAIN positions
<1>1. positions \in Seq(PositionRows) /\ positions[p] \in PositionRows
  BY ElementOfSeq DEF RowsFit
<1>2. Updated(positions[p], taken, gross) \in PositionRows
  BY <1>1, UpdatedRow
<1>3. positions' \in Seq(PositionRows) /\ DOMAIN positions' = D
  BY <1>1, <1>2, ExceptSeq
<1>4. /\ \A q \in D \ {p} : positions'[q] = positions[q]
      /\ positions'[p] = Updated(positions[p], taken, gross)
  BY <1>1
<1>5. /\ positions'[p].quantity = positions[p].quantity
      /\ positions'[p].opened = positions[p].opened
      /\ positions'[p].closed = positions[p].closed + taken
      /\ positions'[p].realized = positions[p].realized + gross
  BY <1>1, <1>4, UpdatedRow
<1>6. /\ \A q \in D \ {p} : positions'[q] = positions[q]
      /\ positions'[p].quantity = positions[p].quantity
      /\ positions'[p].opened = positions[p].opened
      /\ positions'[p].closed = positions[p].closed + taken
      /\ positions'[p].realized = positions[p].realized + gross
  BY <1>4, <1>5
<1>7. positions' \in Seq(PositionRows) /\ DOMAIN positions' = D
  BY <1>3
<1>8. IsFiniteSet(D)
  BY FiniteRows DEF RowsFit
<1> HIDE DEF D
<1>9. ASSUME NEW f, NEW g, NEW v \in Int,
             \A q \in D : f[q] \in Int, \A q \in D \ {p} : g[q] = f[q],
             g[p] = f[p] + v, DOMAIN f = D, DOMAIN g = D
      PROVE  SumFunction(g) = SumFunction(f) + v
  <2>1. p \in D /\ \A q \in D : g[q] \in Int
    BY <1>9 DEF D
  <2>2. SumFunctionOnSet(g, D) = SumFunctionOnSet(f, D) - f[p] + g[p]
    BY <1>8, <1>9, <2>1, SumChange
  <2>3. SumFunctionOnSet(f, D) \in Int
    BY <1>8, <1>9, SumType
  <2>. QED
    BY <1>9, <2>1, <2>2, <2>3 DEF SumFunction
<1>10. SumFunction(Opened') = SumFunction(Opened) + 0
  <2>1. /\ \A q \in D : Opened[q] \in Int
        /\ \A q \in D \ {p} : Opened'[q] = Opened[q]
        /\ Opened'[p] = Opened[p] + 0
        /\ DOMAIN Opened = D /\ DOMAIN Opened' = D
    BY <1>6, <1>7, ColumnTypes DEF Opened, D
  <2>. QED
    BY <1>9, <2>1
<1>11. SumFunction(Closed') = SumFunction(Closed) + taken
  <2>1. /\ \A q \in D : Closed[q] \in Int
        /\ \A q \in D \ {p} : Closed'[q] = Closed[q]
        /\ Closed'[p] = Closed[p] + taken
        /\ DOMAIN Closed = D /\ DOMAIN Closed' = D
    BY <1>6, <1>7, ColumnTypes DEF Closed, D
  <2>. QED
    BY <1>9, <2>1
<1>12. SumFunction(Realized') = SumFunction(Realized) + gross
  <2>1. /\ \A q \in D : Realized[q] \in Int
        /\ \A q \in D \ {p} : Realized'[q] = Realized[q]
        /\ Realized'[p] = Realized[p] + gross
        /\ DOMAIN Realized = D /\ DOMAIN Realized' = D
    BY <1>6, <1>7, ColumnTypes DEF Realized, D
  <2>. QED
    BY <1>9, <2>1
<1>13. SumFunction(Opened) \in Int
  <2>1. \A q \in D : Opened[q] \in Int
    BY ColumnTypes DEF D
  <2>2. SumFunctionOnSet(Opened, D) \in Int
    BY <1>8, <2>1, SumType
  <2>. QED
    BY <2>2 DEF SumFunction, Opened, D
<1>. QED
  BY <1>6, <1>7, <1>10, <1>11, <1>12, <1>13 DEF D

(* A trade more: the sums over trades take its values.                        *)
LEMMA NewTrade ==
  ASSUME RowsFit, NEW row \in TradeRows, trades' = Append(trades, row)
  PROVE  LET n == Len(trades) + 1 IN
         /\ trades' \in Seq(TradeRows)
         /\ DOMAIN trades' = DOMAIN trades \cup {n} /\ n \notin DOMAIN trades
         /\ \A i \in DOMAIN trades : trades'[i] = trades[i]
         /\ trades'[n] = row
         /\ \A S \in SUBSET DOMAIN trades :
              /\ SumFunctionOnSet(Traded, S) \in Int
              /\ SumFunctionOnSet(Earned, S) \in Int
              /\ SumFunctionOnSet(Traded', S) = SumFunctionOnSet(Traded, S)
              /\ SumFunctionOnSet(Earned', S) = SumFunctionOnSet(Earned, S)
              /\ SumFunctionOnSet(Traded', S \cup {n})
                   = SumFunctionOnSet(Traded, S) + row.quantity
              /\ SumFunctionOnSet(Earned', S \cup {n})
                   = SumFunctionOnSet(Earned, S) + row.gross
<1> DEFINE n == Len(trades) + 1
           D == DOMAIN trades
<1>1. /\ trades' \in Seq(TradeRows)
      /\ DOMAIN trades' = D \cup {n} /\ n \notin D
      /\ \A i \in D : trades'[i] = trades[i]
      /\ trades'[n] = row
  BY OneMoreRow DEF RowsFit
<1>2. IsFiniteSet(D)
  BY FiniteRows DEF RowsFit
<1>3. row.quantity \in Int /\ row.gross \in Int
  BY DEF TradeRows
<1> HIDE DEF n, D
<1>4. ASSUME NEW f, NEW g, \A i \in D : f[i] \in Int /\ g[i] = f[i], g[n] \in Int
      PROVE  \A S \in SUBSET D :
               /\ SumFunctionOnSet(f, S) \in Int
               /\ SumFunctionOnSet(g, S) = SumFunctionOnSet(f, S)
               /\ SumFunctionOnSet(g, S \cup {n}) = SumFunctionOnSet(f, S) + g[n]
  <2>1. n \notin D
    BY <1>1
  <2>. QED
    BY <1>2, <1>4, <2>1, SumGrow
<1>5. /\ \A i \in D : Traded[i] \in Int /\ Traded'[i] = Traded[i]
      /\ Traded'[n] = row.quantity
  BY <1>1, ColumnTypes DEF Traded, D
<1>6. /\ \A i \in D : Earned[i] \in Int /\ Earned'[i] = Earned[i]
      /\ Earned'[n] = row.gross
  BY <1>1, ColumnTypes DEF Earned, D
<1>7. \A S \in SUBSET D :
        /\ SumFunctionOnSet(Traded, S) \in Int
        /\ SumFunctionOnSet(Traded', S) = SumFunctionOnSet(Traded, S)
        /\ SumFunctionOnSet(Traded', S \cup {n})
             = SumFunctionOnSet(Traded, S) + Traded'[n]
  <2> DEFINE f == Traded
             g == Traded'
  <2>1. (\A i \in D : f[i] \in Int /\ g[i] = f[i]) /\ g[n] \in Int
    BY <1>3, <1>5
  <2> HIDE DEF f, g
  <2>2. \A S \in SUBSET D :
          /\ SumFunctionOnSet(f, S) \in Int
          /\ SumFunctionOnSet(g, S) = SumFunctionOnSet(f, S)
          /\ SumFunctionOnSet(g, S \cup {n}) = SumFunctionOnSet(f, S) + g[n]
    BY <1>4, <2>1
  <2>. QED
    BY <2>2 DEF f, g
<1>8. \A S \in SUBSET D :
        /\ SumFunctionOnSet(Earned, S) \in Int
        /\ SumFunctionOnSet(Earned', S) = SumFunctionOnSet(Earned, S)
        /\ SumFunctionOnSet(Earned', S \cup {n})
             = SumFunctionOnSet(Earned, S) + Earned'[n]
  <2> DEFINE f == Earned
             g == Earned'
  <2>1. (\A i \in D : f[i] \in Int /\ g[i] = f[i]) /\ g[n] \in Int
    BY <1>3, <1>6
  <2> HIDE DEF f, g
  <2>2. \A S \in SUBSET D :
          /\ SumFunctionOnSet(f, S) \in Int
          /\ SumFunctionOnSet(g, S) = SumFunctionOnSet(f, S)
          /\ SumFunctionOnSet(g, S \cup {n}) = SumFunctionOnSet(f, S) + g[n]
    BY <1>4, <2>1
  <2>. QED
    BY <2>2 DEF f, g
<1>. QED
  BY <1>1, <1>5, <1>6, <1>7, <1>8 DEF n, D

(* The sums over the rows of a table are integers.                            *)
LEMMA SumTypes ==
  ASSUME RowsFit
  PROVE  /\ SumFunction(Opened) \in Int /\ SumFunction(Closed) \in Int
         /\ SumFunction(Realized) \in Int
         /\ \A S \in SUBSET DOMAIN fills :
              SumFunctionOnSet(Filled, S) \in Int /\ SumFunctionOnSet(Charged, S) \in Int
         /\ \A S \in SUBSET DOMAIN trades :
              SumFunctionOnSet(Traded, S) \in Int /\ SumFunctionOnSet(Earned, S) \in Int
<1>1. /\ IsFiniteSet(DOMAIN positions)
      /\ \A S \in SUBSET DOMAIN fills : IsFiniteSet(S)
      /\ \A S \in SUBSET DOMAIN trades : IsFiniteSet(S)
  BY FiniteRows DEF RowsFit
<1>2. /\ SumFunctionOnSet(Opened, DOMAIN positions) \in Int
      /\ SumFunctionOnSet(Closed, DOMAIN positions) \in Int
      /\ SumFunctionOnSet(Realized, DOMAIN positions) \in Int
  BY <1>1, ColumnTypes, SumType
<1>3. SumFunction(Opened) \in Int
  <2>1. DOMAIN Opened = DOMAIN positions
    BY DEF Opened
  <2>. QED
    BY <1>2, <2>1, Zenon DEF SumFunction
<1>4. SumFunction(Closed) \in Int
  <2>1. DOMAIN Closed = DOMAIN positions
    BY DEF Closed
  <2>. QED
    BY <1>2, <2>1, Zenon DEF SumFunction
<1>5. SumFunction(Realized) \in Int
  <2>1. DOMAIN Realized = DOMAIN positions
    BY DEF Realized
  <2>. QED
    BY <1>2, <2>1, Zenon DEF SumFunction
<1>6. ASSUME NEW S \in SUBSET DOMAIN fills
      PROVE  SumFunctionOnSet(Filled, S) \in Int /\ SumFunctionOnSet(Charged, S) \in Int
  BY <1>1, ColumnTypes, SumType
<1>7. ASSUME NEW S \in SUBSET DOMAIN trades
      PROVE  SumFunctionOnSet(Traded, S) \in Int /\ SumFunctionOnSet(Earned, S) \in Int
  BY <1>1, ColumnTypes, SumType
<1>. QED
  BY <1>3, <1>4, <1>5, <1>6, <1>7

-----------------------------------------------------------------------------
(* The invariant holds of the empty tables.                                   *)
LEMMA InitInv == Init => IInv
<1> SUFFICES ASSUME Init PROVE IInv
  OBVIOUS
<1>1. /\ orders = <<>> /\ fills = <<>> /\ positions = <<>> /\ trades = <<>>
      /\ balance = StartingBalance /\ orphans = {}
  BY DEF Init
<1>2. /\ DOMAIN orders = {} /\ DOMAIN fills = {}
      /\ DOMAIN positions = {} /\ DOMAIN trades = {}
  BY <1>1
<1>3. RowsFit
  BY <1>1, <1>2, EmptySeq, BrokerConfig DEF RowsFit, ClosingFills
<1>4. DOMAIN Opened = {} /\ DOMAIN Closed = {} /\ DOMAIN Realized = {}
  BY <1>2 DEF Opened, Closed, Realized
<1>5. SumFunction(Opened) = 0 /\ SumFunction(Closed) = 0 /\ SumFunction(Realized) = 0
  BY <1>4, SumEmpty, Zenon DEF SumFunction
<1>6. /\ DOMAIN fills \ ClosingFills = {} /\ ClosingFills \ orphans = {}
      /\ DOMAIN fills \ orphans = {}
  BY <1>2 DEF ClosingFills
<1>7. /\ SumFunctionOnSet(Filled, DOMAIN fills \ ClosingFills) = 0
      /\ SumFunctionOnSet(Filled, ClosingFills \ orphans) = 0
      /\ SumFunctionOnSet(Charged, DOMAIN fills \ orphans) = 0
  BY <1>6, SumEmpty, Zenon
<1>8. NothingClosedUnfilled
  BY <1>2, <1>5, <1>7 DEF NothingClosedUnfilled
<1>9. BalanceAddsUp
  BY <1>1, <1>5, <1>7, BrokerConfig DEF BalanceAddsUp
<1>10. TradesExplainPositions
  BY <1>2 DEF TradesExplainPositions
<1>. QED
  BY <1>3, <1>8, <1>9, <1>10 DEF IInv

(* Steps that touch orders only, and keep what each one does.                 *)
LEMMA OrdersOnly ==
  ASSUME IInv, orders' \in Seq(OrderRows), DOMAIN orders \subseteq DOMAIN orders',
         \A o \in DOMAIN orders : orders'[o].action = orders[o].action,
         UNCHANGED <<fills, positions, trades, balance, orphans>>
  PROVE  IInv'
<1>1. /\ RowsFit /\ NothingClosedUnfilled /\ BalanceAddsUp /\ TradesExplainPositions
  BY DEF IInv
<1>2. ClosingFills' = ClosingFills
  BY <1>1 DEF ClosingFills, RowsFit
<1>3. RowsFit'
  BY <1>1, <1>2 DEF RowsFit
<1>4. /\ Opened' = Opened /\ Closed' = Closed /\ Realized' = Realized
      /\ Filled' = Filled /\ Charged' = Charged
      /\ Traded' = Traded /\ Earned' = Earned
  BY DEF Opened, Closed, Realized, Filled, Charged, Traded, Earned
<1>5. NothingClosedUnfilled'
  BY <1>1, <1>2, <1>4 DEF NothingClosedUnfilled
<1>6. BalanceAddsUp'
  BY <1>1, <1>4 DEF BalanceAddsUp
<1>7. \A p : TradesOf(p)' = TradesOf(p)
  BY DEF TradesOf
<1>8. TradesExplainPositions'
  BY <1>1, <1>2, <1>4, <1>7 DEF TradesExplainPositions
<1>. QED
  BY <1>3, <1>5, <1>6, <1>8 DEF IInv

(* A new order is referred to by nothing yet.                                 *)
LEMMA SubmitInv ==
  ASSUME IInv, NEW action \in Actions, NEW quantity \in Quantities,
         Submit(action, quantity)
  PROVE  IInv'
<1> DEFINE row == [action |-> action, quantity |-> quantity, filled |-> 0,
                   status |-> "accepted"]
<1>1. row \in OrderRows
  BY BrokerConfig DEF OrderRows, Statuses
<1>2. orders' = Append(orders, row) /\ UNCHANGED <<fills, positions, trades, balance, orphans>>
  BY DEF Submit
<1>3. orders \in Seq(OrderRows)
  BY DEF IInv, RowsFit
<1> HIDE DEF row
<1>4. /\ orders' \in Seq(OrderRows) /\ DOMAIN orders \subseteq DOMAIN orders'
      /\ \A o \in DOMAIN orders : orders'[o] = orders[o]
  BY <1>1, <1>2, <1>3, OneMoreRow
<1>5. \A o \in DOMAIN orders : orders'[o].action = orders[o].action
  BY <1>4
<1>. QED
  BY <1>2, <1>4, <1>5, OrdersOnly

(* A cancelled order keeps its action and its fills.                          *)
LEMMA CancelInv ==
  ASSUME IInv, NEW o \in DOMAIN orders, Cancel(o)
  PROVE  IInv'
<1> DEFINE row == [orders[o] EXCEPT !.status = "cancelled"]
<1>1. orders \in Seq(OrderRows) /\ orders[o] \in OrderRows
  BY ElementOfSeq DEF IInv, RowsFit
<1>2. row \in OrderRows /\ row.action = orders[o].action
  BY <1>1 DEF OrderRows, Statuses, Terminal
<1>3. /\ orders' = [orders EXCEPT ![o] = row]
      /\ UNCHANGED <<fills, positions, trades, balance, orphans>>
  BY DEF Cancel
<1> HIDE DEF row
<1>4. orders' \in Seq(OrderRows) /\ DOMAIN orders' = DOMAIN orders
  BY <1>1, <1>2, <1>3, ExceptSeq
<1>5. \A x \in DOMAIN orders : orders'[x].action = orders[x].action
  BY <1>1, <1>2, <1>3
<1>. QED
  BY <1>3, <1>4, <1>5, OrdersOnly

-----------------------------------------------------------------------------
(* A fill of an opening order: one position more, not yet closed.             *)
LEMMA FillOpeningInv ==
  ASSUME IInv, NEW o \in DOMAIN orders,
         NEW quantity \in Quantities, NEW price \in Prices, NEW at \in Times,
         NEW commission \in Commissions,
         FillOpening(o, quantity, price, at, commission)
  PROVE  IInv'
<1> DEFINE n == Len(fills) + 1
           row == [side |-> orders[o].action, quantity |-> quantity, entry |-> price,
                   opened |-> at, closed |-> 0, realized |-> 0]
<1>1. /\ RowsFit /\ NothingClosedUnfilled /\ BalanceAddsUp /\ TradesExplainPositions
  BY DEF IInv
<1>2. /\ orders[o].action # "close"
      /\ BookFill(o, quantity, price, at, commission)
      /\ positions' = Append(positions, row)
      /\ balance' = balance - commission
      /\ trades' = trades /\ orphans' = orphans
  BY DEF FillOpening
<1>3. /\ quantity \in Nat /\ price \in Nat /\ at \in Nat /\ commission \in Nat
  BY BrokerConfig
<1>4. row \in PositionRows
  <2>1. orders[o] \in OrderRows
    BY <1>1, ElementOfSeq DEF RowsFit
  <2>2. orders[o].action \in {"buy", "sell"}
    BY <1>2, <2>1 DEF OrderRows, Actions
  <2>. QED
    BY <1>3, <2>2 DEF PositionRows
<1>5. row.quantity = quantity /\ row.closed = 0 /\ row.realized = 0
  OBVIOUS
<1> HIDE DEF row
<1>6. /\ orders' \in Seq(OrderRows) /\ fills' \in Seq(FillRows)
      /\ \A i \in DOMAIN fills' : fills'[i].order \in DOMAIN orders'
      /\ n \notin DOMAIN fills /\ DOMAIN fills' = DOMAIN fills \cup {n}
      /\ \A i \in DOMAIN fills : fills'[i] = fills[i]
      /\ ClosingFills' = ClosingFills
  BY <1>1, <1>2, BookFillRows
<1>7. \A S \in SUBSET DOMAIN fills :
        /\ SumFunctionOnSet(Filled, S) \in Int
        /\ SumFunctionOnSet(Charged, S) \in Int
        /\ SumFunctionOnSet(Filled', S) = SumFunctionOnSet(Filled, S)
        /\ SumFunctionOnSet(Charged', S) = SumFunctionOnSet(Charged, S)
        /\ SumFunctionOnSet(Filled', S \cup {n}) = SumFunctionOnSet(Filled, S) + quantity
        /\ SumFunctionOnSet(Charged', S \cup {n})
             = SumFunctionOnSet(Charged, S) + commission
  <2>1. RowsFit /\ BookFill(o, quantity, price, at, commission)
    BY <1>1, <1>2
  <2> TAKE S \in SUBSET DOMAIN fills
  <2>. QED
    BY <2>1, BookFillSums
<1>0. PICK m : m = Len(positions) + 1
  OBVIOUS
<1>8. /\ positions' \in Seq(PositionRows)
      /\ DOMAIN positions' = DOMAIN positions \cup {m} /\ m \notin DOMAIN positions
      /\ \A p \in DOMAIN positions : positions'[p] = positions[p]
      /\ positions'[m] = row
      /\ SumFunction(Opened') = SumFunction(Opened) + quantity
      /\ SumFunction(Closed') = SumFunction(Closed) + 0
      /\ SumFunction(Realized') = SumFunction(Realized) + 0
  BY <1>0, <1>1, <1>2, <1>4, <1>5, NewPosition
<1>9. /\ SumFunction(Opened) \in Int /\ SumFunction(Closed) \in Int
      /\ SumFunction(Realized) \in Int
  BY <1>1, SumTypes
<1> HIDE DEF n
<1>10. ClosingFills \subseteq DOMAIN fills /\ orphans \subseteq DOMAIN fills
  BY <1>1 DEF RowsFit, ClosingFills
<1>11. RowsFit'
  <2>1. balance' \in Int
    BY <1>1, <1>2, <1>3 DEF RowsFit
  <2>2. \A i \in DOMAIN trades' : trades'[i].position \in DOMAIN positions'
    BY <1>1, <1>2, <1>8 DEF RowsFit
  <2>. QED
    BY <1>1, <1>2, <1>6, <1>8, <2>1, <2>2 DEF RowsFit
<1>12. NothingClosedUnfilled'
  <2>1. \A p \in DOMAIN positions' : positions'[p].closed \in 0 .. positions'[p].quantity
    BY <1>1, <1>3, <1>5, <1>8 DEF NothingClosedUnfilled
  <2>2. SumFunction(Opened') = SumFunctionOnSet(Filled', DOMAIN fills' \ ClosingFills')
    <3>1. DOMAIN fills' \ ClosingFills' = (DOMAIN fills \ ClosingFills) \cup {n}
      BY <1>6, <1>10
    <3>2. SumFunctionOnSet(Filled', DOMAIN fills' \ ClosingFills')
            = SumFunctionOnSet(Filled', (DOMAIN fills \ ClosingFills) \cup {n})
      BY <3>1, Zenon
    <3>3. SumFunctionOnSet(Filled', (DOMAIN fills \ ClosingFills) \cup {n})
            = SumFunctionOnSet(Filled, DOMAIN fills \ ClosingFills) + quantity
      BY <1>7
    <3>. QED
      BY <1>1, <1>8, <3>2, <3>3 DEF NothingClosedUnfilled
  <2>3. SumFunction(Closed') <= SumFunctionOnSet(Filled', ClosingFills' \ orphans')
    <3>1. ClosingFills' \ orphans' = ClosingFills \ orphans
      BY <1>2, <1>6
    <3>2. SumFunctionOnSet(Filled', ClosingFills' \ orphans')
            = SumFunctionOnSet(Filled', ClosingFills \ orphans)
      BY <3>1, Zenon
    <3>3. SumFunctionOnSet(Filled', ClosingFills \ orphans)
            = SumFunctionOnSet(Filled, ClosingFills \ orphans)
      BY <1>7, <1>10
    <3>. QED
      BY <1>1, <1>8, <1>9, <3>2, <3>3 DEF NothingClosedUnfilled
  <2>. QED
    BY <2>1, <2>2, <2>3 DEF NothingClosedUnfilled
<1>13. BalanceAddsUp'
  <2>1. DOMAIN fills' \ orphans' = (DOMAIN fills \ orphans) \cup {n}
    BY <1>2, <1>6, <1>10
  <2>2. SumFunctionOnSet(Charged', DOMAIN fills' \ orphans')
          = SumFunctionOnSet(Charged', (DOMAIN fills \ orphans) \cup {n})
    BY <2>1, Zenon
  <2>3. /\ SumFunctionOnSet(Charged', (DOMAIN fills \ orphans) \cup {n})
             = SumFunctionOnSet(Charged, DOMAIN fills \ orphans) + commission
        /\ SumFunctionOnSet(Charged, DOMAIN fills \ orphans) \in Int
    BY <1>7
  <2>. QED
    <3>1. balance = StartingBalance + SumFunction(Realized)
                      - SumFunctionOnSet(Charged, DOMAIN fills \ orphans)
      BY <1>1 DEF BalanceAddsUp
    <3>2. balance' = StartingBalance + SumFunction(Realized')
                      - SumFunctionOnSet(Charged', DOMAIN fills' \ orphans')
      <4>1. /\ balance' = balance - commission
            /\ SumFunction(Realized') = SumFunction(Realized) + 0
            /\ SumFunction(Realized) \in Int /\ commission \in Nat
        BY <1>2, <1>3, <1>8, <1>9
      <4>2. StartingBalance \in Int
        BY BrokerConfig
      <4>. QED
        BY <2>2, <2>3, <3>1, <4>1, <4>2
    <3>. QED
      BY <3>2 DEF BalanceAddsUp
<1>14. TradesExplainPositions'
  <2>1. Traded' = Traded /\ Earned' = Earned /\ \A p : TradesOf(p)' = TradesOf(p)
    BY <1>2 DEF Traded, Earned, TradesOf
  <2>2. TradesOf(m) = {}
    BY <1>1, <1>8 DEF TradesOf, RowsFit
  <2>3. SumFunctionOnSet(Traded, TradesOf(m)) = 0 /\ SumFunctionOnSet(Earned, TradesOf(m)) = 0
    BY <2>2, SumEmpty, Zenon
  <2>4. ASSUME NEW p \in DOMAIN positions', p # m
        PROVE  /\ p \in DOMAIN positions /\ positions'[p] = positions[p]
               /\ (\A i \in ClosingFills' : fills'[i].at >= positions'[p].opened)
                    => \A i \in ClosingFills : fills[i].at >= positions[p].opened
    BY <1>6, <1>8, <1>10, <2>4
  <2>5. ASSUME NEW p \in DOMAIN positions', p # m
        PROVE  /\ SumFunctionOnSet(Traded', TradesOf(p)') <= positions'[p].closed
               /\ (\A i \in ClosingFills' : fills'[i].at >= positions'[p].opened)
                    => /\ SumFunctionOnSet(Traded', TradesOf(p)') = positions'[p].closed
                       /\ SumFunctionOnSet(Earned', TradesOf(p)') = positions'[p].realized
    BY <1>1, <2>1, <2>4, <2>5 DEF TradesExplainPositions
  <2>6. /\ SumFunctionOnSet(Traded', TradesOf(m)') = positions'[m].closed
        /\ SumFunctionOnSet(Earned', TradesOf(m)') = positions'[m].realized
        /\ SumFunctionOnSet(Traded', TradesOf(m)') <= positions'[m].closed
    <3>1. TradesOf(m)' = TradesOf(m) /\ Traded' = Traded /\ Earned' = Earned
      BY <2>1
    <3>2. positions'[m].closed = 0 /\ positions'[m].realized = 0
      BY <1>5, <1>8
    <3>. QED
      BY <2>3, <3>1, <3>2
  <2>7. \A p \in DOMAIN positions' :
          /\ SumFunctionOnSet(Traded', TradesOf(p)') <= positions'[p].closed
          /\ (\A i \in ClosingFills' : fills'[i].at >= positions'[p].opened)
                    => /\ SumFunctionOnSet(Traded', TradesOf(p)') = positions'[p].closed
                       /\ SumFunctionOnSet(Earned', TradesOf(p)') = positions'[p].realized
    BY <2>5, <2>6
  <2>. QED
    BY <2>7 DEF TradesExplainPositions
<1>. QED
  BY <1>11, <1>12, <1>13, <1>14 DEF IInv

(* A fill that finds nothing to close: it is no part of any sum.              *)
LEMMA FillNothingToCloseInv ==
  ASSUME IInv, NEW o \in DOMAIN orders,
         NEW quantity \in Quantities, NEW price \in Prices, NEW at \in Times,
         NEW commission \in Commissions,
         FillNothingToClose(o, quantity, price, at, commission)
  PROVE  IInv'
<1> DEFINE n == Len(fills) + 1
<1>1. /\ RowsFit /\ NothingClosedUnfilled /\ BalanceAddsUp /\ TradesExplainPositions
  BY DEF IInv
<1>2. /\ orders[o].action = "close"
      /\ BookFill(o, quantity, price, at, commission)
      /\ orphans' = orphans \cup {Len(fills')}
      /\ positions' = positions /\ trades' = trades /\ balance' = balance
  BY DEF FillNothingToClose
<1>3. /\ orders' \in Seq(OrderRows) /\ fills' \in Seq(FillRows)
      /\ \A i \in DOMAIN fills' : fills'[i].order \in DOMAIN orders'
      /\ n \notin DOMAIN fills /\ DOMAIN fills' = DOMAIN fills \cup {n}
      /\ Len(fills') = n
      /\ \A i \in DOMAIN fills : fills'[i] = fills[i]
      /\ ClosingFills' = ClosingFills \cup {n}
  BY <1>1, <1>2, BookFillRows
<1>4. \A S \in SUBSET DOMAIN fills :
        /\ SumFunctionOnSet(Filled', S) = SumFunctionOnSet(Filled, S)
        /\ SumFunctionOnSet(Charged', S) = SumFunctionOnSet(Charged, S)
  BY <1>1, <1>2, BookFillSums
<1>5. orphans' = orphans \cup {n}
  BY <1>2, <1>3
<1> HIDE DEF n
<1>6. ClosingFills \subseteq DOMAIN fills /\ orphans \subseteq DOMAIN fills
  BY <1>1 DEF RowsFit, ClosingFills
<1>7. RowsFit'
  BY <1>1, <1>2, <1>3, <1>5 DEF RowsFit
<1>8. /\ Opened' = Opened /\ Closed' = Closed /\ Realized' = Realized
      /\ Traded' = Traded /\ Earned' = Earned /\ \A p : TradesOf(p)' = TradesOf(p)
  BY <1>2 DEF Opened, Closed, Realized, Traded, Earned, TradesOf
<1>9. NothingClosedUnfilled'
  <2>1. /\ DOMAIN fills' \ ClosingFills' = DOMAIN fills \ ClosingFills
        /\ ClosingFills' \ orphans' = ClosingFills \ orphans
    BY <1>3, <1>5, <1>6
  <2>2. /\ SumFunctionOnSet(Filled', DOMAIN fills' \ ClosingFills')
             = SumFunctionOnSet(Filled', DOMAIN fills \ ClosingFills)
        /\ SumFunctionOnSet(Filled', ClosingFills' \ orphans')
             = SumFunctionOnSet(Filled', ClosingFills \ orphans)
    BY <2>1, Zenon
  <2>3. /\ SumFunctionOnSet(Filled', DOMAIN fills \ ClosingFills)
             = SumFunctionOnSet(Filled, DOMAIN fills \ ClosingFills)
        /\ SumFunctionOnSet(Filled', ClosingFills \ orphans)
             = SumFunctionOnSet(Filled, ClosingFills \ orphans)
    BY <1>4, <1>6
  <2>. QED
    BY <1>1, <1>2, <1>8, <2>2, <2>3 DEF NothingClosedUnfilled
<1>10. BalanceAddsUp'
  <2>1. DOMAIN fills' \ orphans' = DOMAIN fills \ orphans
    BY <1>3, <1>5, <1>6
  <2>2. SumFunctionOnSet(Charged', DOMAIN fills' \ orphans')
          = SumFunctionOnSet(Charged', DOMAIN fills \ orphans)
    BY <2>1, Zenon
  <2>3. SumFunctionOnSet(Charged', DOMAIN fills \ orphans)
          = SumFunctionOnSet(Charged, DOMAIN fills \ orphans)
    BY <1>4
  <2>. QED
    BY <1>1, <1>2, <1>8, <2>2, <2>3 DEF BalanceAddsUp
<1>11. TradesExplainPositions'
  <2>1. \A p \in DOMAIN positions :
          (\A i \in ClosingFills' : fills'[i].at >= positions[p].opened)
            => \A i \in ClosingFills : fills[i].at >= positions[p].opened
    BY <1>3, <1>6
  <2>. QED
    BY <1>1, <1>2, <1>8, <2>1 DEF TradesExplainPositions
<1>. QED
  BY <1>7, <1>9, <1>10, <1>11 DEF IInv

(* A fill of a closing order: what it takes leaves the oldest open position,  *)
(* is paid into the balance and recorded as a trade unless it is dated before *)
(* the position was opened; then nothing is promised of that position.        *)
LEMMA FillClosingInv ==
  ASSUME IInv, NEW o \in DOMAIN orders,
         NEW quantity \in Quantities, NEW price \in Prices, NEW at \in Times,
         NEW commission \in Commissions,
         FillClosing(o, quantity, price, at, commission)
  PROVE  IInv'
<1>1. /\ RowsFit /\ NothingClosedUnfilled /\ BalanceAddsUp /\ TradesExplainPositions
  BY DEF IInv
<1>2. PICK n : n = Len(fills) + 1
  OBVIOUS
<1>3. PICK k : k = Len(trades) + 1
  OBVIOUS
<1>4. PICK p : p = FirstOpen
  OBVIOUS
<1>5. PICK taken : taken = Taken(p, quantity)
  OBVIOUS
<1>6. PICK gross : gross = Gross(p, taken, price)
  OBVIOUS
<1>7. PICK row : row = [position |-> p, quantity |-> taken, gross |-> gross,
                        commission |-> commission, after |-> balance']
  OBVIOUS
<1>8. /\ orders[o].action = "close" /\ OpenPositions # {}
      /\ BookFill(o, quantity, price, at, commission)
      /\ orphans' = orphans
  BY DEF FillClosing
<1>9. /\ positions' = [positions EXCEPT ![p] = Updated(@, taken, gross)]
      /\ balance' = balance + gross - commission
      /\ trades' = IF TradeFits(p, at) THEN Append(trades, row) ELSE trades
  BY <1>4, <1>5, <1>6, <1>7 DEF FillClosing, Credited
<1>10. /\ quantity \in Nat /\ price \in Nat /\ at \in Nat /\ commission \in Nat
       /\ quantity \in Int /\ commission \in Int
  BY BrokerConfig
<1>11. /\ p \in DOMAIN positions /\ positions[p] \in PositionRows
       /\ OpenQuantity(p) \in Nat
  <2>1. p \in OpenPositions
    BY <1>1, <1>4, <1>8, FirstOpenIsOpen
  <2>2. p \in DOMAIN positions /\ OpenQuantity(p) > 0
    BY <2>1 DEF OpenPositions
  <2>3. positions[p] \in PositionRows
    BY <1>1, <2>2, ElementOfSeq DEF RowsFit
  <2>. QED
    BY <2>2, <2>3 DEF OpenQuantity, PositionRows
<1>12. taken \in Nat /\ taken <= quantity /\ taken <= OpenQuantity(p)
  BY <1>5, <1>10, <1>11, TakenBound
<1>13. gross \in Int
  <2>1. positions[p].entry \in Nat
    BY <1>11 DEF PositionRows
  <2>2. (price - positions[p].entry) * taken \in Int
    BY <1>10, <1>12, <2>1
  <2>. QED
    BY <1>6, <2>2 DEF Gross
<1>14. balance \in Int /\ balance' \in Int
  BY <1>1, <1>9, <1>10, <1>13 DEF RowsFit
<1>15. /\ orders' \in Seq(OrderRows) /\ fills' \in Seq(FillRows)
       /\ \A i \in DOMAIN fills' : fills'[i].order \in DOMAIN orders'
       /\ n \notin DOMAIN fills /\ DOMAIN fills' = DOMAIN fills \cup {n}
       /\ \A i \in DOMAIN fills : fills'[i] = fills[i]
       /\ fills'[n].at = at
       /\ ClosingFills' = ClosingFills \cup {n}
  BY <1>1, <1>2, <1>8, BookFillRows
<1>16. \A S \in SUBSET DOMAIN fills :
         /\ SumFunctionOnSet(Filled, S) \in Int
         /\ SumFunctionOnSet(Charged, S) \in Int
         /\ SumFunctionOnSet(Filled', S) = SumFunctionOnSet(Filled, S)
         /\ SumFunctionOnSet(Filled', S \cup {n}) = SumFunctionOnSet(Filled, S) + quantity
         /\ SumFunctionOnSet(Charged', S \cup {n})
              = SumFunctionOnSet(Charged, S) + commission
  <2>1. RowsFit /\ BookFill(o, quantity, price, at, commission)
    BY <1>1, <1>8
  <2> TAKE S \in SUBSET DOMAIN fills
  <2>2. /\ SumFunctionOnSet(Filled, S) \in Int
        /\ SumFunctionOnSet(Charged, S) \in Int
        /\ SumFunctionOnSet(Filled', S) = SumFunctionOnSet(Filled, S)
        /\ SumFunctionOnSet(Filled', S \cup {Len(fills) + 1})
             = SumFunctionOnSet(Filled, S) + quantity
        /\ SumFunctionOnSet(Charged', S \cup {Len(fills) + 1})
             = SumFunctionOnSet(Charged, S) + commission
    BY <2>1, BookFillSums
  <2>. QED
    BY <1>2, <2>2, Zenon
<1>17. /\ positions' \in Seq(PositionRows) /\ DOMAIN positions' = DOMAIN positions
       /\ \A q \in DOMAIN positions \ {p} : positions'[q] = positions[q]
       /\ positions'[p].quantity = positions[p].quantity
       /\ positions'[p].opened = positions[p].opened
       /\ positions'[p].closed = positions[p].closed + taken
       /\ positions'[p].realized = positions[p].realized + gross
       /\ SumFunction(Opened') = SumFunction(Opened)
       /\ SumFunction(Closed') = SumFunction(Closed) + taken
       /\ SumFunction(Realized') = SumFunction(Realized) + gross
  BY <1>1, <1>9, <1>11, <1>12, <1>13, PositionCloses
<1>18. /\ SumFunction(Opened) \in Int /\ SumFunction(Closed) \in Int
       /\ SumFunction(Realized) \in Int
  BY <1>1, SumTypes
<1>19. ClosingFills \subseteq DOMAIN fills /\ orphans \subseteq ClosingFills
  BY <1>1 DEF RowsFit, ClosingFills
<1>20. /\ trades' \in Seq(TradeRows)
       /\ \A i \in DOMAIN trades' : trades'[i].position \in DOMAIN positions'
       /\ \A q \in DOMAIN positions \ {p} :
            /\ SumFunctionOnSet(Traded', TradesOf(q)') = SumFunctionOnSet(Traded, TradesOf(q))
            /\ SumFunctionOnSet(Earned', TradesOf(q)') = SumFunctionOnSet(Earned, TradesOf(q))
       /\ IF TradeFits(p, at)
          THEN /\ SumFunctionOnSet(Traded', TradesOf(p)')
                    = SumFunctionOnSet(Traded, TradesOf(p)) + taken
               /\ SumFunctionOnSet(Earned', TradesOf(p)')
                    = SumFunctionOnSet(Earned, TradesOf(p)) + gross
          ELSE SumFunctionOnSet(Traded', TradesOf(p)') = SumFunctionOnSet(Traded, TradesOf(p))
       /\ SumFunctionOnSet(Traded, TradesOf(p)) \in Int
  <2>1. /\ \A i \in DOMAIN trades : trades[i].position \in DOMAIN positions
        /\ \A q : TradesOf(q) \in SUBSET DOMAIN trades
    BY <1>1 DEF RowsFit, TradesOf
  <2>2. SumFunctionOnSet(Traded, TradesOf(p)) \in Int
    BY <1>1, <2>1, SumTypes
  <2>3. CASE ~TradeFits(p, at)
    <3>1. trades' = trades
      BY <1>9, <2>3
    <3>2. Traded' = Traded /\ Earned' = Earned /\ \A q : TradesOf(q)' = TradesOf(q)
      BY <3>1 DEF Traded, Earned, TradesOf
    <3>3. trades' \in Seq(TradeRows)
      BY <1>1, <3>1 DEF RowsFit
    <3>4. \A i \in DOMAIN trades' : trades'[i].position \in DOMAIN positions'
      BY <1>17, <2>1, <3>1
    <3>. QED
      BY <2>2, <2>3, <3>2, <3>3, <3>4
  <2>4. CASE TradeFits(p, at)
    <3>1. trades' = Append(trades, row)
      BY <1>9, <2>4
    <3>2. p \in Nat
      BY <1>1, <1>11 DEF RowsFit
    <3>3. /\ row \in TradeRows
          /\ row.quantity = taken /\ row.gross = gross /\ row.position = p
      BY <1>7, <1>10, <1>12, <1>13, <1>14, <3>2 DEF TradeRows
    <3>4. /\ trades' \in Seq(TradeRows)
          /\ DOMAIN trades' = DOMAIN trades \cup {k} /\ k \notin DOMAIN trades
          /\ \A i \in DOMAIN trades : trades'[i] = trades[i]
          /\ trades'[k] = row
      BY <1>1, <1>3, <3>1, <3>3, NewTrade
    <3>5. \A S \in SUBSET DOMAIN trades :
            /\ SumFunctionOnSet(Traded', S) = SumFunctionOnSet(Traded, S)
            /\ SumFunctionOnSet(Earned', S) = SumFunctionOnSet(Earned, S)
            /\ SumFunctionOnSet(Traded', S \cup {k}) = SumFunctionOnSet(Traded, S) + taken
            /\ SumFunctionOnSet(Earned', S \cup {k}) = SumFunctionOnSet(Earned, S) + gross
      <4> TAKE S \in SUBSET DOMAIN trades
      <4>. QED
        BY <1>1, <1>3, <3>1, <3>3, NewTrade
    <3>6. \A i \in DOMAIN trades' : trades'[i].position \in DOMAIN positions'
      BY <1>11, <1>17, <2>1, <3>3, <3>4
    <3>7. TradesOf(p)' = TradesOf(p) \cup {k}
      BY <3>3, <3>4 DEF TradesOf
    <3>8. /\ SumFunctionOnSet(Traded', TradesOf(p)')
               = SumFunctionOnSet(Traded', TradesOf(p) \cup {k})
          /\ SumFunctionOnSet(Earned', TradesOf(p)')
               = SumFunctionOnSet(Earned', TradesOf(p) \cup {k})
      BY <3>7, Zenon
    <3>9. ASSUME NEW q \in DOMAIN positions \ {p}
          PROVE  /\ SumFunctionOnSet(Traded', TradesOf(q)')
                      = SumFunctionOnSet(Traded, TradesOf(q))
                 /\ SumFunctionOnSet(Earned', TradesOf(q)')
                      = SumFunctionOnSet(Earned, TradesOf(q))
      <4>1. TradesOf(q)' = TradesOf(q)
        BY <3>3, <3>4 DEF TradesOf
      <4>2. /\ SumFunctionOnSet(Traded', TradesOf(q)') = SumFunctionOnSet(Traded', TradesOf(q))
            /\ SumFunctionOnSet(Earned', TradesOf(q)') = SumFunctionOnSet(Earned', TradesOf(q))
        BY <4>1, Zenon
      <4>. QED
        BY <2>1, <3>5, <4>2
    <3>10. /\ SumFunctionOnSet(Traded', TradesOf(p) \cup {k})
                = SumFunctionOnSet(Traded, TradesOf(p)) + taken
           /\ SumFunctionOnSet(Earned', TradesOf(p) \cup {k})
                = SumFunctionOnSet(Earned, TradesOf(p)) + gross
      BY <2>1, <3>5
    <3>. QED
      BY <2>2, <2>4, <3>4, <3>6, <3>8, <3>9, <3>10
  <2>. QED
    BY <2>3, <2>4
<1>21. RowsFit'
  BY <1>8, <1>14, <1>15, <1>17, <1>19, <1>20 DEF RowsFit
<1>22. NothingClosedUnfilled'
  <2>1. \A q \in DOMAIN positions' : positions'[q].closed \in 0 .. positions'[q].quantity
    <3>1. \A q \in DOMAIN positions : positions[q].closed \in 0 .. positions[q].quantity
      BY <1>1 DEF NothingClosedUnfilled
    <3>2. positions'[p].closed \in 0 .. positions'[p].quantity
      <4>1. positions[p].closed \in Nat /\ positions[p].quantity \in Nat
        BY <1>11 DEF PositionRows
      <4>2. taken <= positions[p].quantity - positions[p].closed
        BY <1>12 DEF OpenQuantity
      <4>3. positions[p].closed + taken \in 0 .. positions[p].quantity
        BY <1>12, <4>1, <4>2
      <4>. QED
        BY <1>17, <4>3
    <3>. QED
      BY <1>17, <3>1, <3>2
  <2>2. SumFunction(Opened') = SumFunctionOnSet(Filled', DOMAIN fills' \ ClosingFills')
    <3>1. DOMAIN fills' \ ClosingFills' = DOMAIN fills \ ClosingFills
      BY <1>15
    <3>2. SumFunctionOnSet(Filled', DOMAIN fills' \ ClosingFills')
            = SumFunctionOnSet(Filled', DOMAIN fills \ ClosingFills)
      BY <3>1, Zenon
    <3>3. SumFunctionOnSet(Filled', DOMAIN fills \ ClosingFills)
            = SumFunctionOnSet(Filled, DOMAIN fills \ ClosingFills)
      BY <1>16
    <3>. QED
      BY <1>1, <1>17, <3>2, <3>3 DEF NothingClosedUnfilled
  <2>3. SumFunction(Closed') <= SumFunctionOnSet(Filled', ClosingFills' \ orphans')
    <3>1. ClosingFills' \ orphans' = (ClosingFills \ orphans) \cup {n}
      BY <1>8, <1>15, <1>19
    <3>2. SumFunctionOnSet(Filled', ClosingFills' \ orphans')
            = SumFunctionOnSet(Filled', (ClosingFills \ orphans) \cup {n})
      BY <3>1, Zenon
    <3>3. /\ SumFunctionOnSet(Filled', (ClosingFills \ orphans) \cup {n})
               = SumFunctionOnSet(Filled, ClosingFills \ orphans) + quantity
          /\ SumFunctionOnSet(Filled, ClosingFills \ orphans) \in Int
      BY <1>16, <1>19
    <3>4. SumFunction(Closed) <= SumFunctionOnSet(Filled, ClosingFills \ orphans)
      BY <1>1 DEF NothingClosedUnfilled
    <3>. QED
      BY <1>10, <1>12, <1>17, <1>18, <3>2, <3>3, <3>4
  <2>. QED
    BY <2>1, <2>2, <2>3 DEF NothingClosedUnfilled
<1>23. BalanceAddsUp'
  <2>1. DOMAIN fills' \ orphans' = (DOMAIN fills \ orphans) \cup {n}
    BY <1>8, <1>15, <1>19
  <2>2. SumFunctionOnSet(Charged', DOMAIN fills' \ orphans')
          = SumFunctionOnSet(Charged', (DOMAIN fills \ orphans) \cup {n})
    BY <2>1, Zenon
  <2>3. /\ SumFunctionOnSet(Charged', (DOMAIN fills \ orphans) \cup {n})
             = SumFunctionOnSet(Charged, DOMAIN fills \ orphans) + commission
        /\ SumFunctionOnSet(Charged, DOMAIN fills \ orphans) \in Int
    BY <1>16
  <2>. QED
    <3>1. balance = StartingBalance + SumFunction(Realized)
                      - SumFunctionOnSet(Charged, DOMAIN fills \ orphans)
      BY <1>1 DEF BalanceAddsUp
    <3>2. balance' = StartingBalance + SumFunction(Realized')
                      - SumFunctionOnSet(Charged', DOMAIN fills' \ orphans')
      <4>1. /\ balance' = balance + gross - commission
            /\ SumFunction(Realized') = SumFunction(Realized) + gross
            /\ SumFunction(Realized) \in Int /\ commission \in Int /\ gross \in Int
        BY <1>9, <1>10, <1>13, <1>17, <1>18
      <4>2. StartingBalance \in Int
        BY BrokerConfig
      <4>. QED
        BY <2>2, <2>3, <3>1, <4>1, <4>2
    <3>. QED
      BY <3>2 DEF BalanceAddsUp
<1>24. TradesExplainPositions'
  <2>1. \A q \in DOMAIN positions :
          /\ positions'[q].opened = positions[q].opened
          /\ (\A i \in ClosingFills' : fills'[i].at >= positions'[q].opened)
               => \A i \in ClosingFills : fills[i].at >= positions[q].opened
    BY <1>15, <1>17, <1>19
  <2>2. ASSUME NEW q \in DOMAIN positions
        PROVE  /\ SumFunctionOnSet(Traded, TradesOf(q)) <= positions[q].closed
               /\ (\A i \in ClosingFills : fills[i].at >= positions[q].opened)
                    => /\ SumFunctionOnSet(Traded, TradesOf(q)) = positions[q].closed
                       /\ SumFunctionOnSet(Earned, TradesOf(q)) = positions[q].realized
    BY <1>1 DEF TradesExplainPositions
  <2>3. ASSUME NEW q \in DOMAIN positions \ {p}
        PROVE  /\ SumFunctionOnSet(Traded', TradesOf(q)') <= positions'[q].closed
               /\ (\A i \in ClosingFills' : fills'[i].at >= positions'[q].opened)
                    => /\ SumFunctionOnSet(Traded', TradesOf(q)') = positions'[q].closed
                       /\ SumFunctionOnSet(Earned', TradesOf(q)') = positions'[q].realized
    BY <1>17, <1>20, <2>1, <2>2
  <2>4. positions[p].closed \in Int
    BY <1>11 DEF PositionRows
  <2>5. SumFunctionOnSet(Traded', TradesOf(p)') <= positions'[p].closed
    BY <1>11, <1>12, <1>17, <1>20, <2>2, <2>4
  <2>6. ASSUME \A i \in ClosingFills' : fills'[i].at >= positions'[p].opened
        PROVE  /\ SumFunctionOnSet(Traded', TradesOf(p)') = positions'[p].closed
               /\ SumFunctionOnSet(Earned', TradesOf(p)') = positions'[p].realized
    <3>1. /\ SumFunctionOnSet(Traded, TradesOf(p)) = positions[p].closed
          /\ SumFunctionOnSet(Earned, TradesOf(p)) = positions[p].realized
      BY <1>11, <2>1, <2>2, <2>6
    <3>2. TradeFits(p, at)
      BY <1>15, <1>17, <2>6 DEF TradeFits
    <3>. QED
      BY <1>17, <1>20, <3>1, <3>2
  <2>7. /\ SumFunctionOnSet(Traded', TradesOf(p)') <= positions'[p].closed
        /\ (\A i \in ClosingFills' : fills'[i].at >= positions'[p].opened)
             => /\ SumFunctionOnSet(Traded', TradesOf(p)') = positions'[p].closed
                /\ SumFunctionOnSet(Earned', TradesOf(p)') = positions'[p].realized
    BY <2>5, <2>6
  <2>8. \A q \in DOMAIN positions' :
          /\ SumFunctionOnSet(Traded', TradesOf(q)') <= positions'[q].closed
          /\ (\A i \in ClosingFills' : fills'[i].at >= positions'[q].opened)
               => /\ SumFunctionOnSet(Traded', TradesOf(q)') = positions'[q].closed
                  /\ SumFunctionOnSet(Earned', TradesOf(q)') = positions'[q].realized
    BY <1>17, <2>3, <2>7
  <2>. QED
    BY <2>8 DEF TradesExplainPositions
<1>. QED
  BY <1>21, <1>22, <1>23, <1>24 DEF IInv

(* Every call, the ones that raise half-way included, keeps the books.        *)
LEMMA NextInv == IInv /\ [Next]_vars => IInv'
<1> SUFFICES ASSUME IInv, [Next]_vars PROVE IInv'
  OBVIOUS
<1>1. CASE \E action \in Actions, quantity \in Quantities : Submit(action, quantity)
  BY <1>1, SubmitInv
<1>2. CASE \E o \in DOMAIN orders : Cancel(o)
  BY <1>2, CancelInv
<1>3. CASE \E o \in DOMAIN orders : Fill(o)
  BY <1>3, FillOpeningInv, FillNothingToCloseInv, FillClosingInv DEF Fill
<1>4. CASE UNCHANGED vars
  <2>1. /\ orders' = orders /\ UNCHANGED <<fills, positions, trades, balance, orphans>>
    BY <1>4 DEF vars
  <2>2. orders' \in Seq(OrderRows) /\ DOMAIN orders' = DOMAIN orders
    BY <2>1 DEF IInv, RowsFit
  <2>. QED
    BY <2>1, <2>2, OrdersOnly
<1>. QED
  BY <1>1, <1>2, <1>3, <1>4 DEF Next

(* The books agree in every reachable state.                                  *)
LEMMA Books == Spec => []IInv
  BY InitInv, NextInv, PTL DEF Spec

(* fill_order, _open_position and _close_position: what is open is what the   *)
(* opening fills opened less what the closing fills took.                     *)
THEOREM NothingClosedUnfilledHolds == Spec => []NothingClosedUnfilled
<1>1. IInv => NothingClosedUnfilled
  BY DEF IInv
<1>. QED
  BY <1>1, Books, PTL

(* current_balance: the starting balance plus what was realised, less the     *)
(* commission of every fill but those that found nothing to close.            *)
THEOREM BalanceAddsUpHolds == Spec => []BalanceAddsUp
<1>1. IInv => BalanceAddsUp
  BY DEF IInv
<1>. QED
  BY <1>1, Books, PTL

(* _close_position: trades account for all that was closed of a position no   *)
(* closing fill is dated before; a trade can be missing, never one too many.  *)
THEOREM TradesExplainPositionsHolds == Spec => []TradesExplainPositions
<1>1. IInv => TradesExplainPositions
  BY DEF IInv
<1>. QED
  BY <1>1, Books, PTL

-----------------------------------------------------------------------------
(* A backtest run: what holds of its state after every phase of every bar.    *)

Holdings == [id : Nat \ {0}, symbol : Symbols, side : {"long", "short"}, entry : Int,
             quantity : Nat, stop : Nat, target : Nat]
Tickets == [id : Nat, side : {"long", "short"}, symbol : Symbols,
            status : {"filled", "rejected"}]
Exits == [position : Holdings, at : Nat, exit : Int, net : Int,
          reason : {"stop_loss", "take_profit", "signal_exit", "end_of_data"}]
States == [balance : Nat, open : SUBSET Holdings, orders : Seq(Tickets),
           trades : Seq(Exits), raised : BOOLEAN]
Points == [at : Nat, balance : Nat, equity : Nat, fall : Nat, from : Nat]

RunFits ==
  /\ policy \in Policies
  /\ state \in States /\ IsFiniteSet(state.open)
  /\ bars \in Seq(Bars)
  /\ curve \in Seq(Points)
  /\ peak \in Nat
  /\ phase \in {"bar", "signal", "point", "finished", "failed"}
  /\ phase # "failed" => ~state.raised

FilledOf(tickets) == {i \in DOMAIN tickets : tickets[i].status = "filled"}
NetsOf(exits) == [i \in DOMAIN exits |-> exits[i].net]
ClosedIds(exits) == {exits[i].position.id : i \in DOMAIN exits}

(* The books of a state whose last entry was on bar `last`: every position is *)
(* known by the bar of its own entry, every filled order is open or closed    *)
(* once, and the balance is what the trades made of it.                       *)
BooksOf(s, last) ==
  /\ Cardinality(s.open) <= MaxOpenPositions
  /\ \A p \in s.open : p.id \in 1 .. last
  /\ \A p \in s.open : \A q \in s.open : p.id = q.id => p = q
  /\ {s.orders[i].id : i \in FilledOf(s.orders)}
       = {p.id : p \in s.open} \cup ClosedIds(s.trades)
  /\ Cardinality(s.open) + Len(s.trades) = Cardinality(FilledOf(s.orders))
  /\ s.balance = InitialBalance + SumFunctionOnSet(NetsOf(s.trades), DOMAIN NetsOf(s.trades))

LastEntry == IF phase = "signal" THEN Now - 1 ELSE Now

BooksInv ==
  /\ BooksOf(state, LastEntry)
  /\ phase = "finished" => state.open = {}
  /\ phase \in {"signal", "point"} => Now > 0

(* No bar from the one after the entry to bar n touches a level of p.         *)
HitOn(p, bar) == StopHit(p, bar) \/ TargetHit(p, bar)
Untouched(p, b, n) == \A i \in p.id + 1 .. n : ~HitOn(p, b[i])

(* What a booked trade says of the bars between entry and exit.               *)
LeftInTime(t, b, n, pol) ==
  /\ t.at \in t.position.id .. n
  /\ Untouched(t.position, b, t.at - 1)
  /\ t.reason \in {"stop_loss", "take_profit"}
       <=> t.at > t.position.id /\ HitOn(t.position, b[t.at])
  /\ t.reason = "take_profit" =>
       (pol = "stop_loss_first" => ~StopHit(t.position, b[t.at]))

TouchInv ==
  phase # "failed" =>
    /\ \A p \in state.open : Untouched(p, bars, Now)
    /\ \A k \in DOMAIN state.trades : LeftInTime(state.trades[k], bars, Now, policy)

(* top is the greatest equity of the first n points and the initial balance.  *)
EquityOf(c, i) == IF i = 0 THEN InitialBalance ELSE c[i].equity
IsTop(top, c, n) ==
  /\ \E i \in 0 .. n : top = EquityOf(c, i)
  /\ \A i \in 0 .. n : EquityOf(c, i) <= top

CurveFits(c) ==
  \A i \in 1 .. Len(c) :
    /\ IsTop(c[i].from, c, i - 1)
    /\ c[i].fall = IF c[i].equity >= c[i].from THEN 0 ELSE c[i].from - c[i].equity

EndsOn(c, final) == c # <<>> => /\ c[Len(c)].equity = final
                                  /\ c[Len(c)].balance = final

CurveInv ==
  /\ CurveFits(curve)
  /\ phase # "finished" => IsTop(peak, curve, Len(curve))
  /\ phase \in {"bar", "finished"} /\ state.open = {} => EndsOn(curve, state.balance)

BacktestInv == RunFits /\ BooksInv /\ TouchInv /\ CurveInv

-----------------------------------------------------------------------------
(* The loop that closes positions.                                         *)

LEMMA BacktestConstants ==
  /\ InitialBalance \in Nat /\ InitialBalance > 0 /\ AdverseCost \in Nat
  /\ Commission \in Nat /\ FixedQuantity \in Nat /\ RiskQuantities \subseteq Nat
  /\ MaxOpenPositions \in Nat /\ MaxOpenPositions > 0
  /\ Signals \subseteq Entries /\ Bars \subseteq Candles /\ MaxBars \in Nat
BY SimulatorConfig, BacktestInputs

\* g is the recursive function that CloseEach evaluates, up to turn m.
IsLoop(g, s, exits, at, m) ==
  g = [n \in 0 .. m |-> IF n = 0 THEN s ELSE CloseDue(g[n - 1], exits, n, at)]

(* The recursion of the loop has a solution.                                  *)
LEMMA LoopExists ==
  ASSUME NEW s, NEW exits, NEW at \in Nat
  PROVE  \E g : IsLoop(g, s, exits, at, at)
<1> DEFINE Bad == {m \in Nat : ~ \E g : IsLoop(g, s, exits, at, m)}
<1> SUFFICES ASSUME Bad # {} PROVE FALSE
  OBVIOUS
<1>1. PICK m \in Bad : \A k \in Bad : m <= k
  BY LeastNatural
<1>2. m # 0
  <2> DEFINE g == [n \in 0 .. 0 |-> s]
  <2>1. \A n \in 0 .. 0 : n = 0
    OBVIOUS
  <2>2. g = [n \in 0 .. 0 |-> IF n = 0 THEN s ELSE CloseDue(g[n - 1], exits, n, at)]
    BY <2>1
  <2>. QED
    BY <2>2 DEF IsLoop
<1>3. PICK g : IsLoop(g, s, exits, at, m - 1)
  BY <1>1, <1>2
<1> DEFINE h == [n \in 0 .. m |-> IF n = m THEN CloseDue(g[m - 1], exits, m, at) ELSE g[n]]
<1>4. \A n \in 0 .. m :
        h[n] = IF n = 0 THEN s ELSE CloseDue(h[n - 1], exits, n, at)
  <2> TAKE n \in 0 .. m
  <2>1. CASE n = m
    <3>1. h[n - 1] = g[m - 1]
      BY <2>1, <1>2
    <3>. QED
      BY <2>1, <3>1, <1>2
  <2>2. CASE n # m
    <3>1. n \in 0 .. m - 1 /\ h[n] = g[n]
      BY <2>2
    <3>2. g[n] = IF n = 0 THEN s ELSE CloseDue(g[n - 1], exits, n, at)
      BY <3>1, <1>3 DEF IsLoop
    <3>3. n # 0 => h[n - 1] = g[n - 1]
      BY <3>1
    <3>. QED
      BY <3>1, <3>2, <3>3
  <2>. QED
    BY <2>1, <2>2
<1>5. h = [n \in 0 .. m |-> IF n = 0 THEN s ELSE CloseDue(h[n - 1], exits, n, at)]
  <2>1. h = [n \in 0 .. m |-> h[n]]
    OBVIOUS
  <2> HIDE DEF h
  <2>. QED
    BY <2>1, <1>4
<1>6. IsLoop(h, s, exits, at, m)
  BY <1>5 DEF IsLoop
<1>. QED
  BY <1>6

(* Induction over the turns of the loop: what every turn carries on from the  *)
(* states of Good[n - 1] to those of Good[n] holds after the last.            *)
LEMMA LoopCarries ==
  ASSUME NEW s, NEW exits, NEW at \in Nat, NEW Good,
         s \in Good[0],
         \A n \in 1 .. at : \A t \in Good[n - 1] : CloseDue(t, exits, n, at) \in Good[n]
  PROVE  CloseEach(s, exits, at) \in Good[at]
<1> DEFINE closed == CHOOSE g : IsLoop(g, s, exits, at, at)
<1>1. IsLoop(closed, s, exits, at, at)
  BY LoopExists
<1>2. CloseEach(s, exits, at) = closed[at]
  BY DEF CloseEach, IsLoop
<1> HIDE DEF closed
<1>3. /\ closed[0] = s
      /\ \A n \in 1 .. at : closed[n] = CloseDue(closed[n - 1], exits, n, at)
  BY <1>1 DEF IsLoop
<1> DEFINE Bad == {n \in 0 .. at : closed[n] \notin Good[n]}
<1>4. Bad = {}
  <2> SUFFICES ASSUME Bad # {} PROVE FALSE
    OBVIOUS
  <2>1. PICK n \in Bad : \A k \in Bad : n <= k
    <3> HIDE DEF Bad
    <3>1. Bad \subseteq Nat
      BY DEF Bad
    <3>. QED
      BY <3>1, LeastNatural
  <2>2. n # 0
    BY <1>3
  <2>3. closed[n - 1] \in Good[n - 1]
    BY <2>1, <2>2
  <2>. QED
    BY <2>1, <2>2, <2>3, <1>3
<1>. QED
  BY <1>2, <1>4

(* The gross result of an exit is an integer.                                 *)
LEMMA GrossType ==
  ASSUME NEW p \in Holdings, NEW exit \in Int
  PROVE  GrossPnl(p, exit) \in Int
<1>1. p.entry \in Int /\ p.quantity \in Nat
  BY DEF Holdings
<1>2. \A a, b \in Int : a * b \in Int
  OBVIOUS
<1>3. (exit - p.entry) * p.quantity \in Int
  BY <1>1, <1>2
<1>. QED
  BY <1>2, <1>3 DEF GrossPnl

LEMMA NetsAppend ==
  ASSUME NEW exits \in Seq(Exits), NEW row \in Exits
  PROVE  /\ SumFunctionOnSet(NetsOf(exits), DOMAIN NetsOf(exits)) \in Int
         /\ SumFunctionOnSet(NetsOf(Append(exits, row)), DOMAIN NetsOf(Append(exits, row)))
              = SumFunctionOnSet(NetsOf(exits), DOMAIN NetsOf(exits)) + row.net
<1> DEFINE n == Len(exits) + 1
           D == 1 .. Len(exits)
           f == NetsOf(exits)
           g == NetsOf(Append(exits, row))
<1>1. Len(exits) \in Nat /\ n \notin D /\ IsFiniteSet(D)
  BY FS_Interval
<1>2. /\ DOMAIN f = D
      /\ DOMAIN g = D \cup {n}
  BY DEF NetsOf
<1>3. /\ \A i \in D : f[i] \in Int /\ g[i] = f[i]
      /\ g[n] = row.net /\ g[n] \in Int
  <2>1. \A e \in Exits : e.net \in Int
    BY DEF Exits
  <2>2. \A i \in D : exits[i] \in Exits /\ Append(exits, row)[i] = exits[i]
    OBVIOUS
  <2>3. Append(exits, row)[n] = row
    OBVIOUS
  <2>4. \A i \in D : f[i] = exits[i].net /\ g[i] = Append(exits, row)[i].net
    BY DEF NetsOf
  <2>5. g[n] = Append(exits, row)[n].net
    BY DEF NetsOf
  <2>. QED
    BY <2>1, <2>2, <2>3, <2>4, <2>5
<1> HIDE DEF f, g, D, n
<1>4. /\ SumFunctionOnSet(f, D) \in Int
      /\ SumFunctionOnSet(g, D \cup {n}) = SumFunctionOnSet(f, D) + g[n]
  <2>1. D \in SUBSET D
    OBVIOUS
  <2>. QED
    BY <1>1, <1>3, <2>1, SumGrow
<1>5. /\ SumFunctionOnSet(f, DOMAIN f) = SumFunctionOnSet(f, D)
      /\ SumFunctionOnSet(g, DOMAIN g) = SumFunctionOnSet(g, D \cup {n})
  BY <1>2, Zenon
<1>6. /\ SumFunctionOnSet(f, DOMAIN f) \in Int
      /\ SumFunctionOnSet(g, DOMAIN g) = SumFunctionOnSet(f, DOMAIN f) + row.net
  BY <1>3, <1>4, <1>5
<1>. QED
  BY <1>6 DEF f, g

(* Closing a position that is open either raises, and changes nothing else,   *)
(* or moves it from the open positions to the trades.                         *)
Moves(t, c, p, reason, at) ==
  /\ c.orders = t.orders
  /\ \/ c.raised /\ c.open = t.open /\ c.trades = t.trades /\ c.balance = t.balance
     \/ /\ ~c.raised /\ ~t.raised
        /\ c.open = t.open \ {p}
        /\ \E row \in Exits :
             /\ row.position = p /\ row.at = at /\ row.reason = reason
             /\ c.trades = Append(t.trades, row)
             /\ c.balance = t.balance + row.net

LEMMA CloseMoves ==
  ASSUME NEW t \in States, NEW p \in t.open, NEW base \in Int, NEW at \in Nat,
         NEW reason \in {"stop_loss", "take_profit", "signal_exit", "end_of_data"},
         \A q \in t.open : q.id = p.id => q = p
  PROVE  /\ Close(t, p, base, reason, at) \in States
         /\ Moves(t, Close(t, p, base, reason, at), p, reason, at)
<1> DEFINE exit == MarketPrice(p.side, base, FALSE)
           net == GrossPnl(p, exit) - 2 * Commission
           row == [position |-> p, at |-> at, exit |-> exit, net |-> net, reason |-> reason]
           raises == t.raised \/ exit <= 0 \/ t.balance + net < 0
           raised == [t EXCEPT !.raised = TRUE]
           moved == [balance |-> t.balance + net, open |-> Without(t.open, p),
                     orders |-> t.orders, trades |-> Append(t.trades, row),
                     raised |-> FALSE]
<1>1. Close(t, p, base, reason, at) = IF raises THEN raised ELSE moved
  BY DEF Close
<1>2. p \in Holdings /\ t.balance \in Nat /\ t.open \subseteq Holdings
      /\ t.orders \in Seq(Tickets) /\ t.trades \in Seq(Exits) /\ t.raised \in BOOLEAN
  BY DEF States
<1>3. exit \in Int
  BY BacktestConstants DEF MarketPrice
<1>4. net \in Int
  <2> HIDE DEF exit
  <2>1. GrossPnl(p, exit) \in Int
    BY <1>2, <1>3, GrossType
  <2>. QED
    BY <2>1, BacktestConstants
<1>5. row \in Exits
  <2> HIDE DEF exit, net
  <2>. QED
    BY <1>2, <1>3, <1>4 DEF Exits
<1>6. Without(t.open, p) = t.open \ {p}
  BY DEF Without
<1>7. row.position = p /\ row.at = at /\ row.reason = reason /\ row.net = net
  OBVIOUS
<1> HIDE DEF exit, net, row
<1>8. CASE raises
  <2>1. raised \in States /\ raised.raised
    BY <1>2 DEF States
  <2>2. /\ raised.orders = t.orders /\ raised.open = t.open /\ raised.trades = t.trades
        /\ raised.balance = t.balance
    BY DEF States
  <2>3. Close(t, p, base, reason, at) = raised
    BY <1>1, <1>8
  <2> HIDE DEF raised
  <2>. QED
    BY <2>1, <2>2, <2>3 DEF Moves
<1>9. CASE ~raises
  <2>1. ~t.raised /\ t.balance + net \in Nat
    BY <1>2, <1>4, <1>9
  <2>2. Append(t.trades, row) \in Seq(Exits)
    BY <1>2, <1>5
  <2>3. moved \in States
    BY <1>2, <1>6, <2>1, <2>2 DEF States
  <2>4. Close(t, p, base, reason, at) = moved
    BY <1>1, <1>9
  <2>5. /\ ~moved.raised /\ moved.open = t.open \ {p} /\ moved.orders = t.orders
        /\ moved.trades = Append(t.trades, row) /\ moved.balance = t.balance + row.net
    BY <1>6, <1>7
  <2> HIDE DEF moved, raises
  <2>6. Moves(t, moved, p, reason, at)
    BY <1>5, <1>7, <2>1, <2>5 DEF Moves
  <2>. QED
    BY <2>3, <2>4, <2>6
<1>. QED
  BY <1>8, <1>9

LEMMA ClosedAppend ==
  ASSUME NEW exits \in Seq(Exits), NEW row \in Exits
  PROVE  ClosedIds(Append(exits, row)) = ClosedIds(exits) \cup {row.position.id}
<1> DEFINE n == Len(exits) + 1
           more == Append(exits, row)
<1>1. /\ DOMAIN exits = 1 .. Len(exits) /\ DOMAIN more = 1 .. n /\ n \in Nat
      /\ \A i \in DOMAIN exits : more[i] = exits[i] /\ i \in DOMAIN more
      /\ more[n] = row /\ n \in DOMAIN more
      /\ \A i \in DOMAIN more : i \in DOMAIN exits \/ i = n
  OBVIOUS
<1> HIDE DEF more, n
<1>2. ClosedIds(more) = ClosedIds(exits) \cup {row.position.id}
  BY <1>1 DEF ClosedIds
<1>. QED
  BY <1>2 DEF more

LEMMA MoveKeepsBooks ==
  ASSUME NEW t \in States, NEW c \in States, IsFiniteSet(t.open),
         NEW p \in t.open, NEW reason, NEW at, Moves(t, c, p, reason, at),
         NEW last, BooksOf(t, last)
  PROVE  IsFiniteSet(c.open) /\ BooksOf(c, last)
<1>1. CASE c.raised /\ c.open = t.open /\ c.trades = t.trades /\ c.balance = t.balance
  <2>1. c.orders = t.orders
    BY DEF Moves
  <2>. QED
    BY <1>1, <2>1 DEF BooksOf
<1>2. CASE /\ c.open = t.open \ {p}
           /\ \E row \in Exits :
                /\ row.position = p
                /\ c.trades = Append(t.trades, row)
                /\ c.balance = t.balance + row.net
  <2>1. PICK row \in Exits : /\ row.position = p
                             /\ c.trades = Append(t.trades, row)
                             /\ c.balance = t.balance + row.net
    BY <1>2
  <2>2. t.trades \in Seq(Exits) /\ c.orders = t.orders
    BY DEF States, Moves
  <2>3. /\ IsFiniteSet(c.open) /\ Cardinality(c.open) = Cardinality(t.open) - 1
        /\ Cardinality(t.open) \in Nat
    BY <1>2, FS_RemoveElement, FS_CardinalityType
  <2>4. ClosedIds(c.trades) = ClosedIds(t.trades) \cup {p.id}
    <3>1. ClosedIds(Append(t.trades, row)) = ClosedIds(t.trades) \cup {row.position.id}
      BY <2>2, ClosedAppend
    <3>. QED
      BY <2>1, <3>1
  <2>5. {q.id : q \in c.open} \cup ClosedIds(c.trades)
          = {q.id : q \in t.open} \cup ClosedIds(t.trades)
    BY <1>2, <2>4
  <2>6. Len(c.trades) = Len(t.trades) + 1 /\ Len(t.trades) \in Nat
    BY <2>1, <2>2
  <2>7. c.balance = InitialBalance
          + SumFunctionOnSet(NetsOf(c.trades), DOMAIN NetsOf(c.trades))
    <3> DEFINE Sum(e) == SumFunctionOnSet(NetsOf(e), DOMAIN NetsOf(e))
    <3>1. Sum(t.trades) \in Int /\ Sum(Append(t.trades, row)) = Sum(t.trades) + row.net
      BY <2>2, NetsAppend
    <3>2. t.balance = InitialBalance + Sum(t.trades)
      BY DEF BooksOf
    <3>3. row.net \in Int /\ InitialBalance \in Int
      BY BacktestConstants DEF Exits
    <3>4. Sum(c.trades) = Sum(Append(t.trades, row))
      BY <2>1, Zenon
    <3> HIDE DEF Sum
    <3>5. c.balance = InitialBalance + Sum(c.trades)
      BY <2>1, <3>1, <3>2, <3>3, <3>4
    <3>. QED
      BY <3>5 DEF Sum
  <2>8. /\ Cardinality(c.open) <= MaxOpenPositions
        /\ \A q \in c.open : q.id \in 1 .. last
        /\ \A q \in c.open : \A r \in c.open : q.id = r.id => q = r
    BY <1>2, <2>3, BacktestConstants DEF BooksOf
  <2>9. {c.orders[i].id : i \in FilledOf(c.orders)}
          = {q.id : q \in c.open} \cup ClosedIds(c.trades)
    BY <2>2, <2>5 DEF BooksOf
  <2>10. Cardinality(c.open) + Len(c.trades) = Cardinality(FilledOf(c.orders))
    <3>1. Cardinality(t.open) + Len(t.trades) = Cardinality(FilledOf(c.orders))
      BY <2>2 DEF BooksOf
    <3>. QED
      BY <2>3, <2>6, <3>1
  <2>. QED
    BY <2>3, <2>7, <2>8, <2>9, <2>10 DEF BooksOf
<1>. QED
  BY <1>1, <1>2 DEF Moves

-----------------------------------------------------------------------------
(* What n turns of the loop have done to s: the books still balance, the due  *)
(* positions of the first n bars are out, unless one raised, and the others   *)
(* are where they were; whatever left did so now, for the reason it had.      *)
Reasons == {"stop_loss", "take_profit", "signal_exit", "end_of_data"}
Due(s, exits) ==
  /\ DOMAIN exits \subseteq s.open
  /\ \A p \in DOMAIN exits : exits[p].base \in Int /\ exits[p].reason \in Reasons

Passed(s, t, exits, n, at) ==
  /\ t.orders = s.orders
  /\ t.open \subseteq s.open
  /\ \A p \in s.open : p \notin DOMAIN exits \/ p.id > n => p \in t.open
  /\ ~t.raised => \A p \in t.open : p \notin DOMAIN exits \/ p.id > n
  /\ \A k \in DOMAIN t.trades :
       \/ \E j \in DOMAIN s.trades : t.trades[k] = s.trades[j]
       \/ /\ t.trades[k].position \in DOMAIN exits
          /\ t.trades[k].at = at
          /\ t.trades[k].reason = exits[t.trades[k].position].reason

LEMMA TurnPasses ==
  ASSUME NEW s \in States, NEW last \in Nat, BooksOf(s, last),
         NEW exits, Due(s, exits), NEW at \in Nat, NEW n \in Nat \ {0},
         NEW t \in States, IsFiniteSet(t.open), BooksOf(t, last),
         Passed(s, t, exits, n - 1, at)
  PROVE  /\ CloseDue(t, exits, n, at) \in States
         /\ IsFiniteSet(CloseDue(t, exits, n, at).open)
         /\ BooksOf(CloseDue(t, exits, n, at), last)
         /\ Passed(s, CloseDue(t, exits, n, at), exits, n, at)
<1> DEFINE due == {p \in DOMAIN exits : p.id = n}
           c == CloseDue(t, exits, n, at)
<1>0. s.open \subseteq Holdings /\ \A p \in s.open : p.id \in Nat
  BY DEF States, Holdings
<1>1. CASE due = {}
  <2>1. c = t
    BY <1>1 DEF CloseDue
  <2>2. Passed(s, t, exits, n, at)
    BY <1>0, <1>1 DEF Passed, Due
  <2> HIDE DEF c
  <2>3. c \in States /\ IsFiniteSet(c.open) /\ BooksOf(c, last) /\ Passed(s, c, exits, n, at)
    BY <2>1, <2>2
  <2>. QED
    BY <2>3 DEF c
<1>2. CASE due # {}
  <2> DEFINE p == CHOOSE q \in due : TRUE
  <2>1. p \in DOMAIN exits /\ p.id = n
    BY <1>2
  <2>2. c = Close(t, p, exits[p].base, exits[p].reason, at)
    BY <1>2 DEF CloseDue
  <2> HIDE DEF p, c
  <2>3. p \in s.open /\ p \in t.open
    BY <2>1 DEF Passed, Due
  <2>4. \A q \in s.open : q.id = p.id => q = p
    BY <2>3 DEF BooksOf
  <2>5. c \in States /\ Moves(t, c, p, exits[p].reason, at)
    <3>1. exits[p].base \in Int /\ exits[p].reason \in Reasons
      BY <2>1 DEF Due
    <3>2. \A q \in t.open : q.id = p.id => q = p
      BY <2>4 DEF Passed
    <3>. QED
      BY <2>2, <2>3, <3>1, <3>2, CloseMoves DEF Reasons
  <2>6. IsFiniteSet(c.open) /\ BooksOf(c, last)
    BY <2>3, <2>5, MoveKeepsBooks
  <2>7. Passed(s, c, exits, n, at)
    <3>1. CASE c.raised /\ c.open = t.open /\ c.trades = t.trades
      <4>1. c.orders = s.orders
        BY <2>5 DEF Moves, Passed
      <4>2. \A q \in s.open : q \notin DOMAIN exits \/ q.id > n => q \in c.open
        BY <1>0, <3>1 DEF Passed
      <4>. QED
        BY <3>1, <4>1, <4>2 DEF Passed
    <3>2. CASE /\ ~c.raised /\ ~t.raised
               /\ c.open = t.open \ {p}
               /\ \E row \in Exits :
                    /\ row.position = p /\ row.at = at /\ row.reason = exits[p].reason
                    /\ c.trades = Append(t.trades, row)
      <4>1. c.orders = s.orders /\ c.open \subseteq s.open
        BY <2>5, <3>2 DEF Moves, Passed
      <4>2. \A q \in s.open : q \notin DOMAIN exits \/ q.id > n => q \in c.open
        BY <1>0, <2>1, <3>2 DEF Passed
      <4>3. \A q \in c.open : q \notin DOMAIN exits \/ q.id > n
        <5> SUFFICES ASSUME NEW q \in c.open, q \in DOMAIN exits PROVE q.id > n
          OBVIOUS
        <5>1. q \in t.open /\ q # p /\ q \in s.open
          BY <3>2, <4>1
        <5>2. q.id > n - 1 /\ q.id \in Nat /\ q.id # n
          BY <1>0, <2>1, <2>4, <3>2, <5>1 DEF Passed
        <5>. QED
          BY <5>2
      <4>4. PICK row \in Exits :
              /\ row.position = p /\ row.at = at /\ row.reason = exits[p].reason
              /\ c.trades = Append(t.trades, row)
        BY <3>2
      <4>5. ASSUME NEW k \in DOMAIN c.trades
            PROVE  \/ \E j \in DOMAIN s.trades : c.trades[k] = s.trades[j]
                   \/ /\ c.trades[k].position \in DOMAIN exits
                      /\ c.trades[k].at = at
                      /\ c.trades[k].reason = exits[c.trades[k].position].reason
        <5>1. t.trades \in Seq(Exits)
          BY DEF States
        <5>2. \/ k \in DOMAIN t.trades /\ c.trades[k] = t.trades[k]
              \/ c.trades[k] = row
          BY <4>4, <5>1
        <5>. QED
          BY <2>1, <4>4, <5>2 DEF Passed
      <4>. QED
        BY <3>2, <4>1, <4>2, <4>3, <4>5 DEF Passed
    <3>. QED
      BY <2>5, <3>1, <3>2 DEF Moves
  <2>. QED
    BY <2>5, <2>6, <2>7 DEF c
<1>. QED
  BY <1>1, <1>2

(* The whole loop.                                                            *)
LEMMA CloseEachPasses ==
  ASSUME NEW s \in States, IsFiniteSet(s.open), NEW last \in Nat, BooksOf(s, last),
         NEW exits, Due(s, exits), NEW at \in Nat
  PROVE  /\ CloseEach(s, exits, at) \in States
         /\ IsFiniteSet(CloseEach(s, exits, at).open)
         /\ BooksOf(CloseEach(s, exits, at), last)
         /\ Passed(s, CloseEach(s, exits, at), exits, at, at)
<1> DEFINE Good == [n \in 0 .. at |->
                      {t \in States : /\ IsFiniteSet(t.open)
                                      /\ BooksOf(t, last)
                                      /\ Passed(s, t, exits, n, at)}]
<1>1. Passed(s, s, exits, 0, at)
  <2>1. \A p \in s.open : p.id > 0
    BY DEF States, Holdings
  <2>. QED
    BY <2>1 DEF Passed
<1>2. s \in Good[0]
  BY <1>1
<1>3. ASSUME NEW n \in 1 .. at, NEW t \in Good[n - 1]
      PROVE  CloseDue(t, exits, n, at) \in Good[n]
  <2>1. /\ t \in States /\ IsFiniteSet(t.open) /\ BooksOf(t, last)
        /\ Passed(s, t, exits, n - 1, at)
    OBVIOUS
  <2>2. n \in Nat \ {0}
    OBVIOUS
  <2> HIDE DEF Good
  <2>3. /\ CloseDue(t, exits, n, at) \in States
        /\ IsFiniteSet(CloseDue(t, exits, n, at).open)
        /\ BooksOf(CloseDue(t, exits, n, at), last)
        /\ Passed(s, CloseDue(t, exits, n, at), exits, n, at)
    BY <2>1, <2>2, TurnPasses
  <2>. QED
    BY <2>3 DEF Good
<1> HIDE DEF Good
<1>4. CloseEach(s, exits, at) \in Good[at]
  BY <1>2, <1>3, LoopCarries
<1>. QED
  BY <1>4 DEF Good

(* The two callers of the loop.                                               *)
LEMMA LifecyclePasses ==
  ASSUME NEW s \in States, IsFiniteSet(s.open), NEW last \in Nat, BooksOf(s, last),
         NEW bar \in Bars, NEW pol, NEW at \in Nat
  PROVE  LET c == ApplyLifecycle(s, bar, pol, at)
         IN
         /\ c \in States /\ IsFiniteSet(c.open) /\ BooksOf(c, last)
         /\ \E exits : /\ DOMAIN exits = Touched(s, bar)
                       /\ \A p \in DOMAIN exits :
                            exits[p].reason = ExitReason(p, bar, pol)
                       /\ Passed(s, c, exits, at, at)
<1> DEFINE Exit(p) == LET reason == ExitReason(p, bar, pol)
                      IN [base |-> IF reason = "stop_loss" THEN p.stop ELSE p.target,
                          reason |-> reason]
           exits == [p \in Touched(s, bar) |-> Exit(p)]
<1>1. DOMAIN exits = Touched(s, bar) /\ Touched(s, bar) \subseteq s.open
  BY DEF Touched
<1>2. \A p \in DOMAIN exits : /\ exits[p].reason = ExitReason(p, bar, pol)
                              /\ exits[p].base \in {p.stop, p.target}
  BY <1>1
<1>3. ApplyLifecycle(s, bar, pol, at) = CloseEach(s, exits, at)
  BY DEF ApplyLifecycle
<1>4. s.open \subseteq Holdings
  BY DEF States
<1>5. \A p \in Holdings : p.stop \in Int /\ p.target \in Int
  BY DEF Holdings
<1>6. \A p : ExitReason(p, bar, pol) \in Reasons
  BY DEF ExitReason, Reasons
<1> HIDE DEF exits, Exit
<1>7. Due(s, exits)
  BY <1>1, <1>2, <1>4, <1>5, <1>6 DEF Due
<1>8. /\ CloseEach(s, exits, at) \in States
      /\ IsFiniteSet(CloseEach(s, exits, at).open)
      /\ BooksOf(CloseEach(s, exits, at), last)
      /\ Passed(s, CloseEach(s, exits, at), exits, at, at)
  BY <1>7, CloseEachPasses
<1>. QED
  BY <1>1, <1>2, <1>3, <1>8

AllLeave(s, c, leaving, reason, at) ==
  \E exits : /\ DOMAIN exits = leaving
             /\ \A p \in DOMAIN exits : exits[p].reason = reason
             /\ Passed(s, c, exits, at, at)

LEMMA CloseAllPasses ==
  ASSUME NEW s \in States, IsFiniteSet(s.open), NEW last \in Nat, BooksOf(s, last),
         NEW leaving, leaving \subseteq s.open, NEW bar \in Bars,
         NEW reason, reason \in Reasons, NEW at \in Nat
  PROVE  /\ CloseAll(s, leaving, bar, reason, at) \in States
         /\ IsFiniteSet(CloseAll(s, leaving, bar, reason, at).open)
         /\ BooksOf(CloseAll(s, leaving, bar, reason, at), last)
         /\ AllLeave(s, CloseAll(s, leaving, bar, reason, at), leaving, reason, at)
<1> DEFINE exits == [p \in leaving |-> [base |-> BarPrice(bar), reason |-> reason]]
<1>1. /\ DOMAIN exits = leaving
      /\ \A p \in DOMAIN exits : exits[p].reason = reason /\ exits[p].base = BarPrice(bar)
  OBVIOUS
<1>2. CloseAll(s, leaving, bar, reason, at) = CloseEach(s, exits, at)
  BY DEF CloseAll
<1>3. BarPrice(bar) \in Int
  <2>1. bar \in Candles
    BY BacktestConstants
  <2>. QED
    BY <2>1 DEF BarPrice, Candles
<1> HIDE DEF exits
<1>4. Due(s, exits)
  BY <1>1, <1>3 DEF Due, Reasons
<1>5. /\ CloseEach(s, exits, at) \in States
      /\ IsFiniteSet(CloseEach(s, exits, at).open)
      /\ BooksOf(CloseEach(s, exits, at), last)
      /\ Passed(s, CloseEach(s, exits, at), exits, at, at)
  BY <1>4, CloseEachPasses
<1>. QED
  BY <1>1, <1>2, <1>5 DEF AllLeave

(* What the books say of a trade stays true when another bar comes.           *)
LEMMA BarsGrow ==
  ASSUME NEW b \in Seq(Bars), NEW bar \in Bars
  PROVE  /\ \A p \in Holdings : Untouched(p, b, Len(b)) =>
              Untouched(p, Append(b, bar), Len(b))
         /\ \A t \in Exits, pol \in Policies : LeftInTime(t, b, Len(b), pol) =>
              LeftInTime(t, Append(b, bar), Len(b) + 1, pol)
<1> DEFINE d == Append(b, bar)
<1>1. Len(b) \in Nat /\ \A i \in 1 .. Len(b) : d[i] = b[i]
  OBVIOUS
<1> HIDE DEF d
<1>2. \A p \in Holdings : p.id \in Nat \ {0}
  BY DEF Holdings
<1>3. ASSUME NEW p \in Holdings, NEW n \in Nat, n <= Len(b), Untouched(p, b, n)
      PROVE  Untouched(p, d, n)
  BY <1>1, <1>2, <1>3 DEF Untouched
<1>4. ASSUME NEW t \in Exits, NEW pol \in Policies, LeftInTime(t, b, Len(b), pol)
      PROVE  LeftInTime(t, d, Len(b) + 1, pol)
  <2>1. /\ t.position \in Holdings /\ t.position.id \in Nat \ {0}
        /\ t.at \in t.position.id .. Len(b)
    BY <1>2, <1>4 DEF Exits, LeftInTime
  <2>2. d[t.at] = b[t.at]
    BY <1>1, <2>1
  <2>3. Untouched(t.position, d, t.at - 1)
    BY <1>1, <1>3, <1>4, <2>1 DEF LeftInTime
  <2>4. t.at \in t.position.id .. Len(b) + 1
    BY <1>1, <2>1
  <2>. QED
    BY <1>4, <2>2, <2>3, <2>4 DEF LeftInTime
<1>. QED
  BY <1>1, <1>3, <1>4 DEF d

(* The lifecycle of a bar: a position that is touched leaves, at a level.     *)
LEMMA LifecycleTouches ==
  ASSUME NEW s \in States, IsFiniteSet(s.open), NEW b \in Seq(Bars), BooksOf(s, Len(b)),
         NEW bar \in Bars, NEW pol \in Policies, ~s.raised,
         \A p \in s.open : Untouched(p, b, Len(b)),
         \A k \in DOMAIN s.trades : LeftInTime(s.trades[k], b, Len(b), pol),
         NEW c, c = ApplyLifecycle(s, bar, pol, Len(b) + 1)
  PROVE  /\ \A k \in DOMAIN c.trades :
              LeftInTime(c.trades[k], Append(b, bar), Len(b) + 1, pol)
         /\ ~c.raised => \A p \in c.open : Untouched(p, Append(b, bar), Len(b) + 1)
<1> DEFINE at == Len(b) + 1
           d == Append(b, bar)
<1>1. Len(b) \in Nat /\ at \in Nat /\ d[at] = bar
  OBVIOUS
<1>2. /\ c \in States
      /\ \E exits : /\ DOMAIN exits = Touched(s, bar)
                    /\ \A p \in DOMAIN exits : exits[p].reason = ExitReason(p, bar, pol)
                    /\ Passed(s, c, exits, at, at)
  BY <1>1, LifecyclePasses
<1>3. PICK exits : /\ DOMAIN exits = Touched(s, bar)
                   /\ \A p \in DOMAIN exits : exits[p].reason = ExitReason(p, bar, pol)
                   /\ Passed(s, c, exits, at, at)
  BY <1>2
<1>4. /\ s.open \subseteq Holdings /\ s.trades \in Seq(Exits) /\ c.trades \in Seq(Exits)
      /\ \A p \in Holdings : p.id \in Nat \ {0}
      /\ \A p \in s.open : p.id <= Len(b)
  BY <1>2 DEF States, Holdings, BooksOf
<1>5. \A p \in s.open : Untouched(p, d, Len(b))
  BY <1>4, BarsGrow
<1>6. \A p \in s.open : p \in Touched(s, bar) <=> HitOn(p, d[at])
  BY <1>1 DEF Touched, HitOn
<1>7. ASSUME NEW k \in DOMAIN c.trades PROVE LeftInTime(c.trades[k], d, at, pol)
  <2>1. CASE \E j \in DOMAIN s.trades : c.trades[k] = s.trades[j]
    <3>1. PICK j \in DOMAIN s.trades : c.trades[k] = s.trades[j]
      BY <2>1
    <3>2. s.trades[j] \in Exits
      BY <1>4
    <3>. QED
      BY <3>1, <3>2, BarsGrow
  <2>2. CASE /\ c.trades[k].position \in DOMAIN exits
             /\ c.trades[k].at = at
             /\ c.trades[k].reason = exits[c.trades[k].position].reason
    <3> DEFINE t == c.trades[k]
               p == t.position
    <3>1. p \in s.open /\ p \in Touched(s, bar) /\ p.id \in 1 .. Len(b)
      BY <1>3, <1>4, <2>2 DEF Touched
    <3>2. t.at = at /\ t.reason = ExitReason(p, bar, pol)
      BY <1>3, <2>2
    <3>3. HitOn(p, d[at]) /\ Untouched(p, d, at - 1)
      BY <1>1, <1>5, <1>6, <3>1
    <3>4. t.reason \in {"stop_loss", "take_profit"}
      BY <3>2 DEF ExitReason
    <3>5. t.reason = "take_profit" => (pol = "stop_loss_first" => ~StopHit(p, bar))
      BY <3>2 DEF ExitReason
    <3> HIDE DEF t, d
    <3>6. t.at \in p.id .. at /\ t.at > p.id
      BY <1>1, <3>1, <3>2
    <3>7. LeftInTime(t, d, at, pol)
      BY <1>1, <3>2, <3>3, <3>4, <3>5, <3>6 DEF LeftInTime
    <3>. QED
      BY <3>7 DEF t
  <2>. QED
    BY <1>3, <2>1, <2>2 DEF Passed
<1>8. ASSUME ~c.raised, NEW p \in c.open PROVE Untouched(p, d, at)
  <2>1. p \in s.open /\ (p \notin DOMAIN exits \/ p.id > at)
    BY <1>3, <1>8 DEF Passed
  <2>2. p \notin Touched(s, bar) /\ p.id \in Nat
    BY <1>1, <1>3, <1>4, <2>1
  <2>3. ~HitOn(p, d[at]) /\ Untouched(p, d, Len(b))
    BY <1>5, <1>6, <2>1, <2>2
  <2> HIDE DEF d
  <2>. QED
    BY <1>1, <2>2, <2>3 DEF Untouched
<1>. QED
  BY <1>7, <1>8

(* Closing for a signal or at the end: none that leaves had been touched.     *)
LEMMA CloseAllTouches ==
  ASSUME NEW s \in States, IsFiniteSet(s.open), NEW b \in Seq(Bars), NEW last \in Nat,
         BooksOf(s, last), last <= Len(b), NEW bar \in Bars, NEW pol \in Policies,
         NEW leaving \in SUBSET s.open, NEW reason \in {"signal_exit", "end_of_data"},
         \A p \in s.open : Untouched(p, b, Len(b)),
         \A k \in DOMAIN s.trades : LeftInTime(s.trades[k], b, Len(b), pol),
         NEW c, c = CloseAll(s, leaving, bar, reason, Len(b))
  PROVE  /\ \A k \in DOMAIN c.trades : LeftInTime(c.trades[k], b, Len(b), pol)
         /\ \A p \in c.open : Untouched(p, b, Len(b))
<1> DEFINE at == Len(b)
<1>1. at \in Nat
  OBVIOUS
<1>0. c = CloseAll(s, leaving, bar, reason, at)
  OBVIOUS
<1> HIDE DEF at
<1>2. PICK exits : /\ DOMAIN exits = leaving
                   /\ \A p \in DOMAIN exits : exits[p].reason = reason
                   /\ Passed(s, c, exits, at, at)
  <2>1. reason \in Reasons
    BY DEF Reasons
  <2>2. AllLeave(s, CloseAll(s, leaving, bar, reason, at), leaving, reason, at)
    BY <1>1, <2>1, CloseAllPasses
  <2>. QED
    BY <1>0, <2>2 DEF AllLeave
<1>3. /\ s.open \subseteq Holdings
      /\ \A p \in Holdings : p.id \in Nat \ {0}
      /\ \A p \in s.open : p.id <= at
  BY <1>1 DEF States, Holdings, BooksOf, at
<1>4. ASSUME NEW k \in DOMAIN c.trades PROVE LeftInTime(c.trades[k], b, at, pol)
  <2>1. CASE \E j \in DOMAIN s.trades : c.trades[k] = s.trades[j]
    BY <2>1 DEF at
  <2>2. CASE /\ c.trades[k].position \in DOMAIN exits
             /\ c.trades[k].at = at
             /\ c.trades[k].reason = exits[c.trades[k].position].reason
    <3> DEFINE t == c.trades[k]
               p == t.position
    <3>1. p \in s.open /\ t.at = at /\ t.reason = reason
      BY <1>2, <2>2
    <3> HIDE DEF t
    <3>2. p.id \in Nat \ {0} /\ p.id <= at /\ Untouched(p, b, at)
      BY <1>3, <3>1 DEF at
    <3>3. t.at \in p.id .. at /\ Untouched(p, b, t.at - 1)
      BY <1>1, <3>1, <3>2 DEF Untouched
    <3>4. t.at > p.id => ~HitOn(p, b[t.at])
      BY <1>1, <3>1, <3>2 DEF Untouched
    <3>5. t.reason \notin {"stop_loss", "take_profit"}
      BY <3>1
    <3>6. LeftInTime(t, b, at, pol)
      BY <3>3, <3>4, <3>5 DEF LeftInTime
    <3>. QED
      BY <3>6 DEF t
  <2>. QED
    BY <1>2, <2>1, <2>2 DEF Passed
<1>. QED
  BY <1>2, <1>4 DEF Passed, at

-----------------------------------------------------------------------------
(* An entry, filled or refused.                                            *)

LEMMA FilledAppend ==
  ASSUME NEW tickets \in Seq(Tickets), NEW ticket \in Tickets
  PROVE  /\ ticket.status = "filled" =>
              FilledOf(Append(tickets, ticket)) = FilledOf(tickets) \cup {Len(tickets) + 1}
         /\ ticket.status # "filled" =>
              FilledOf(Append(tickets, ticket)) = FilledOf(tickets)
         /\ \A i \in FilledOf(tickets) : Append(tickets, ticket)[i] = tickets[i]
         /\ Append(tickets, ticket)[Len(tickets) + 1] = ticket
         /\ IsFiniteSet(FilledOf(tickets)) /\ Len(tickets) + 1 \notin FilledOf(tickets)
<1> DEFINE n == Len(tickets) + 1
           more == Append(tickets, ticket)
<1>1. /\ DOMAIN tickets = 1 .. Len(tickets) /\ DOMAIN more = (1 .. Len(tickets)) \cup {n}
      /\ \A i \in 1 .. Len(tickets) : more[i] = tickets[i]
      /\ more[n] = ticket /\ n \notin 1 .. Len(tickets)
  OBVIOUS
<1>2. IsFiniteSet(1 .. Len(tickets))
  BY FS_Interval
<1>3. FilledOf(tickets) \subseteq 1 .. Len(tickets)
  BY <1>1 DEF FilledOf
<1>4. IsFiniteSet(FilledOf(tickets)) /\ n \notin FilledOf(tickets)
  BY <1>1, <1>2, <1>3, FS_Subset
<1> HIDE DEF more, n
<1>5. /\ ticket.status = "filled" => FilledOf(more) = FilledOf(tickets) \cup {n}
      /\ ticket.status # "filled" => FilledOf(more) = FilledOf(tickets)
  BY <1>1 DEF FilledOf
<1>. QED
  BY <1>1, <1>3, <1>4, <1>5 DEF more, n

LEMMA RefuseFits ==
  ASSUME NEW s \in States, NEW last \in Nat, BooksOf(s, last),
         NEW signal \in Signals, NEW at \in Nat, last <= at, NEW c, c = Refuse(s, signal, at)
  PROVE  /\ c \in States /\ BooksOf(c, at)
         /\ c.open = s.open /\ c.trades = s.trades /\ c.raised = s.raised
<1> DEFINE ticket == Order(signal, "rejected", at)
<1>1. ticket \in Tickets /\ ticket.status = "rejected"
  <2>1. signal \in Entries
    BY BacktestConstants
  <2>. QED
    BY <2>1 DEF Order, Tickets, Entries
<1>2. s.orders \in Seq(Tickets)
  BY DEF States
<1>3. /\ c.orders = Append(s.orders, ticket) /\ c.balance = s.balance
      /\ c.open = s.open /\ c.trades = s.trades /\ c.raised = s.raised
      /\ c = [s EXCEPT !.orders = Append(s.orders, ticket)]
  BY DEF Refuse, States
<1> HIDE DEF ticket
<1>4. c \in States
  <2>1. Append(s.orders, ticket) \in Seq(Tickets)
    BY <1>1, <1>2
  <2>. QED
    BY <1>3, <2>1 DEF States
<1>5. /\ FilledOf(c.orders) = FilledOf(s.orders)
      /\ \A i \in FilledOf(s.orders) : c.orders[i] = s.orders[i]
  <2> DEFINE more == Append(s.orders, ticket)
  <2>1. /\ FilledOf(more) = FilledOf(s.orders)
        /\ \A i \in FilledOf(s.orders) : more[i] = s.orders[i]
    BY <1>1, <1>2, FilledAppend
  <2> HIDE DEF more
  <2>2. c.orders = more
    BY <1>3 DEF more
  <2>. QED
    BY <2>1, <2>2
<1>6. {c.orders[i].id : i \in FilledOf(c.orders)} = {s.orders[i].id : i \in FilledOf(s.orders)}
  BY <1>5
<1>7. \A p \in s.open : p.id \in 1 .. at
  BY DEF BooksOf
<1>. QED
  BY <1>3, <1>4, <1>5, <1>6, <1>7 DEF BooksOf

LEMMA EnterFits ==
  ASSUME NEW s \in States, IsFiniteSet(s.open), NEW at \in Nat \ {0}, BooksOf(s, at - 1),
         NEW signal \in Signals, NEW bar \in Bars, NEW quantity \in Nat,
         ~Refused(s, signal), NEW c, c = Enter(s, signal, bar, quantity, at)
  PROVE  /\ c \in States /\ IsFiniteSet(c.open) /\ BooksOf(c, at)
         /\ c.trades = s.trades /\ c.raised = s.raised
         /\ \A p \in c.open : p \in s.open \/ p.id = at
<1> DEFINE ticket == Order(signal, "filled", at)
           p == [id |-> at, symbol |-> signal.symbol, side |-> signal.side,
                 entry |-> EntryPrice(signal, bar), quantity |-> quantity,
                 stop |-> signal.stop, target |-> signal.target]
           n == Len(s.orders) + 1
<1>1. ticket \in Tickets /\ ticket.status = "filled" /\ ticket.id = at
      /\ p \in Holdings /\ p.id = at
  <2>1. signal \in Entries /\ bar \in Candles
    BY BacktestConstants
  <2>2. BarPrice(bar) \in Int
    BY <2>1 DEF BarPrice, Candles
  <2>3. EntryPrice(signal, bar) \in Int
    <3> DEFINE price == BarPrice(bar)
    <3> HIDE DEF price
    <3>1. MarketPrice(signal.side, price, TRUE) \in Int
      BY <2>2, BacktestConstants DEF MarketPrice, price
    <3>. QED
      BY <3>1 DEF EntryPrice, price
  <2>. QED
    BY <2>1, <2>3 DEF Order, Tickets, Entries, Holdings
<1>2. /\ s.orders \in Seq(Tickets) /\ s.open \subseteq Holdings /\ s.balance \in Nat
      /\ s.trades \in Seq(Exits) /\ s.raised \in BOOLEAN
  BY DEF States
<1>3. c = [balance |-> s.balance, open |-> s.open \cup {p},
           orders |-> Append(s.orders, ticket), trades |-> s.trades, raised |-> s.raised]
  BY DEF Enter
<1> HIDE DEF ticket, p
<1>4. /\ c.orders = Append(s.orders, ticket) /\ c.balance = s.balance
      /\ c.open = s.open \cup {p} /\ c.trades = s.trades /\ c.raised = s.raised
  BY <1>3
<1>5. c \in States
  <2>1. Append(s.orders, ticket) \in Seq(Tickets)
    BY <1>1, <1>2
  <2>. QED
    BY <1>1, <1>2, <1>3, <2>1 DEF States
<1>6. /\ FilledOf(c.orders) = FilledOf(s.orders) \cup {n}
      /\ \A i \in FilledOf(s.orders) : c.orders[i] = s.orders[i]
      /\ c.orders[n] = ticket
      /\ IsFiniteSet(FilledOf(s.orders)) /\ n \notin FilledOf(s.orders)
  <2> DEFINE more == Append(s.orders, ticket)
  <2>1. /\ FilledOf(more) = FilledOf(s.orders) \cup {n}
        /\ \A i \in FilledOf(s.orders) : more[i] = s.orders[i]
        /\ more[n] = ticket
        /\ IsFiniteSet(FilledOf(s.orders)) /\ n \notin FilledOf(s.orders)
    <3>1. s.orders \in Seq(Tickets) /\ ticket \in Tickets /\ ticket.status = "filled"
      BY <1>1, <1>2
    <3>. QED
      BY <3>1, FilledAppend
  <2> HIDE DEF more
  <2>2. c.orders = more
    BY <1>4 DEF more
  <2>. QED
    BY <2>1, <2>2
<1> HIDE DEF n
<1>7. {c.orders[i].id : i \in FilledOf(c.orders)}
        = {s.orders[i].id : i \in FilledOf(s.orders)} \cup {at}
  BY <1>1, <1>6
<1>8. {q.id : q \in c.open} = {q.id : q \in s.open} \cup {at}
  BY <1>1, <1>4
<1>9. \A q \in s.open : q.id \in 1 .. at - 1
  BY DEF BooksOf
<1>10. p \notin s.open
  BY <1>1, <1>9
<1>11. /\ IsFiniteSet(c.open) /\ Cardinality(c.open) = Cardinality(s.open) + 1
       /\ Cardinality(s.open) \in Nat
  <2>1. /\ IsFiniteSet(s.open \cup {p}) /\ Cardinality(s.open) \in Nat
        /\ Cardinality(s.open \cup {p}) = Cardinality(s.open) + 1
    BY <1>10, FS_AddElement, FS_CardinalityType
  <2>. QED
    BY <1>4, <2>1
<1>12. /\ Cardinality(FilledOf(c.orders)) = Cardinality(FilledOf(s.orders)) + 1
       /\ Cardinality(FilledOf(s.orders)) \in Nat
  BY <1>6, FS_AddElement, FS_CardinalityType
<1>13. Cardinality(c.open) <= MaxOpenPositions
  <2>1. ~ (Cardinality(s.open) >= MaxOpenPositions)
    BY DEF Refused
  <2>. QED
    BY <1>11, <2>1, BacktestConstants
<1>14. Cardinality(c.open) + Len(c.trades) = Cardinality(FilledOf(c.orders))
  <2>1. Len(s.trades) \in Nat
    BY <1>2
  <2>2. Cardinality(s.open) + Len(s.trades) = Cardinality(FilledOf(s.orders))
    BY DEF BooksOf
  <2>3. Len(c.trades) = Len(s.trades)
    BY <1>4
  <2>. QED
    BY <1>11, <1>12, <2>1, <2>2, <2>3
<1>15. /\ \A q \in c.open : q.id \in 1 .. at
       /\ \A q \in c.open : \A r \in c.open : q.id = r.id => q = r
  <2>1. \A q \in s.open : \A r \in s.open : q.id = r.id => q = r
    BY DEF BooksOf
  <2>. QED
    BY <1>1, <1>4, <1>9, <2>1
<1>16. {c.orders[i].id : i \in FilledOf(c.orders)}
         = {q.id : q \in c.open} \cup ClosedIds(c.trades)
  <2>1. {s.orders[i].id : i \in FilledOf(s.orders)}
          = {q.id : q \in s.open} \cup ClosedIds(s.trades)
    BY DEF BooksOf
  <2>. QED
    BY <1>4, <1>7, <1>8, <2>1
<1>17. BooksOf(c, at)
  BY <1>4, <1>13, <1>14, <1>15, <1>16 DEF BooksOf
<1>. QED
  BY <1>1, <1>4, <1>5, <1>11, <1>17

-----------------------------------------------------------------------------
(* The points of the curve.                                                *)

LEMMA EquityType ==
  ASSUME RunFits, Now > 0, NEW s \in States, IsFiniteSet(s.open)
  PROVE  /\ Equity(s) \in Int
         /\ s.open = {} => Equity(s) = s.balance
<1> DEFINE close == Bar.close
           f == [p \in s.open |-> GrossPnl(p, close)]
<1>1. close \in Int
  <2>1. Bar \in Bars
    BY DEF RunFits, Now, Bar
  <2>2. Bar \in Candles
    BY <2>1, BacktestConstants
  <2>. QED
    BY <2>2 DEF Candles
<1> HIDE DEF close
<1>2. \A p \in s.open : GrossPnl(p, close) \in Int
  BY <1>1, GrossType DEF States
<1>3. \A p \in s.open : f[p] \in Int
  BY <1>2
<1>4. Equity(s) = s.balance + SumFunctionOnSet(f, s.open)
  BY DEF Equity, close
<1> HIDE DEF f
<1>5. SumFunctionOnSet(f, s.open) \in Int
  BY <1>3, SumType
<1>6. s.open = {} => SumFunctionOnSet(f, s.open) = 0
  <2>1. SumFunctionOnSet(f, {}) = 0
    BY SumEmpty
  <2>. QED
    BY <2>1, Zenon
<1>7. s.balance \in Nat
  BY DEF States
<1>. QED
  BY <1>4, <1>5, <1>6, <1>7

LEMMA PointFits ==
  ASSUME RunFits, Now > 0, NEW s \in States, IsFiniteSet(s.open), Equity(s) >= 0
  PROVE  /\ PointOf(s) \in Points
         /\ PointOf(s).from = peak /\ PointOf(s).equity = Equity(s)
         /\ PointOf(s).balance = s.balance
         /\ PointOf(s).fall = IF Equity(s) >= peak THEN 0 ELSE peak - Equity(s)
<1>1. Equity(s) \in Nat /\ peak \in Nat /\ s.balance \in Nat /\ Now \in Nat
  <2>1. Equity(s) \in Int
    BY EquityType
  <2>. QED
    BY <2>1 DEF RunFits, States, Now
<1> DEFINE e == Equity(s)
<1>2. PointOf(s) = [at |-> Now, balance |-> s.balance, equity |-> e,
                    fall |-> IF e >= peak THEN 0 ELSE peak - e, from |-> peak]
  BY DEF PointOf
<1>3. (IF e >= peak THEN 0 ELSE peak - e) \in Nat
  BY <1>1
<1> HIDE DEF e
<1>4. PointOf(s) \in Points
  BY <1>1, <1>2, <1>3 DEF Points, e
<1>. QED
  BY <1>2, <1>4 DEF e

(* A point appended keeps what the curve says of the points before it.        *)
LEMMA CurveGrows ==
  ASSUME NEW c \in Seq(Points), CurveFits(c), NEW top \in Nat, IsTop(top, c, Len(c)),
         NEW point \in Points, point.from = top,
         point.fall = IF point.equity >= top THEN 0 ELSE top - point.equity
  PROVE  /\ CurveFits(Append(c, point))
         /\ IsTop(IF point.equity > top THEN point.equity ELSE top,
                  Append(c, point), Len(c) + 1)
<1> DEFINE d == Append(c, point)
           n == Len(c) + 1
           more == IF point.equity > top THEN point.equity ELSE top
<1>1. /\ n \in Nat /\ Len(d) = n /\ n - 1 = Len(c) /\ Len(c) \in Nat
      /\ \A i \in 1 .. n - 1 : d[i] = c[i]
      /\ d[n] = point /\ point.equity \in Nat
  BY DEF Points
<1> HIDE DEF d, n
<1>2. /\ \A i \in 0 .. n - 1 : EquityOf(d, i) = EquityOf(c, i)
      /\ EquityOf(d, n) = point.equity
  BY <1>1 DEF EquityOf
<1>3. ASSUME NEW k \in 0 .. n - 1, NEW x
      PROVE  IsTop(x, c, k) <=> IsTop(x, d, k)
  BY <1>1, <1>2 DEF IsTop
<1>4. CurveFits(d)
  <2> SUFFICES ASSUME NEW i \in 1 .. n
               PROVE  /\ IsTop(d[i].from, d, i - 1)
                      /\ d[i].fall = IF d[i].equity >= d[i].from THEN 0
                                     ELSE d[i].from - d[i].equity
    BY <1>1 DEF CurveFits
  <2>1. CASE i = n
    <3>1. IsTop(top, c, n - 1)
      BY <1>1
    <3>2. IsTop(top, d, n - 1)
      BY <1>1, <1>3, <3>1
    <3>. QED
      BY <1>1, <2>1, <3>2
  <2>2. CASE i # n
    <3>1. i \in 1 .. Len(c) /\ d[i] = c[i] /\ i - 1 \in 0 .. n - 1
      BY <1>1, <2>2
    <3>2. IsTop(c[i].from, c, i - 1)
      BY <3>1 DEF CurveFits
    <3>3. IsTop(c[i].from, d, i - 1)
      BY <1>3, <3>1, <3>2
    <3>. QED
      BY <3>1, <3>3 DEF CurveFits
  <2>. QED
    BY <2>1, <2>2
<1>5. IsTop(more, d, n)
  <2>1. /\ \E i \in 0 .. n - 1 : top = EquityOf(d, i)
        /\ \A i \in 0 .. n - 1 : EquityOf(d, i) <= top
    <3>1. IsTop(top, c, n - 1)
      BY <1>1
    <3>2. IsTop(top, d, n - 1)
      BY <1>1, <1>3, <3>1
    <3>. QED
      BY <3>2 DEF IsTop
  <2>2. \A i \in 0 .. n - 1 : EquityOf(d, i) \in Nat
    <3>1. \A i \in 1 .. Len(c) : c[i].equity \in Nat
      <4>1. \A i \in 1 .. Len(c) : c[i] \in Points
        BY ElementOfSeq
      <4>. QED
        BY <4>1 DEF Points
    <3>. QED
      BY <1>1, <1>2, <3>1, BacktestConstants DEF EquityOf
  <2>3. \A i \in 0 .. n : EquityOf(d, i) <= more
    <3> SUFFICES ASSUME NEW i \in 0 .. n PROVE EquityOf(d, i) <= more
      OBVIOUS
    <3>1. CASE i = n
      BY <1>1, <1>2, <3>1
    <3>2. CASE i # n
      <4>1. i \in 0 .. n - 1
        BY <1>1, <3>2
      <4>2. EquityOf(d, i) <= top /\ EquityOf(d, i) \in Nat
        BY <2>1, <2>2, <4>1
      <4>. QED
        BY <1>1, <4>2
    <3>. QED
      BY <3>1, <3>2
  <2>4. \E i \in 0 .. n : more = EquityOf(d, i)
    <3>1. CASE point.equity > top
      BY <1>1, <1>2, <3>1
    <3>2. CASE ~(point.equity > top)
      <4>1. PICK i \in 0 .. n - 1 : top = EquityOf(d, i)
        BY <2>1
      <4>2. i \in 0 .. n /\ more = top
        BY <1>1, <3>2
      <4>. QED
        BY <4>1, <4>2
    <3>. QED
      BY <3>1, <3>2
  <2>. QED
    BY <2>3, <2>4 DEF IsTop
<1>. QED
  BY <1>4, <1>5 DEF d, n

-----------------------------------------------------------------------------
(* The steps of the run.                                                   *)

LEMMA BooksLater ==
  ASSUME NEW s, NEW last \in Nat, BooksOf(s, last), NEW later \in Nat, last <= later
  PROVE  BooksOf(s, later)
<1>1. \A p \in s.open : p.id \in 1 .. later
  BY DEF BooksOf
<1>. QED
  BY <1>1 DEF BooksOf

LEMMA InitBacktest == BacktestInit => BacktestInv
<1> SUFFICES ASSUME BacktestInit PROVE BacktestInv
  OBVIOUS
<1>1. /\ state.balance = InitialBalance /\ state.open = {} /\ state.orders = <<>>
      /\ state.trades = <<>> /\ state.raised = FALSE /\ state = InitialState
      /\ bars = <<>> /\ curve = <<>> /\ peak = InitialBalance /\ phase = "bar"
      /\ policy \in Policies
  BY DEF BacktestInit, InitialState
<1>2. IsFiniteSet({}) /\ Cardinality({}) = 0
  BY FS_EmptySet
<1>3. RunFits
  <2>1. state \in States
    BY <1>1, BacktestConstants DEF InitialState, States
  <2>. QED
    BY <1>1, <1>2, <2>1, BacktestConstants DEF RunFits
<1>4. BooksInv
  <2> DEFINE nets == NetsOf(state.trades)
  <2>1. DOMAIN nets = {}
    BY <1>1 DEF NetsOf
  <2>2. SumFunctionOnSet(nets, DOMAIN nets) = 0
    <3> HIDE DEF nets
    <3>1. SumFunctionOnSet(nets, {}) = 0
      BY SumEmpty
    <3>. QED
      BY <2>1, <3>1, Zenon
  <2> HIDE DEF nets
  <2>3. state.balance = InitialBalance + SumFunctionOnSet(nets, DOMAIN nets)
    BY <1>1, <2>2, BacktestConstants
  <2>4. FilledOf(state.orders) = {} /\ ClosedIds(state.trades) = {}
    BY <1>1 DEF FilledOf, ClosedIds
  <2>5. {state.orders[i].id : i \in FilledOf(state.orders)} = {}
    BY <2>4
  <2>6. Cardinality(FilledOf(state.orders)) = 0 /\ Cardinality(state.open) = 0
    BY <1>1, <1>2, <2>4
  <2>7. Len(state.trades) = 0
    BY <1>1
  <2>8. BooksOf(state, LastEntry)
    BY <1>1, <2>3, <2>4, <2>5, <2>6, <2>7, BacktestConstants DEF BooksOf, nets
  <2>. QED
    BY <1>1, <2>8 DEF BooksInv
<1>5. TouchInv
  BY <1>1 DEF TouchInv
<1>6. CurveInv
  <2>1. CurveFits(curve) /\ EndsOn(curve, state.balance)
    BY <1>1 DEF CurveFits, EndsOn
  <2>2. IsTop(peak, curve, Len(curve))
    BY <1>1, BacktestConstants DEF IsTop, EquityOf
  <2>. QED
    BY <2>1, <2>2 DEF CurveInv
<1>. QED
  BY <1>3, <1>4, <1>5, <1>6 DEF BacktestInv

LEMMA NextBarKeeps ==
  ASSUME BacktestInv, NEW bar \in Bars, NextBar(bar)
  PROVE  BacktestInv'
<1> DEFINE n == Len(bars)
<1>1. /\ policy \in Policies /\ state \in States /\ IsFiniteSet(state.open)
      /\ bars \in Seq(Bars) /\ curve \in Seq(Points) /\ peak \in Nat
      /\ phase = "bar" /\ ~state.raised
  BY DEF BacktestInv, RunFits, NextBar
<1>2. PICK c : c = state'
  OBVIOUS
<1>3. /\ c = ApplyLifecycle(state, bar, policy, n + 1) /\ bars' = Append(bars, bar)
      /\ phase' = (IF c.raised THEN "failed" ELSE "signal")
      /\ UNCHANGED <<policy, curve, peak>>
  BY <1>2 DEF NextBar, Continue, Now
<1>4. n \in Nat /\ Len(bars') = n + 1 /\ bars' \in Seq(Bars)
  BY <1>1, <1>3
<1>5. BooksOf(state, n)
  BY <1>1 DEF BacktestInv, BooksInv, LastEntry, Now
<1>6. c \in States /\ IsFiniteSet(c.open) /\ BooksOf(c, n)
  <2>1. n + 1 \in Nat
    BY <1>4
  <2> DEFINE at == n + 1
  <2> HIDE DEF n, at
  <2>2. /\ ApplyLifecycle(state, bar, policy, at) \in States
        /\ IsFiniteSet(ApplyLifecycle(state, bar, policy, at).open)
        /\ BooksOf(ApplyLifecycle(state, bar, policy, at), n)
    BY <1>1, <1>4, <1>5, <2>1, LifecyclePasses DEF at
  <2>. QED
    BY <1>3, <2>2 DEF at
<1>7. /\ \A k \in DOMAIN c.trades : LeftInTime(c.trades[k], bars', n + 1, policy)
      /\ ~c.raised => \A p \in c.open : Untouched(p, bars', n + 1)
  <2>1. /\ \A p \in state.open : Untouched(p, bars, n)
        /\ \A k \in DOMAIN state.trades : LeftInTime(state.trades[k], bars, n, policy)
    BY <1>1 DEF BacktestInv, TouchInv, Now
  <2>2. /\ \A k \in DOMAIN c.trades :
             LeftInTime(c.trades[k], Append(bars, bar), n + 1, policy)
        /\ ~c.raised => \A p \in c.open : Untouched(p, Append(bars, bar), n + 1)
    BY <1>1, <1>3, <1>5, <2>1, LifecycleTouches
  <2>. QED
    BY <1>3, <2>2
<1>8. BooksOf(c, n + 1)
  BY <1>4, <1>6, BooksLater
<1>9. c.raised \in BOOLEAN
  BY <1>6 DEF States
<1> HIDE DEF n
<1>10. RunFits'
  BY <1>1, <1>2, <1>3, <1>4, <1>6, <1>9 DEF RunFits
<1>11. BooksInv'
  <2>1. BooksOf(c, LastEntry')
    BY <1>3, <1>4, <1>6, <1>8 DEF LastEntry, Now
  <2>. QED
    BY <1>2, <1>3, <1>4, <2>1 DEF BooksInv, Now
<1>12. TouchInv'
  <2>1. Now' = n + 1
    BY <1>4 DEF Now
  <2>. QED
    BY <1>2, <1>3, <1>7, <2>1 DEF TouchInv
<1>13. CurveInv'
  BY <1>1, <1>3 DEF BacktestInv, CurveInv
<1>. QED
  BY <1>10, <1>11, <1>12, <1>13 DEF BacktestInv

(* Between two bars the entry may have been made on the bar at hand.          *)
LEMMA BooksNow ==
  ASSUME RunFits, BooksInv
  PROVE  Now \in Nat /\ BooksOf(state, Now)
<1>1. Now \in Nat
  BY DEF RunFits, Now
<1>2. LastEntry \in Nat /\ LastEntry <= Now
  BY <1>1 DEF BooksInv, LastEntry
<1>. QED
  BY <1>1, <1>2, BooksLater DEF BooksInv

LEMMA HoldKeeps ==
  ASSUME BacktestInv, Hold \/ \E signal \in Signals : EntryRaises(signal)
  PROVE  BacktestInv'
<1>1. /\ phase = "signal" /\ phase' \in {"point", "failed"}
      /\ UNCHANGED <<policy, state, bars, curve, peak>>
  BY DEF Hold, EntryRaises
<1>2. RunFits /\ BooksInv /\ TouchInv /\ CurveInv
  BY DEF BacktestInv
<1>3. RunFits'
  BY <1>1, <1>2 DEF RunFits
<1>4. BooksInv'
  <2>1. Now \in Nat /\ BooksOf(state, Now) /\ Now > 0
    BY <1>1, <1>2, BooksNow DEF BooksInv
  <2>2. Now' = Now /\ LastEntry' = Now
    BY <1>1 DEF LastEntry, Now
  <2>. QED
    BY <1>1, <2>1, <2>2 DEF BooksInv
<1>5. TouchInv'
  BY <1>1, <1>2 DEF TouchInv, Now
<1>6. CurveInv'
  BY <1>1, <1>2 DEF CurveInv
<1>. QED
  BY <1>3, <1>4, <1>5, <1>6 DEF BacktestInv

(* What closing on the bar at hand leaves, for a signal or at the end.        *)
ClosedWell(c, leaving) ==
  /\ c \in States /\ IsFiniteSet(c.open) /\ BooksOf(c, Now) /\ c.raised \in BOOLEAN
  /\ \A p \in c.open : Untouched(p, bars, Now)
  /\ \A k \in DOMAIN c.trades : LeftInTime(c.trades[k], bars, Now, policy)
  /\ ~c.raised => c.open \cap leaving = {}
  /\ c.open \subseteq state.open

LEMMA CloseAllFits ==
  ASSUME RunFits, BooksInv, TouchInv, phase # "failed", Now > 0,
         NEW leaving, leaving \subseteq state.open,
         NEW reason, reason \in {"signal_exit", "end_of_data"}
  PROVE  ClosedWell(CloseAll(state, leaving, Bar, reason, Now), leaving)
<1> DEFINE c == CloseAll(state, leaving, Bar, reason, Now)
<1>1. /\ policy \in Policies /\ state \in States /\ IsFiniteSet(state.open)
      /\ bars \in Seq(Bars) /\ Now = Len(bars) /\ Now \in Nat /\ Bar \in Bars
  BY DEF RunFits, Now, Bar
<1>2. BooksOf(state, Now)
  BY BooksNow
<1>3. reason \in Reasons
  BY DEF Reasons
<1>4. /\ CloseAll(state, leaving, Bar, reason, Now) \in States
      /\ IsFiniteSet(CloseAll(state, leaving, Bar, reason, Now).open)
      /\ BooksOf(CloseAll(state, leaving, Bar, reason, Now), Now)
      /\ AllLeave(state, CloseAll(state, leaving, Bar, reason, Now), leaving, reason, Now)
  BY <1>1, <1>2, <1>3, CloseAllPasses
<1>5. /\ c \in States /\ IsFiniteSet(c.open) /\ BooksOf(c, Now)
      /\ AllLeave(state, c, leaving, reason, Now)
  BY <1>4
<1> HIDE DEF c
<1>6. PICK exits : /\ DOMAIN exits = leaving
                   /\ Passed(state, c, exits, Now, Now)
  BY <1>5 DEF AllLeave
<1>7. c.open \subseteq state.open /\ \A p \in state.open : p.id <= Now /\ p.id \in Nat
  BY <1>1, <1>2, <1>6 DEF Passed, BooksOf
<1>8. ~c.raised => c.open \cap leaving = {}
  BY <1>1, <1>6, <1>7 DEF Passed
<1>9. /\ \A p \in state.open : Untouched(p, bars, Len(bars))
      /\ \A k \in DOMAIN state.trades :
           LeftInTime(state.trades[k], bars, Len(bars), policy)
  BY DEF TouchInv, Now
<1>10. /\ \A k \in DOMAIN c.trades : LeftInTime(c.trades[k], bars, Len(bars), policy)
       /\ \A p \in c.open : Untouched(p, bars, Len(bars))
  <2>1. leaving \in SUBSET state.open /\ Len(bars) \in Nat /\ BooksOf(state, Len(bars))
    BY <1>1, <1>2
  <2>2. c = CloseAll(state, leaving, Bar, reason, Len(bars))
    BY <1>1 DEF c
  <2>. QED
    BY <1>1, <1>9, <2>1, <2>2, CloseAllTouches
<1>. QED
  BY <1>1, <1>5, <1>7, <1>8, <1>10 DEF States, ClosedWell, c

LEMMA ExitKeeps ==
  ASSUME BacktestInv, NEW symbol, ExitSignal(symbol)
  PROVE  BacktestInv'
<1> DEFINE leaving == {p \in state.open : p.symbol = symbol}
<1>1. RunFits /\ BooksInv /\ TouchInv /\ CurveInv /\ phase = "signal" /\ Now > 0
  BY DEF BacktestInv, ExitSignal, BooksInv
<1>2. PICK c : c = state'
  OBVIOUS
<1>3. /\ c = CloseAll(state, leaving, Bar, "signal_exit", Now)
      /\ phase' = (IF c.raised THEN "failed" ELSE "point")
      /\ UNCHANGED <<policy, bars, curve, peak>>
  BY <1>2 DEF ExitSignal, Continue
<1>4. leaving \subseteq state.open
  OBVIOUS
<1> HIDE DEF leaving
<1>5. /\ c \in States /\ IsFiniteSet(c.open) /\ BooksOf(c, Now) /\ c.raised \in BOOLEAN
      /\ \A p \in c.open : Untouched(p, bars, Now)
      /\ \A k \in DOMAIN c.trades : LeftInTime(c.trades[k], bars, Now, policy)
  <2>1. ClosedWell(CloseAll(state, leaving, Bar, "signal_exit", Now), leaving)
    BY <1>1, <1>4, CloseAllFits
  <2>. QED
    BY <1>3, <2>1 DEF ClosedWell
<1>6. Now' = Now /\ LastEntry' = Now
  BY <1>3 DEF LastEntry, Now
<1>7. RunFits'
  BY <1>1, <1>2, <1>3, <1>5 DEF RunFits
<1>8. BooksInv'
  BY <1>1, <1>2, <1>3, <1>5, <1>6 DEF BooksInv
<1>9. TouchInv'
  BY <1>2, <1>3, <1>5, <1>6 DEF TouchInv
<1>10. CurveInv'
  BY <1>1, <1>3 DEF CurveInv
<1>. QED
  BY <1>7, <1>8, <1>9, <1>10 DEF BacktestInv

LEMMA EntryKeeps ==
  ASSUME BacktestInv, NEW signal \in Signals, EntryRefused(signal) \/ EntryFilled(signal)
  PROVE  BacktestInv'
<1>1. RunFits /\ BooksInv /\ TouchInv /\ CurveInv /\ phase = "signal" /\ Now > 0
  BY DEF BacktestInv, EntryRefused, EntryFilled, BooksInv
<1>2. /\ policy \in Policies /\ state \in States /\ IsFiniteSet(state.open)
      /\ Now \in Nat \ {0} /\ Bar \in Bars /\ ~state.raised
  BY <1>1 DEF RunFits, Now, Bar
<1>3. phase' = "point" /\ UNCHANGED <<policy, bars, curve, peak>>
  BY DEF EntryRefused, EntryFilled
<1>4. PICK c : c = state'
  OBVIOUS
<1>5. BooksOf(state, Now - 1)
  BY <1>1 DEF BooksInv, LastEntry
<1>6. /\ c \in States /\ IsFiniteSet(c.open) /\ BooksOf(c, Now)
      /\ c.trades = state.trades /\ c.raised = state.raised
      /\ \A p \in c.open : p \in state.open \/ p.id = Now
  <2>1. CASE EntryRefused(signal)
    <3>1. c = Refuse(state, signal, Now)
      BY <1>4, <2>1 DEF EntryRefused
    <3>2. Now \in Nat /\ Now - 1 \in Nat /\ Now - 1 <= Now
      BY <1>2
    <3>3. /\ c \in States /\ BooksOf(c, Now) /\ c.open = state.open
          /\ c.trades = state.trades /\ c.raised = state.raised
      <4> DEFINE last == Now - 1
      <4> HIDE DEF last
      <4>1. last \in Nat /\ last <= Now /\ BooksOf(state, last)
        BY <1>5, <3>2 DEF last
      <4>. QED
        BY <1>2, <3>1, <3>2, <4>1, RefuseFits
    <3>. QED
      BY <1>2, <3>3
  <2>2. CASE EntryFilled(signal)
    <3>1. PICK quantity \in QuantitiesFor(state, EntryPrice(signal, Bar), signal.stop) :
            c = Enter(state, signal, Bar, quantity, Now)
      BY <1>4, <2>2 DEF EntryFilled
    <3>2. quantity \in Nat /\ ~Refused(state, signal)
      BY <2>2, BacktestConstants DEF EntryFilled, QuantitiesFor
    <3>. QED
      BY <1>2, <1>5, <3>1, <3>2, EnterFits
  <2>. QED
    BY <2>1, <2>2
<1>7. Now' = Now /\ LastEntry' = Now
  BY <1>3 DEF LastEntry, Now
<1>8. RunFits'
  BY <1>1, <1>2, <1>3, <1>4, <1>6 DEF RunFits
<1>9. BooksInv'
  BY <1>1, <1>3, <1>4, <1>6, <1>7 DEF BooksInv
<1>10. TouchInv'
  <2>1. \A p : p.id = Now => Untouched(p, bars, Now)
    BY <1>2 DEF Untouched
  <2>2. \A p \in c.open : Untouched(p, bars, Now)
    BY <1>1, <1>6, <2>1 DEF TouchInv
  <2>3. \A k \in DOMAIN c.trades : LeftInTime(c.trades[k], bars, Now, policy)
    BY <1>1, <1>6 DEF TouchInv
  <2>. QED
    BY <1>3, <1>4, <1>7, <2>2, <2>3 DEF TouchInv
<1>11. CurveInv'
  BY <1>1, <1>3 DEF CurveInv
<1>. QED
  BY <1>8, <1>9, <1>10, <1>11 DEF BacktestInv

(* A point of the curve, of a state on the bar at hand.                       *)
Extended(s, c) ==
  /\ c \in Seq(Points) /\ CurveFits(c)
  /\ IsTop(NewPeak(Equity(s)), c, Len(c)) /\ NewPeak(Equity(s)) \in Nat
  /\ s.open = {} => EndsOn(c, s.balance)

LEMMA PointExtends ==
  ASSUME RunFits, CurveInv, phase # "finished", Now > 0,
         NEW s \in States, IsFiniteSet(s.open), Equity(s) >= 0
  PROVE  Extended(s, Append(curve, PointOf(s)))
<1> DEFINE point == PointOf(s)
           c == Append(curve, PointOf(s))
<1>1. /\ point \in Points /\ point.from = peak /\ point.equity = Equity(s)
      /\ point.balance = s.balance
      /\ point.fall = IF Equity(s) >= peak THEN 0 ELSE peak - Equity(s)
  BY PointFits
<1>2. curve \in Seq(Points) /\ peak \in Nat
  BY DEF RunFits
<1>3. CurveFits(curve) /\ IsTop(peak, curve, Len(curve))
  BY DEF CurveInv
<1>4. c = Append(curve, point)
  OBVIOUS
<1> HIDE DEF point, c
<1>5. /\ CurveFits(Append(curve, point))
      /\ IsTop(IF point.equity > peak THEN point.equity ELSE peak,
               Append(curve, point), Len(curve) + 1)
  BY <1>1, <1>2, <1>3, CurveGrows
<1>6. c \in Seq(Points) /\ Len(c) = Len(curve) + 1 /\ c[Len(c)] = point
  BY <1>1, <1>2, <1>4
<1>7. NewPeak(Equity(s)) = IF point.equity > peak THEN point.equity ELSE peak
  BY <1>1 DEF NewPeak
<1>8. NewPeak(Equity(s)) \in Nat
  BY <1>1, <1>2, <1>7 DEF Points
<1>9. IsTop(NewPeak(Equity(s)), c, Len(c))
  BY <1>4, <1>5, <1>6, <1>7
<1>10. s.open = {} => EndsOn(c, s.balance)
  BY <1>1, <1>6, EquityType DEF EndsOn
<1>. QED
  BY <1>4, <1>5, <1>6, <1>8, <1>9, <1>10 DEF Extended, c

LEMMA PointKeeps ==
  ASSUME BacktestInv, RecordPoint
  PROVE  BacktestInv'
<1>1. RunFits /\ BooksInv /\ TouchInv /\ CurveInv /\ phase = "point" /\ Now > 0
  BY DEF BacktestInv, RecordPoint, BooksInv
<1>2. UNCHANGED <<policy, state, bars>> /\ phase' \in {"bar", "failed"}
  BY DEF RecordPoint
<1>3. /\ curve' \in Seq(Points) /\ CurveFits(curve') /\ peak' \in Nat
      /\ IsTop(peak', curve', Len(curve'))
      /\ phase' = "bar" /\ state.open = {} => EndsOn(curve', state.balance)
  <2>1. CASE Equity(state) < 0
    <3>1. phase' = "failed" /\ UNCHANGED <<curve, peak>>
      BY <2>1 DEF RecordPoint
    <3>. QED
      BY <1>1, <3>1 DEF RunFits, CurveInv
  <2>2. CASE ~(Equity(state) < 0)
    <3>1. /\ curve' = Append(curve, PointOf(state)) /\ peak' = NewPeak(Equity(state))
      BY <2>2 DEF RecordPoint
    <3>2. Equity(state) \in Int /\ state \in States /\ IsFiniteSet(state.open)
      BY <1>1, EquityType DEF RunFits
    <3>3. PICK c : c = curve'
      OBVIOUS
    <3>4. /\ c \in Seq(Points) /\ CurveFits(c)
          /\ IsTop(NewPeak(Equity(state)), c, Len(c)) /\ NewPeak(Equity(state)) \in Nat
          /\ state.open = {} => EndsOn(c, state.balance)
      <4>1. Equity(state) >= 0 /\ phase # "finished"
        BY <1>1, <2>2, <3>2
      <4>2. Extended(state, Append(curve, PointOf(state)))
        BY <1>1, <3>2, <4>1, PointExtends
      <4>. QED
        BY <3>1, <3>3, <4>2 DEF Extended
    <3>. QED
      BY <3>1, <3>3, <3>4
  <2>. QED
    BY <2>1, <2>2
<1>4. Now' = Now /\ LastEntry' = Now /\ LastEntry = Now
  BY <1>1, <1>2 DEF LastEntry, Now
<1>5. RunFits'
  BY <1>1, <1>2, <1>3 DEF RunFits
<1>6. BooksInv'
  BY <1>1, <1>2, <1>4 DEF BooksInv
<1>7. TouchInv'
  BY <1>1, <1>2, <1>4 DEF TouchInv
<1>8. CurveInv'
  BY <1>2, <1>3 DEF CurveInv
<1>. QED
  BY <1>5, <1>6, <1>7, <1>8 DEF BacktestInv

LEMMA EndKeeps ==
  ASSUME BacktestInv, EndOfData
  PROVE  BacktestInv'
<1>1. RunFits /\ BooksInv /\ TouchInv /\ CurveInv /\ phase = "bar"
  BY DEF BacktestInv, EndOfData
<1>2. UNCHANGED <<policy, bars, peak>> /\ Now' = Now
  BY DEF EndOfData, Now
<1>3. BooksOf(state, Now) /\ Now \in Nat
  BY <1>1, BooksNow
<1>4. CASE state.open = {}
  <2>1. phase' = "finished" /\ UNCHANGED <<state, curve>>
    BY <1>4 DEF EndOfData
  <2>2. RunFits'
    BY <1>1, <1>2, <2>1 DEF RunFits
  <2>3. BooksInv'
    BY <1>2, <1>3, <1>4, <2>1 DEF BooksInv, LastEntry
  <2>4. TouchInv'
    BY <1>1, <1>2, <2>1 DEF TouchInv
  <2>5. CurveInv'
    BY <1>1, <1>2, <1>4, <2>1 DEF CurveInv
  <2>. QED
    BY <2>2, <2>3, <2>4, <2>5 DEF BacktestInv
<1>5. CASE state.open # {}
  <2>1. PICK c : c = state'
    OBVIOUS
  <2>2. /\ c = CloseAll(state, state.open, Bar, "end_of_data", Now)
        /\ curve' = (IF c.raised THEN curve ELSE Append(curve, PointOf(c)))
        /\ phase' = (IF c.raised THEN "failed" ELSE "finished")
    BY <1>5, <2>1 DEF EndOfData, Continue
  <2>3. Now > 0
    <3>1. PICK p \in state.open : TRUE
      BY <1>5
    <3>2. p.id \in 1 .. Now
      BY <1>3 DEF BooksOf
    <3>. QED
      BY <1>3, <3>2
  <2>4. /\ c \in States /\ IsFiniteSet(c.open) /\ BooksOf(c, Now) /\ c.raised \in BOOLEAN
        /\ \A p \in c.open : Untouched(p, bars, Now)
        /\ \A k \in DOMAIN c.trades : LeftInTime(c.trades[k], bars, Now, policy)
        /\ ~c.raised => c.open \cap state.open = {}
        /\ c.open \subseteq state.open
    <3>1. ClosedWell(CloseAll(state, state.open, Bar, "end_of_data", Now), state.open)
      BY <1>1, <2>3, CloseAllFits
    <3>. QED
      BY <2>2, <3>1 DEF ClosedWell
  <2>5. ~c.raised => c.open = {}
    BY <2>4
  <2>6. /\ curve' \in Seq(Points) /\ CurveFits(curve')
        /\ c.raised => curve' = curve
        /\ ~c.raised => EndsOn(curve', c.balance)
    <3>1. CASE c.raised
      <4>1. curve' = curve
        BY <2>2, <3>1
      <4>. QED
        BY <1>1, <3>1, <4>1 DEF RunFits, CurveInv
    <3>2. CASE ~c.raised
      <4>1. c.open = {} /\ curve' = Append(curve, PointOf(c))
        BY <2>2, <2>5, <3>2
      <4>2. Equity(c) >= 0
        <5>1. Equity(c) = c.balance
          BY <1>1, <2>3, <2>4, <4>1, EquityType
        <5>2. c.balance \in Nat
          BY <2>4 DEF States
        <5>. QED
          BY <5>1, <5>2
      <4>3. PICK d : d = curve'
        OBVIOUS
      <4>4. d \in Seq(Points) /\ CurveFits(d) /\ EndsOn(d, c.balance)
        <5>1. Extended(c, Append(curve, PointOf(c)))
          BY <1>1, <2>3, <2>4, <4>2, PointExtends
        <5>. QED
          BY <4>1, <4>3, <5>1 DEF Extended
      <4>. QED
        BY <3>2, <4>3, <4>4
    <3>. QED
      BY <3>1, <3>2
  <2>7. RunFits'
    BY <1>1, <1>2, <2>1, <2>2, <2>4, <2>6 DEF RunFits
  <2>8. BooksInv'
    <3>1. LastEntry' = Now
      BY <1>2, <2>2 DEF LastEntry
    <3>. QED
      BY <1>2, <2>1, <2>2, <2>4, <2>5, <3>1 DEF BooksInv
  <2>9. TouchInv'
    BY <1>2, <2>1, <2>4 DEF TouchInv
  <2>10. CurveInv'
    <3>1. phase' # "finished" => IsTop(peak', curve', Len(curve'))
      BY <1>1, <1>2, <2>2, <2>6 DEF CurveInv
    <3>2. phase' \in {"bar", "finished"} /\ state'.open = {} => EndsOn(curve', state'.balance)
      BY <2>1, <2>2, <2>6
    <3>. QED
      BY <2>6, <3>1, <3>2 DEF CurveInv
  <2>. QED
    BY <2>7, <2>8, <2>9, <2>10 DEF BacktestInv
<1>. QED
  BY <1>4, <1>5

(* The strengthening of the three properties holds throughout a run.          *)
THEOREM BacktestInvHolds == BacktestSpec => []BacktestInv
<1>1. BacktestInit => BacktestInv
  BY InitBacktest
<1>2. BacktestInv /\ [BacktestNext]_backtestVars => BacktestInv'
  <2> SUFFICES ASSUME BacktestInv, [BacktestNext]_backtestVars PROVE BacktestInv'
    OBVIOUS
  <2>1. CASE \E bar \in Bars : NextBar(bar)
    BY <2>1, NextBarKeeps
  <2>2. CASE Hold \/ \E signal \in Signals : EntryRaises(signal)
    BY <2>2, HoldKeeps
  <2>3. CASE \E symbol \in Symbols : ExitSignal(symbol)
    BY <2>3, ExitKeeps
  <2>4. CASE \E signal \in Signals : EntryRefused(signal) \/ EntryFilled(signal)
    BY <2>4, EntryKeeps
  <2>5. CASE RecordPoint
    BY <2>5, PointKeeps
  <2>6. CASE EndOfData
    BY <2>6, EndKeeps
  <2>7. CASE UNCHANGED backtestVars
    BY <2>7 DEF backtestVars, BacktestInv, RunFits, BooksInv, LastEntry, TouchInv,
       CurveInv, Now
  <2>. QED
    BY <2>1, <2>2, <2>3, <2>4, <2>5, <2>6, <2>7 DEF BacktestNext
<1>. QED
  BY <1>1, <1>2, PTL DEF BacktestSpec

(* A position leaves the market on the first bar that touches its stop or its *)
(* target, at the policy's choice of the two, and none outlives such a bar,   *)
(* whatever the bars, the signals, the costs and the number of positions.     *)
THEOREM LeavesAtFirstTouchHolds == BacktestSpec => []LeavesAtFirstTouch
<1>1. BacktestInv => LeavesAtFirstTouch
  <2> SUFFICES ASSUME BacktestInv, phase # "failed" PROVE LeavesAtFirstTouch
    BY DEF LeavesAtFirstTouch
  <2>1. /\ \A p \in state.open : Untouched(p, bars, Now)
        /\ \A k \in DOMAIN state.trades : LeftInTime(state.trades[k], bars, Now, policy)
    BY DEF BacktestInv, TouchInv
  <2>2. \A p \in state.open : \A i \in p.id + 1 .. Now : ~Touches(p, i)
    BY <2>1 DEF Untouched, HitOn, Touches
  <2>3. ASSUME NEW t \in Trades
        PROVE  /\ \A i \in t.position.id + 1 .. t.at - 1 : ~Touches(t.position, i)
               /\ t.reason \in {"stop_loss", "take_profit"}
                    <=> (t.at > t.position.id /\ Touches(t.position, t.at))
               /\ t.reason = "take_profit" =>
                    (policy = "stop_loss_first" => ~StopHit(t.position, bars[t.at]))
    <3>1. PICK k \in DOMAIN state.trades : t = state.trades[k]
      BY DEF Trades, Range
    <3>2. LeftInTime(t, bars, Now, policy)
      BY <2>1, <3>1
    <3>. QED
      BY <3>2 DEF LeftInTime, Untouched, HitOn, Touches
  <2>. QED
    BY <2>2, <2>3 DEF LeavesAtFirstTouch
<1>. QED
  BY <1>1, BacktestInvHolds, PTL

(* Every filled order has exactly one fate, no more positions are open than   *)
(* may be, a finished run has none, and the balance is what its trades made   *)
(* of the initial one, for every configuration of the simulator.              *)
THEOREM OneFateHolds == BacktestSpec => []OneFate
<1>1. BacktestInv => OneFate
  <2> SUFFICES ASSUME BacktestInv PROVE OneFate
    OBVIOUS
  <2> DEFINE filled == {i \in DOMAIN state.orders : state.orders[i].status = "filled"}
             nets == [i \in DOMAIN state.trades |-> state.trades[i].net]
  <2>1. BooksOf(state, Now) /\ (phase = "finished" => state.open = {})
    BY BooksNow DEF BacktestInv, BooksInv
  <2>2. {t.position.id : t \in Trades} = ClosedIds(state.trades)
    BY DEF Trades, Range, ClosedIds
  <2>3. filled = FilledOf(state.orders) /\ nets = NetsOf(state.trades)
    BY DEF FilledOf, NetsOf
  <2>4. {state.orders[i].id : i \in filled}
          = {p.id : p \in state.open} \cup {t.position.id : t \in Trades}
    BY <2>1, <2>2, <2>3 DEF BooksOf
  <2>5. Cardinality(state.open) + Len(state.trades) = Cardinality(filled)
    BY <2>1, <2>3 DEF BooksOf
  <2>6. state.balance = InitialBalance + SumFunctionOnSet(nets, DOMAIN nets)
    BY <2>1, <2>3, Zenon DEF BooksOf
  <2>7. Cardinality(state.open) <= MaxOpenPositions
    BY <2>1 DEF BooksOf
  <2> HIDE DEF filled, nets
  <2>8. /\ Cardinality(state.open) <= MaxOpenPositions
        /\ {state.orders[i].id : i \in filled}
             = {p.id : p \in state.open} \cup {t.position.id : t \in Trades}
        /\ Cardinality(state.open) + Len(state.trades) = Cardinality(filled)
        /\ phase = "finished" => state.open = {}
        /\ state.balance = InitialBalance + SumFunctionOnSet(nets, DOMAIN nets)
    BY <2>1, <2>4, <2>5, <2>6, <2>7
  <2>. QED
    BY <2>8, Zenon DEF OneFate, filled, nets
<1>. QED
  BY <1>1, BacktestInvHolds, PTL

-----------------------------------------------------------------------------
(* The pass over the curve.                                                *)

\* g is the recursive function that BuildCurve evaluates, up to point m.
IsPass(g, c, m) ==
  g = [n \in 0 .. m |-> IF n = 0 THEN PassStart ELSE PassPoint(g[n - 1], c[n])]

(* The recursion of the pass has a solution.                                  *)
LEMMA PassExists ==
  ASSUME NEW c, NEW size \in Nat
  PROVE  \E g : IsPass(g, c, size)
<1> DEFINE Bad == {m \in Nat : ~ \E g : IsPass(g, c, m)}
<1> SUFFICES ASSUME Bad # {} PROVE FALSE
  OBVIOUS
<1>1. PICK m \in Bad : \A k \in Bad : m <= k
  BY LeastNatural
<1>2. m # 0
  <2> DEFINE g == [n \in 0 .. 0 |-> PassStart]
  <2>1. \A n \in 0 .. 0 : n = 0
    OBVIOUS
  <2>2. g = [n \in 0 .. 0 |-> IF n = 0 THEN PassStart ELSE PassPoint(g[n - 1], c[n])]
    BY <2>1
  <2>. QED
    BY <2>2 DEF IsPass
<1>3. PICK g : IsPass(g, c, m - 1)
  BY <1>1, <1>2
<1> DEFINE h == [n \in 0 .. m |-> IF n = m THEN PassPoint(g[m - 1], c[m]) ELSE g[n]]
<1>4. \A n \in 0 .. m : h[n] = IF n = 0 THEN PassStart ELSE PassPoint(h[n - 1], c[n])
  <2> TAKE n \in 0 .. m
  <2>1. CASE n = m
    <3>1. h[n - 1] = g[m - 1]
      BY <2>1, <1>2
    <3>. QED
      BY <2>1, <3>1, <1>2
  <2>2. CASE n # m
    <3>1. n \in 0 .. m - 1 /\ h[n] = g[n]
      BY <2>2
    <3>2. g[n] = IF n = 0 THEN PassStart ELSE PassPoint(g[n - 1], c[n])
      BY <3>1, <1>3 DEF IsPass
    <3>3. n # 0 => h[n - 1] = g[n - 1]
      BY <3>1
    <3>. QED
      BY <3>1, <3>2, <3>3
  <2>. QED
    BY <2>1, <2>2
<1>5. h = [n \in 0 .. m |-> IF n = 0 THEN PassStart ELSE PassPoint(h[n - 1], c[n])]
  <2>1. h = [n \in 0 .. m |-> h[n]]
    OBVIOUS
  <2> HIDE DEF h
  <2>. QED
    BY <2>1, <1>4
<1>6. IsPass(h, c, m)
  BY <1>5 DEF IsPass
<1>. QED
  BY <1>6

(* Fractions are compared by their cross products: x/a <= f/P <= g/W.         *)
LEMMA Cross ==
  ASSUME NEW x \in Int, NEW a \in Nat, NEW P \in Nat, P > 0, NEW W \in Nat, W > 0,
         NEW f \in Nat, NEW g \in Nat, x * P <= f * a, f * W <= g * P
  PROVE  x * W <= g * a
<1>1. \A u, v \in Int : \A w \in Nat : u <= v => u * w <= v * w
  OBVIOUS
<1>2. \A u, v \in Int : u * v \in Int
  OBVIOUS
<1>3. \A u, v, w \in Int : (u * v) * w = (u * w) * v
  OBVIOUS
<1> DEFINE xP == x * P
           xW == x * W
           fa == f * a
           fW == f * W
           gP == g * P
           ga == g * a
<1>4. xP \in Int /\ xW \in Int /\ fa \in Int /\ fW \in Int /\ gP \in Int /\ ga \in Int
  BY <1>2
<1>5. /\ xP * W = xW * P /\ fa * W = fW * a /\ gP * a = ga * P
  BY <1>3
<1>6. xP <= fa /\ fW <= gP
  OBVIOUS
<1> HIDE DEF xP, xW, fa, fW, gP, ga
<1>7. xP * W <= fa * W /\ fW * a <= gP * a
  BY <1>1, <1>4, <1>6
<1>8. xW * P \in Int /\ fW * a \in Int /\ ga * P \in Int
  BY <1>2, <1>4
<1>9. xW * P <= ga * P
  BY <1>5, <1>7, <1>8
<1>10. xW <= ga
  <2> SUFFICES ASSUME xW > ga PROVE FALSE
    BY <1>4
  <2>1. ga + 1 <= xW
    BY <1>4
  <2>2. (ga + 1) * P <= xW * P
    BY <1>1, <1>4, <2>1
  <2>3. (ga + 1) * P = ga * P + P
    BY <1>4
  <2>. QED
    BY <1>8, <1>9, <2>2, <2>3
<1>. QED
  BY <1>10 DEF xW, ga

(* Of two amounts with the same trough, the one from the higher peak is the   *)
(* worse fraction: (a - e)/a <= (P - e)/P for a <= P.                         *)
LEMMA HigherIsWorse ==
  ASSUME NEW a \in Nat, NEW e \in Nat, NEW P \in Nat, a <= P
  PROVE  (a - e) * P <= (IF e >= P THEN 0 ELSE P - e) * a
<1>1. \A u, v \in Int : \A w \in Nat : u <= v => u * w <= v * w
  OBVIOUS
<1>2. \A u, v, w \in Int : (u - v) * w = u * w - v * w /\ u * w = w * u /\ u * w \in Int
  OBVIOUS
<1>3. CASE e >= P
  <2>1. a - e <= 0 /\ a - e \in Int
    BY <1>3
  <2>2. (a - e) * P <= 0 * P
    BY <1>1, <2>1
  <2>. QED
    BY <1>3, <2>2
<1>4. CASE ~(e >= P)
  <2>1. (a - e) * P = a * P - e * P /\ (P - e) * a = P * a - e * a /\ a * P = P * a
    BY <1>2
  <2>2. a * e <= P * e
    BY <1>1
  <2>3. a * e = e * a /\ P * e = e * P /\ a * P \in Int /\ e * P \in Int /\ e * a \in Int
    BY <1>2
  <2>. QED
    BY <1>4, <2>1, <2>2, <2>3
<1>. QED
  BY <1>3, <1>4

(* What the pass has found in the first n points: the peak, the greatest fall *)
(* from a point to itself or a later one, and the greatest fraction.          *)
FallOf(c, j, k) == EquityOf(c, j) - EquityOf(c, k)
Found(r, c, n) ==
  /\ IsTop(r.top, c, n)
  /\ r.amount \in Nat /\ r.worst.fall \in Nat /\ r.worst.from \in Nat /\ r.worst.from > 0
  /\ \A k \in 0 .. n : \A j \in 0 .. k :
       /\ FallOf(c, j, k) <= r.amount
       /\ FallOf(c, j, k) * r.worst.from <= r.worst.fall * EquityOf(c, j)
  /\ \E k \in 0 .. n : \E j \in 0 .. k : r.amount = FallOf(c, j, k)
  /\ \E k \in 0 .. n : \E j \in 0 .. k : /\ r.worst.from = EquityOf(c, j)
                                         /\ r.worst.fall = FallOf(c, j, k)

LEMMA EquityIsNatural ==
  ASSUME NEW c \in Seq(Points), NEW i \in 0 .. Len(c)
  PROVE  EquityOf(c, i) \in Nat
<1>1. CASE i = 0
  BY <1>1, BacktestConstants DEF EquityOf
<1>2. CASE i # 0
  <2>1. c[i] \in Points
    BY <1>2
  <2>. QED
    BY <1>2, <2>1 DEF EquityOf, Points
<1>. QED
  BY <1>1, <1>2

(* The greatest equity after one more point.                                  *)
LEMMA TopGrows ==
  ASSUME NEW c \in Seq(Points), NEW n \in 1 .. Len(c), NEW top \in Nat, IsTop(top, c, n - 1)
  PROVE  IsTop(IF c[n].equity > top THEN c[n].equity ELSE top, c, n)
<1> DEFINE e == c[n].equity
           more == IF e > top THEN e ELSE top
<1>1. EquityOf(c, n) = e /\ e \in Nat
  BY EquityIsNatural DEF EquityOf
<1> HIDE DEF e
<1>2. \A i \in 0 .. n : EquityOf(c, i) <= more
  <2> SUFFICES ASSUME NEW i \in 0 .. n PROVE EquityOf(c, i) <= more
    OBVIOUS
  <2>1. CASE i = n
    BY <1>1, <2>1
  <2>2. CASE i # n
    <3>1. EquityOf(c, i) <= top
      BY <2>2 DEF IsTop
    <3>2. EquityOf(c, i) \in Nat
      BY EquityIsNatural
    <3>. QED
      BY <1>1, <3>1, <3>2
  <2>. QED
    BY <2>1, <2>2
<1>3. \E i \in 0 .. n : more = EquityOf(c, i)
  <2>1. CASE e > top
    BY <1>1, <2>1
  <2>2. CASE ~(e > top)
    <3>1. PICK i \in 0 .. n - 1 : top = EquityOf(c, i)
      BY DEF IsTop
    <3>2. i \in 0 .. n
      OBVIOUS
    <3>. QED
      BY <2>2, <3>1, <3>2
  <2>. QED
    BY <2>1, <2>2
<1>4. IsTop(more, c, n)
  BY <1>2, <1>3 DEF IsTop
<1>. QED
  BY <1>4 DEF e

LEMMA FoundNext ==
  ASSUME NEW c \in Seq(Points), CurveFits(c), NEW n \in 1 .. Len(c),
         NEW r, Found(r, c, n - 1)
  PROVE  Found(PassPoint(r, c[n]), c, n)
<1> DEFINE e == c[n].equity
           P == c[n].from
           f == c[n].fall
           q == PassPoint(r, c[n])
<1>1. /\ EquityOf(c, n) = e /\ e \in Nat /\ P \in Nat /\ f \in Nat
  <2>1. c[n] \in Points /\ n # 0
    OBVIOUS
  <2>. QED
    BY <2>1 DEF EquityOf, Points
<1>2. IsTop(P, c, n - 1) /\ f = IF e >= P THEN 0 ELSE P - e
  BY DEF CurveFits
<1>3. r.top = P
  <2>1. IsTop(r.top, c, n - 1)
    BY DEF Found
  <2>2. PICK i \in 0 .. n - 1 : r.top = EquityOf(c, i)
    BY <2>1 DEF IsTop
  <2>3. PICK k \in 0 .. n - 1 : P = EquityOf(c, k)
    BY <1>2 DEF IsTop
  <2>4. EquityOf(c, i) <= P /\ EquityOf(c, k) <= r.top
    BY <1>2, <2>1 DEF IsTop
  <2>5. EquityOf(c, i) \in Nat
    BY EquityIsNatural
  <2> HIDE DEF P
  <2>. QED
    BY <1>1, <2>2, <2>3, <2>4, <2>5
<1>4. P > 0
  <2>1. EquityOf(c, 0) <= P
    BY <1>2 DEF IsTop
  <2>. QED
    BY <1>1, <2>1, BacktestConstants DEF EquityOf
<1> DEFINE top == IF e > P THEN e ELSE P
<1>5. top \in Nat /\ top - e = f
  BY <1>1, <1>2
<1>6. /\ q.top = top
      /\ q.amount = IF f > r.amount THEN f ELSE r.amount
      /\ q.worst = IF Worse(r.worst, c[n]) THEN r.worst ELSE [fall |-> f, from |-> P]
  BY <1>3, <1>5 DEF PassPoint
<1>7. IsTop(top, c, n)
  BY <1>1, <1>2, TopGrows
<1>8. Worse(r.worst, c[n]) <=> r.worst.fall * P >= f * r.worst.from
  BY DEF Worse
<1> HIDE DEF e, P, f, q, top
<1> DEFINE g == r.worst.fall
           W == r.worst.from
<1>9. r.amount \in Nat /\ g \in Nat /\ W \in Nat /\ W > 0
  BY DEF Found
<1>10. ASSUME NEW k \in 0 .. n, NEW j \in 0 .. k
       PROVE  FallOf(c, j, k) \in Int /\ EquityOf(c, j) \in Nat
  <2>1. EquityOf(c, j) \in Nat /\ EquityOf(c, k) \in Nat
    BY EquityIsNatural
  <2>. QED
    BY <2>1 DEF FallOf
(* The falls to the new point.                                                *)
<1>11. ASSUME NEW j \in 0 .. n
       PROVE  FallOf(c, j, n) <= f /\ FallOf(c, j, n) * P <= f * EquityOf(c, j)
  <2>1. EquityOf(c, j) \in Nat
    BY EquityIsNatural
  <2>2. CASE j = n
    <3>1. FallOf(c, j, n) = 0
      BY <1>1, <2>2 DEF FallOf
    <3>2. \A u, v \in Nat : 0 <= u * v
      OBVIOUS
    <3>3. 0 <= f * EquityOf(c, j)
      BY <1>1, <2>1, <3>2
    <3>. QED
      BY <1>1, <3>1, <3>3
  <2>3. CASE j # n
    <3>1. EquityOf(c, j) <= P
      BY <1>2, <2>3 DEF IsTop
    <3>2. FallOf(c, j, n) = EquityOf(c, j) - e
      BY <1>1 DEF FallOf
    <3>3. (EquityOf(c, j) - e) * P <= (IF e >= P THEN 0 ELSE P - e) * EquityOf(c, j)
      BY <1>1, <2>1, <3>1, HigherIsWorse
    <3>4. FallOf(c, j, n) * P <= f * EquityOf(c, j)
      BY <1>2, <3>2, <3>3
    <3>. QED
      BY <1>1, <1>2, <2>1, <3>1, <3>2, <3>4
  <2>. QED
    BY <2>2, <2>3
<1>12. /\ q.amount \in Nat
       /\ \A k \in 0 .. n : \A j \in 0 .. k : FallOf(c, j, k) <= q.amount
  <2>1. q.amount \in Nat /\ f <= q.amount /\ r.amount <= q.amount
    BY <1>1, <1>6, <1>9
  <2>2. ASSUME NEW k \in 0 .. n, NEW j \in 0 .. k PROVE FallOf(c, j, k) <= q.amount
    <3>1. FallOf(c, j, k) \in Int
      BY <1>10
    <3>2. CASE k = n
      <4>1. FallOf(c, j, k) <= f
        BY <1>11, <3>2
      <4>. QED
        BY <1>1, <2>1, <3>1, <4>1
    <3>3. CASE k # n
      <4>1. k \in 0 .. n - 1
        BY <3>3
      <4>2. FallOf(c, j, k) <= r.amount
        BY <4>1 DEF Found
      <4>. QED
        BY <1>9, <2>1, <3>1, <4>2
    <3>. QED
      BY <3>2, <3>3
  <2>. QED
    BY <2>1, <2>2
(* The new point is a fall from the peak, or from itself.                     *)
<1>13. \E j \in 0 .. n : f = FallOf(c, j, n) /\ (f > 0 => P = EquityOf(c, j))
  <2>1. CASE e >= P
    <3>1. f = FallOf(c, n, n) /\ ~(f > 0) /\ n \in 0 .. n
      BY <1>1, <1>2, <2>1 DEF FallOf
    <3>. QED
      BY <3>1
  <2>2. CASE ~(e >= P)
    <3>1. PICK j \in 0 .. n - 1 : P = EquityOf(c, j)
      BY <1>2 DEF IsTop
    <3>2. f = FallOf(c, j, n) /\ j \in 0 .. n
      BY <1>1, <1>2, <2>2, <3>1 DEF FallOf
    <3>. QED
      BY <3>1, <3>2
  <2>. QED
    BY <2>1, <2>2
<1>14. \E k \in 0 .. n : \E j \in 0 .. k : q.amount = FallOf(c, j, k)
  <2>1. CASE f > r.amount
    <3>1. PICK j \in 0 .. n : f = FallOf(c, j, n)
      BY <1>13
    <3>2. n \in 0 .. n /\ q.amount = f
      BY <1>6, <2>1
    <3>. QED
      BY <3>1, <3>2
  <2>2. CASE ~(f > r.amount)
    <3>1. PICK k \in 0 .. n - 1 : \E j \in 0 .. k : r.amount = FallOf(c, j, k)
      BY DEF Found
    <3>2. k \in 0 .. n /\ q.amount = r.amount
      BY <1>6, <2>2
    <3>. QED
      BY <3>1, <3>2
  <2>. QED
    BY <2>1, <2>2
<1> DEFINE Bound(x, y) == \A k \in 0 .. n : \A j \in 0 .. k :
                            FallOf(c, j, k) * y <= x * EquityOf(c, j)
           Reached(x, y) == \E k \in 0 .. n : \E j \in 0 .. k :
                              y = EquityOf(c, j) /\ x = FallOf(c, j, k)
<1>15. CASE Worse(r.worst, c[n])
  <2>1. q.worst.fall = g /\ q.worst.from = W /\ f * W <= g * P
    <3>1. \A u, v \in Nat : u * v \in Nat
      OBVIOUS
    <3>2. g * P \in Nat /\ f * W \in Nat
      BY <1>1, <1>9, <3>1
    <3>. QED
      BY <1>6, <1>8, <1>15, <3>2
  <2>2. ASSUME NEW k \in 0 .. n, NEW j \in 0 .. k
        PROVE  FallOf(c, j, k) * W <= g * EquityOf(c, j)
    <3>1. CASE k = n
      <4>1. FallOf(c, j, k) * P <= f * EquityOf(c, j)
        BY <1>11, <3>1
      <4>2. FallOf(c, j, k) \in Int /\ EquityOf(c, j) \in Nat
        BY <1>10
      <4> DEFINE x == FallOf(c, j, k)
                 a == EquityOf(c, j)
      <4> HIDE DEF x, a, g, W
      <4>3. x \in Int /\ a \in Nat /\ x * P <= f * a /\ f * W <= g * P
        BY <2>1, <4>1, <4>2 DEF x, a
      <4>4. x * W <= g * a
        BY <1>1, <1>4, <1>9, <4>3, Cross
      <4>. QED
        BY <4>4 DEF x, a
    <3>2. CASE k # n
      <4>1. k \in 0 .. n - 1
        BY <3>2
      <4>. QED
        BY <4>1 DEF Found
    <3>. QED
      BY <3>1, <3>2
  <2>3. Bound(g, W)
    BY <2>2
  <2>4. Reached(g, W)
    <3>1. PICK k \in 0 .. n - 1 : \E j \in 0 .. k : W = EquityOf(c, j) /\ g = FallOf(c, j, k)
      BY DEF Found
    <3>2. k \in 0 .. n
      OBVIOUS
    <3>. QED
      BY <3>1, <3>2
  <2> HIDE DEF g, W
  <2>5. /\ q.worst.fall \in Nat /\ q.worst.from \in Nat /\ q.worst.from > 0
        /\ Bound(q.worst.fall, q.worst.from) /\ Reached(q.worst.fall, q.worst.from)
    BY <1>9, <2>1, <2>3, <2>4
  <2>. QED
    BY <1>6, <1>7, <1>12, <1>14, <2>5 DEF Found, q
<1>16. CASE ~Worse(r.worst, c[n])
  <2>1. q.worst.fall = f /\ q.worst.from = P /\ g * P < f * W
    <3>1. \A u, v \in Nat : u * v \in Nat
      OBVIOUS
    <3>2. g * P \in Nat /\ f * W \in Nat
      BY <1>1, <1>9, <3>1
    <3>. QED
      BY <1>6, <1>8, <1>16, <3>2
  <2>2. f > 0
    <3> SUFFICES ASSUME f = 0 PROVE FALSE
      BY <1>1
    <3>1. \A u, v \in Nat : u * v \in Nat /\ 0 * u = 0
      OBVIOUS
    <3>2. g * P \in Nat /\ 0 * W = 0
      BY <1>1, <1>9, <3>1
    <3>3. f * W = 0
      BY <3>2
    <3> DEFINE left == g * P
               right == f * W
    <3>4. left \in Nat /\ right = 0 /\ left < right
      BY <2>1, <3>2, <3>3
    <3> HIDE DEF left, right
    <3>. QED
      BY <3>4
  <2>3. ASSUME NEW k \in 0 .. n, NEW j \in 0 .. k
        PROVE  FallOf(c, j, k) * P <= f * EquityOf(c, j)
    <3>1. CASE k = n
      BY <1>11, <3>1
    <3>2. CASE k # n
      <4>1. k \in 0 .. n - 1
        BY <3>2
      <4>2. FallOf(c, j, k) * W <= g * EquityOf(c, j)
        BY <4>1 DEF Found
      <4>3. FallOf(c, j, k) \in Int /\ EquityOf(c, j) \in Nat
        BY <1>10
      <4>4. g * P <= f * W
        <5>1. \A u, v \in Nat : u * v \in Nat
          OBVIOUS
        <5>2. g * P \in Nat /\ f * W \in Nat
          BY <1>1, <1>9, <5>1
        <5>. QED
          BY <2>1, <5>2
      <4> DEFINE x == FallOf(c, j, k)
                 a == EquityOf(c, j)
      <4> HIDE DEF x, a, g, W
      <4>5. x \in Int /\ a \in Nat /\ x * W <= g * a /\ g * P <= f * W
        BY <4>2, <4>3, <4>4 DEF x, a
      <4>6. x * P <= f * a
        BY <1>1, <1>4, <1>9, <4>5, Cross
      <4>. QED
        BY <4>6 DEF x, a
    <3>. QED
      BY <3>1, <3>2
  <2>4. Bound(f, P)
    BY <2>3
  <2>5. Reached(f, P)
    BY <1>13, <2>2
  <2>6. /\ q.worst.fall \in Nat /\ q.worst.from \in Nat /\ q.worst.from > 0
        /\ Bound(q.worst.fall, q.worst.from) /\ Reached(q.worst.fall, q.worst.from)
    BY <1>1, <1>4, <2>1, <2>4, <2>5
  <2>. QED
    BY <1>6, <1>7, <1>12, <1>14, <2>6 DEF Found, q
<1>. QED
  BY <1>15, <1>16

LEMMA CurveFound ==
  ASSUME RunFits, CurveFits(curve)
  PROVE  Found(BuildCurve, curve, Len(curve))
<1>0. curve \in Seq(Points) /\ Len(curve) \in Nat
  BY DEF RunFits
<1> DEFINE pass == CHOOSE g : IsPass(g, curve, Len(curve))
<1>1. IsPass(pass, curve, Len(curve))
  BY <1>0, PassExists
<1>2. BuildCurve = pass[Len(curve)]
  BY DEF BuildCurve, IsPass
<1> HIDE DEF pass
<1>3. /\ pass[0] = PassStart
      /\ \A n \in 1 .. Len(curve) : pass[n] = PassPoint(pass[n - 1], curve[n])
  BY <1>0, <1>1 DEF IsPass
<1>4. Found(PassStart, curve, 0)
  <2>1. EquityOf(curve, 0) = InitialBalance
    BY DEF EquityOf
  <2>2. /\ PassStart.top = InitialBalance /\ PassStart.amount = 0
        /\ PassStart.worst.fall = 0 /\ PassStart.worst.from = InitialBalance
    BY DEF PassStart
  <2>3. FallOf(curve, 0, 0) = 0
    BY <2>1, BacktestConstants DEF FallOf
  <2>4. \A k \in 0 .. 0 : k = 0
    OBVIOUS
  <2>5. IsTop(InitialBalance, curve, 0)
    BY <2>1, <2>4, BacktestConstants DEF IsTop
  <2>6. 0 * InitialBalance = 0
    BY BacktestConstants
  <2>7. \A k \in 0 .. 0 : \A j \in 0 .. k :
          /\ FallOf(curve, j, k) <= 0
          /\ FallOf(curve, j, k) * InitialBalance <= 0 * EquityOf(curve, j)
    BY <2>1, <2>3, <2>4, <2>6
  <2>8. /\ \E k \in 0 .. 0 : \E j \in 0 .. k : 0 = FallOf(curve, j, k)
        /\ \E k \in 0 .. 0 : \E j \in 0 .. k :
             InitialBalance = EquityOf(curve, j) /\ 0 = FallOf(curve, j, k)
    BY <2>1, <2>3
  <2>. QED
    BY <2>2, <2>5, <2>7, <2>8, BacktestConstants DEF Found
<1> DEFINE Bad == {n \in 0 .. Len(curve) : ~Found(pass[n], curve, n)}
<1>5. Bad = {}
  <2> SUFFICES ASSUME Bad # {} PROVE FALSE
    OBVIOUS
  <2>1. PICK n \in Bad : \A k \in Bad : n <= k
    <3>1. Bad \subseteq Nat
      OBVIOUS
    <3> HIDE DEF Bad
    <3>. QED
      BY <3>1, LeastNatural
  <2>2. n # 0
    BY <1>3, <1>4
  <2>3. Found(pass[n - 1], curve, n - 1) /\ n \in 1 .. Len(curve)
    BY <1>0, <2>1, <2>2
  <2>4. Found(PassPoint(pass[n - 1], curve[n]), curve, n)
    BY <1>0, <2>3, FoundNext
  <2>. QED
    BY <1>3, <2>1, <2>3, <2>4
<1>. QED
  BY <1>0, <1>2, <1>5

(* The drawdown of a report is the greatest fall of the equity from an        *)
(* earlier point or the initial balance, in amount and in fraction, and the   *)
(* curve of a finished run ends on the balance, for curves of every length.   *)
THEOREM DrawdownIsWorstHolds == BacktestSpec => []DrawdownIsWorst
<1>1. BacktestInv => DrawdownIsWorst
  <2> SUFFICES ASSUME BacktestInv PROVE DrawdownIsWorst
    OBVIOUS
  <2> DEFINE n == Len(curve)
             b == BuildCurve
             Falls == {f \in (0 .. n) \X (0 .. n) : f[1] <= f[2]}
  <2>1. RunFits /\ CurveFits(curve) /\ n \in Nat
    BY DEF BacktestInv, CurveInv, RunFits
  <2>2. Found(b, curve, n)
    BY <2>1, CurveFound
  <2>3. \A i : EquityAt(i) = EquityOf(curve, i)
    BY DEF EquityAt, EquityOf
  <2>4. phase = "finished" /\ curve # <<>> =>
          /\ curve[Len(curve)].equity = state.balance
          /\ curve[Len(curve)].balance = state.balance
    BY DEF BacktestInv, BooksInv, CurveInv, EndsOn
  <2> HIDE DEF n, b
  <2>5. ASSUME NEW k \in 0 .. n, NEW j \in 0 .. k
        PROVE  <<j, k>> \in Falls /\ <<j, k>>[1] = j /\ <<j, k>>[2] = k
    BY <2>1
  <2>6. ASSUME NEW f \in Falls
        PROVE  /\ EquityAt(f[1]) - EquityAt(f[2]) <= b.amount
               /\ (EquityAt(f[1]) - EquityAt(f[2])) * b.worst.from
                    <= b.worst.fall * EquityAt(f[1])
    <3>1. f[2] \in 0 .. n /\ f[1] \in 0 .. f[2]
      OBVIOUS
    <3>2. /\ FallOf(curve, f[1], f[2]) <= b.amount
          /\ FallOf(curve, f[1], f[2]) * b.worst.from
               <= b.worst.fall * EquityOf(curve, f[1])
      BY <2>2, <3>1 DEF Found
    <3>. QED
      BY <2>3, <3>2 DEF FallOf
  <2>7. \E f \in Falls : b.amount = EquityAt(f[1]) - EquityAt(f[2])
    <3>1. PICK k \in 0 .. n : \E j \in 0 .. k : b.amount = FallOf(curve, j, k)
      BY <2>2 DEF Found
    <3>2. PICK j \in 0 .. k : b.amount = FallOf(curve, j, k)
      BY <3>1
    <3> HIDE DEF Falls
    <3>3. b.amount = EquityAt(<<j, k>>[1]) - EquityAt(<<j, k>>[2])
      BY <2>3, <3>2 DEF FallOf
    <3>. QED
      BY <2>5, <3>3
  <2>8. \E f \in Falls : /\ b.worst.from = EquityAt(f[1])
                         /\ b.worst.fall = EquityAt(f[1]) - EquityAt(f[2])
    <3>1. PICK k \in 0 .. n : \E j \in 0 .. k :
            b.worst.from = EquityOf(curve, j) /\ b.worst.fall = FallOf(curve, j, k)
      BY <2>2 DEF Found
    <3>2. PICK j \in 0 .. k :
            b.worst.from = EquityOf(curve, j) /\ b.worst.fall = FallOf(curve, j, k)
      BY <3>1
    <3> HIDE DEF Falls
    <3>3. /\ b.worst.from = EquityAt(<<j, k>>[1])
          /\ b.worst.fall = EquityAt(<<j, k>>[1]) - EquityAt(<<j, k>>[2])
      BY <2>3, <3>2 DEF FallOf
    <3>. QED
      BY <2>5, <3>3
  <2>. QED
    BY <2>4, <2>6, <2>7, <2>8 DEF DrawdownIsWorst, n, b
<1>. QED
  BY <1>1, BacktestInvHolds, PTL
=============================================================================
