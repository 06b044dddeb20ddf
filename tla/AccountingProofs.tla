-------------------------- MODULE AccountingProofs --------------------------
(***************************************************************************)
(* The accounting laws of the portfolio, position and trade frameworks, for *)
(* every set of portfolios and symbols and any quantities and prices.  The   *)
(* inductive invariant of the portfolios is PortfolioInv: what is stored is  *)
(* well formed and positive (StoredOK), the books balance (BalanceOK), and   *)
(* each holding is the ledger's (LedgerOK).  TradesInv is that of positions  *)
(* and trades: what a closed position earned, how its state follows from its *)
(* amounts, and that the trades derived from its running totals are its      *)
(* fills.                                                                   *)
(***************************************************************************)
EXTENDS Portfolio, Trades, DataFacts

-----------------------------------------------------------------------------
(* One entry applied to the holdings.                                       *)

\* Holdings are finitely many positive amounts, each with a cost.
HoldingsOK(h) ==
    /\ h = [s \in DOMAIN h |-> h[s]]
    /\ IsFiniteSet(DOMAIN h) /\ DOMAIN h \subseteq Assets
    /\ \A s \in DOMAIN h :
          /\ h[s] = [quantity |-> h[s].quantity, average_cost |-> h[s].average_cost]
          /\ h[s].quantity \in Rats /\ Zero \prec h[s].quantity
          /\ h[s].average_cost \in Rats

\* An execution to apply.
EntryIs(e) ==
    /\ e.symbol \in Assets /\ e.side \in {"buy", "sell"}
    /\ e.quantity \in Rats /\ e.price \in Rats /\ Zero \prec e.quantity

Held(h, s) == IF s \in DOMAIN h THEN h[s].quantity ELSE Zero

Basis(h) == [s \in DOMAIN h |-> cost_basis(h[s])]

LEMMA BasisSummable ==
    ASSUME NEW h, HoldingsOK(h)
    PROVE  Summable(Basis(h)) /\ total_cost(h) = RatSum(Basis(h)) /\ total_cost(h) \in Rats
<1>1. Summable(Basis(h))
  BY Closed DEF Summable, Basis, HoldingsOK, cost_basis
<1>2. total_cost(h) = RatSum(Basis(h))
  BY DEF total_cost, Basis
<1> QED BY <1>1, <1>2, SumIs

\* A buy adds its quantity to the holding and its notional to the cost.
LEMMA Buying ==
    ASSUME NEW h, HoldingsOK(h), NEW e, EntryIs(e), e.side = "buy"
    PROVE  LET new == holdings_apply(h, e)
           IN  /\ HoldingsOK(new)
               /\ total_cost(new) = total_cost(h) ++ (e.quantity \otimes e.price)
               /\ \A s \in Assets :
                     Held(new, s) = IF s = e.symbol THEN Held(h, s) ++ e.quantity
                                    ELSE Held(h, s)
<1> DEFINE new == holdings_apply(h, e)
           sym == e.symbol
           b == bought(h, e)
           t == e.quantity \otimes e.price
<1>1. new = [s \in DOMAIN h \union {sym} |-> IF s = sym THEN b ELSE h[s]]
  BY DEF holdings_apply
<1>2. /\ DOMAIN new = DOMAIN h \union {sym} /\ new[sym] = b
      /\ \A s \in DOMAIN h : s # sym => new[s] = h[s]
      /\ new = [s \in DOMAIN new |-> new[s]]
  BY <1>1
<1>3. /\ t \in Rats /\ sym \in Assets /\ e.quantity \in Rats /\ e.price \in Rats
      /\ Zero \prec e.quantity
  BY Closed DEF EntryIs
<1>4. /\ b = [quantity |-> b.quantity, average_cost |-> b.average_cost]
      /\ b.quantity \in Rats /\ Zero \prec b.quantity /\ b.average_cost \in Rats
      /\ b.quantity = Held(h, sym) ++ e.quantity
      /\ cost_basis(b) = IF sym \in DOMAIN h THEN cost_basis(h[sym]) ++ t ELSE t
  <2>1. CASE sym \notin DOMAIN h
    <3>1. b = [quantity |-> e.quantity, average_cost |-> e.price]
      BY <2>1 DEF bought
    <3>2. Held(h, sym) ++ e.quantity = e.quantity
      BY <1>3, <2>1, PlusLaws DEF Held
    <3> QED BY <1>3, <2>1, <3>1, <3>2 DEF cost_basis
  <2>2. CASE sym \in DOMAIN h
    <3> DEFINE old == h[sym]
               n == old.quantity ++ e.quantity
               total == cost_basis(old) ++ t
    <3>1. /\ old.quantity \in Rats /\ old.average_cost \in Rats /\ Zero \prec old.quantity
      BY <2>2 DEF HoldingsOK
    <3>2. b = [quantity |-> n, average_cost |-> total \oslash n]
      BY <2>2 DEF bought
    <3>3. n \in Rats /\ Zero \prec n /\ n # Zero
      BY <1>3, <3>1, PositiveSum
    <3>4. total \in Rats
      BY <1>3, <3>1, Closed DEF cost_basis
    <3> HIDE DEF n, total
    <3>5. total \oslash n \in Rats /\ n \otimes (total \oslash n) = total
      BY <3>3, <3>4, Closed, TimesLaws
    <3> QED BY <2>2, <3>2, <3>3, <3>4, <3>5 DEF cost_basis, Held, n, total
  <2> QED BY <2>1, <2>2
<1> HIDE DEF new, b, t
<1>5. HoldingsOK(new)
  <2>1. IsFiniteSet(DOMAIN new)
    BY <1>2, FS_AddElement DEF HoldingsOK
  <2> QED BY <1>2, <1>3, <1>4, <2>1 DEF HoldingsOK
<1>6. total_cost(new) = total_cost(h) ++ t
  <2> DEFINE f == Basis(h)
             g == Basis(new)
  <2>1. /\ Summable(f) /\ Summable(g) /\ total_cost(h) = RatSum(f) /\ total_cost(h) \in Rats
        /\ total_cost(new) = RatSum(g)
    BY <1>5, BasisSummable
  <2>2. /\ DOMAIN f = DOMAIN h /\ DOMAIN g = DOMAIN h \union {sym}
        /\ \A s \in DOMAIN f : s # sym => g[s] = f[s]
        /\ g[sym] = cost_basis(b)
        /\ sym \in DOMAIN h => f[sym] = cost_basis(h[sym])
    BY <1>2 DEF Basis
  <2> HIDE DEF f, g
  <2>3. CASE sym \notin DOMAIN h
    <3>1. RatSum(g) = RatSum(f) ++ g[sym]
      BY <2>1, <2>2, <2>3, SumGrows
    <3> QED BY <1>4, <2>1, <2>2, <2>3, <3>1
  <2>4. CASE sym \in DOMAIN h
    <3> DEFINE c == f[sym]
               r == RatSum(f)
    <3>1. DOMAIN g = DOMAIN f
      BY <2>2, <2>4
    <3>2. RatSum(g) = (r -- c) ++ g[sym]
      BY <2>1, <2>2, <2>4, <3>1, SumReplaced
    <3>3. g[sym] = c ++ t /\ c \in Rats /\ r \in Rats
      BY <1>4, <2>1, <2>2, <2>4 DEF Summable
    <3> HIDE DEF c, r
    <3>4. (r -- c) ++ (c ++ t) = r ++ t
      <4>1. ((r -- c) ++ c) ++ t = (r -- c) ++ (c ++ t)
        BY <1>3, <3>3, PlusLaws, Closed
      <4>2. (r -- c) ++ c = r
        BY <3>3, PlusLaws
      <4> QED BY <4>1, <4>2
    <3> QED BY <2>1, <3>2, <3>3, <3>4 DEF r
  <2> QED BY <2>3, <2>4
<1>7. \A s \in Assets : Held(new, s) = IF s = sym THEN Held(h, s) ++ e.quantity
                                        ELSE Held(h, s)
  BY <1>2, <1>4 DEF Held
<1> QED BY <1>5, <1>6, <1>7 DEF new, t

\* A sale takes its quantity from the holding, and its share from the cost.
LEMMA Selling ==
    ASSUME NEW h, HoldingsOK(h), NEW e, EntryIs(e), e.side = "sell", holdings_ok(h, e)
    PROVE  LET new == holdings_apply(h, e)
               cost == e.quantity \otimes h[e.symbol].average_cost
           IN  /\ HoldingsOK(new)
               /\ e.symbol \in DOMAIN h /\ cost \in Rats
               /\ total_cost(new) = total_cost(h) -- cost
               /\ \A s \in Assets :
                     Held(new, s) = IF s = e.symbol THEN Held(h, s) -- e.quantity
                                    ELSE Held(h, s)
<1> DEFINE new == holdings_apply(h, e)
           sym == e.symbol
           old == h[sym]
           q == old.quantity
           a == old.average_cost
           k == e.quantity \otimes a
           rest == q -- e.quantity
           f == Basis(h)
           g == Basis(new)
<1>1. sym \in DOMAIN h /\ e.quantity \preceq q
  BY DEF holdings_ok
<1>2. /\ old = [quantity |-> q, average_cost |-> a]
      /\ q \in Rats /\ a \in Rats /\ e.quantity \in Rats /\ k \in Rats
  BY <1>1, Closed DEF HoldingsOK, EntryIs
<1>3. /\ rest \in Rats
      /\ rest # Zero => Zero \prec rest
      /\ rest = Zero => q = e.quantity
  BY <1>1, <1>2, Remaining
<1>4. /\ Summable(f) /\ total_cost(h) = RatSum(f) /\ total_cost(h) \in Rats
      /\ DOMAIN f = DOMAIN h /\ f[sym] = q \otimes a /\ f[sym] \in Rats
  <2>1. Summable(f) /\ total_cost(h) = RatSum(f) /\ total_cost(h) \in Rats
    BY BasisSummable
  <2>2. DOMAIN f = DOMAIN h /\ f[sym] = q \otimes a
    BY <1>1 DEF Basis, cost_basis
  <2> QED BY <1>1, <2>1, <2>2 DEF Summable
<1>5. HoldingsOK(new) =>
          Summable(g) /\ total_cost(new) = RatSum(g) /\ total_cost(new) \in Rats
  BY BasisSummable
<1>6. CASE rest = Zero
  <2>1. new = [s \in DOMAIN h \ {sym} |-> h[s]]
    BY <1>6 DEF holdings_apply, Restrict
  <2> HIDE DEF new
  <2>2. HoldingsOK(new)
    <3>1. IsFiniteSet(DOMAIN new)
      BY <2>1, FS_RemoveElement DEF HoldingsOK
    <3> QED BY <2>1, <3>1 DEF HoldingsOK
  <2>3. /\ DOMAIN f = DOMAIN g \union {sym} /\ sym \notin DOMAIN g
        /\ \A s \in DOMAIN g : f[s] = g[s]
    BY <1>1, <2>1 DEF Basis
  <2> HIDE DEF f, g
  <2>4. RatSum(f) = RatSum(g) ++ f[sym]
    BY <1>4, <1>5, <2>2, <2>3, SumGrows
  <2>5. f[sym] = k
    BY <1>3, <1>4, <1>6
  <2>6. total_cost(new) = total_cost(h) -- k
    <3>1. (RatSum(g) ++ k) -- k = RatSum(g)
      BY <1>2, <1>5, <2>2, PlusLaws
    <3> QED BY <1>4, <1>5, <2>2, <2>4, <2>5, <3>1
  <2>7. \A s \in Assets : Held(new, s) = IF s = sym THEN Held(h, s) -- e.quantity
                                          ELSE Held(h, s)
    BY <1>1, <1>6, <2>1 DEF Held
  <2> QED BY <1>1, <1>2, <2>2, <2>6, <2>7 DEF new
<1>7. CASE rest # Zero
  <2>1. new = [h EXCEPT ![sym].quantity = rest]
    BY <1>7 DEF holdings_apply
  <2>2. /\ DOMAIN new = DOMAIN h /\ new = [s \in DOMAIN new |-> new[s]]
        /\ new[sym] = [quantity |-> rest, average_cost |-> a]
        /\ \A s \in DOMAIN h : s # sym => new[s] = h[s]
    BY <1>1, <1>2, <2>1 DEF HoldingsOK
  <2> HIDE DEF new, rest
  <2>3. HoldingsOK(new)
    <3>1. /\ new[sym] = [quantity |-> new[sym].quantity,
                         average_cost |-> new[sym].average_cost]
          /\ new[sym].quantity \in Rats /\ Zero \prec new[sym].quantity
          /\ new[sym].average_cost \in Rats
      BY <1>2, <1>3, <1>7, <2>2
    <3>2. ASSUME NEW s \in DOMAIN h, s # sym
          PROVE  /\ new[s] = [quantity |-> new[s].quantity,
                              average_cost |-> new[s].average_cost]
                 /\ new[s].quantity \in Rats /\ Zero \prec new[s].quantity
                 /\ new[s].average_cost \in Rats
      BY <2>2, <3>2 DEF HoldingsOK
    <3>3. IsFiniteSet(DOMAIN new) /\ DOMAIN new \subseteq Assets
      BY <2>2 DEF HoldingsOK
    <3> QED BY <2>2, <3>1, <3>2, <3>3 DEF HoldingsOK
  <2>4. /\ DOMAIN g = DOMAIN f /\ g[sym] = rest \otimes a
        /\ \A s \in DOMAIN f : s # sym => g[s] = f[s]
    BY <1>1, <2>2 DEF Basis, cost_basis
  <2> HIDE DEF f, g
  <2>5. RatSum(g) = (RatSum(f) -- f[sym]) ++ g[sym]
    BY <1>1, <1>4, <1>5, <2>3, <2>4, SumReplaced
  <2>6. g[sym] = f[sym] -- k
    <3>1. rest \otimes a = a \otimes rest /\ q \otimes a = a \otimes q
          /\ k = a \otimes e.quantity
      BY <1>2, <1>3, TimesCommutes
    <3>2. a \otimes rest = (a \otimes q) -- (a \otimes e.quantity)
      BY <1>2, TimesLaws DEF rest
    <3> QED BY <1>4, <2>4, <3>1, <3>2
  <2>7. total_cost(new) = total_cost(h) -- k
    BY <1>2, <1>4, <1>5, <2>3, <2>5, <2>6, Telescoped
  <2>8. \A s \in Assets : Held(new, s) = IF s = sym THEN Held(h, s) -- e.quantity
                                          ELSE Held(h, s)
    BY <1>1, <2>2 DEF Held, rest
  <2> QED BY <1>1, <1>2, <2>3, <2>7, <2>8 DEF new
<1> QED BY <1>6, <1>7

-----------------------------------------------------------------------------
(* One entry appended to the ledger.                                        *)

LedgerIs(l) == IsSeq(l) /\ \A i \in DOMAIN l : EntryIs(l[i])

\* What an entry adds to the quantity of a symbol.
Move(e, s) == IF e.symbol # s THEN Zero
              ELSE IF e.side = "buy" THEN e.quantity ELSE Zero -- e.quantity

Moves(l, s) == [i \in DOMAIN l |-> Move(l[i], s)]

LEMMA MoveIsRat ==
    ASSUME NEW e, EntryIs(e), NEW s
    PROVE  Move(e, s) \in Rats
BY Closed, ZeroOver DEF EntryIs, Move

LEMMA MovesSummable ==
    ASSUME NEW l, LedgerIs(l), NEW s
    PROVE  /\ Summable(Moves(l, s)) /\ net_quantity(l, s) = RatSum(Moves(l, s))
           /\ net_quantity(l, s) \in Rats
<1>1. DOMAIN l = 1..Len(l) /\ Len(l) \in Nat /\ Len(l) \in Int
  BY SeqIs DEF LedgerIs
<1>2. IsFiniteSet(DOMAIN l)
  BY <1>1, FS_Interval
<1>3. Summable(Moves(l, s))
  BY <1>2, MoveIsRat DEF Summable, Moves, LedgerIs
<1>4. net_quantity(l, s) = RatSum(Moves(l, s))
  BY DEF net_quantity, Moves, Move
<1> QED BY <1>3, <1>4, SumIs

LEMMA LedgerGrows ==
    ASSUME NEW l, LedgerIs(l), NEW e, EntryIs(e)
    PROVE  /\ LedgerIs(Append(l, e))
           /\ \A s : net_quantity(Append(l, e), s) = net_quantity(l, s) ++ Move(e, s)
<1> DEFINE n == Len(l) + 1
           new == Append(l, e)
<1>1. /\ IsSeq(new) /\ Len(l) \in Nat /\ Len(new) = n
      /\ \A i \in 1..Len(l) : new[i] = l[i]
      /\ new[n] = e
  BY AppendIs DEF LedgerIs
<1>2. DOMAIN new = 1..n /\ DOMAIN l = 1..Len(l)
  BY <1>1, SeqIs DEF LedgerIs
<1>3. DOMAIN new = DOMAIN l \union {n} /\ n \notin DOMAIN l
  BY <1>1, <1>2
<1> HIDE DEF new, n
<1>4. LedgerIs(new)
  BY <1>1, <1>2, <1>3 DEF LedgerIs
<1>5. ASSUME NEW s
      PROVE  net_quantity(new, s) = net_quantity(l, s) ++ Move(e, s)
  <2> DEFINE f == Moves(l, s)
             g == Moves(new, s)
  <2>1. /\ Summable(f) /\ net_quantity(l, s) = RatSum(f)
        /\ Summable(g) /\ net_quantity(new, s) = RatSum(g)
    BY <1>4, MovesSummable
  <2>2. /\ DOMAIN f = DOMAIN l /\ DOMAIN g = DOMAIN f \union {n} /\ n \notin DOMAIN f
        /\ \A i \in DOMAIN f : g[i] = f[i]
        /\ g[n] = Move(e, s)
    BY <1>1, <1>2, <1>3 DEF Moves
  <2> HIDE DEF f, g
  <2>3. RatSum(g) = RatSum(f) ++ g[n]
    BY <2>1, <2>2, SumGrows
  <2> QED BY <2>1, <2>2, <2>3
<1> QED BY <1>4, <1>5 DEF new

-----------------------------------------------------------------------------
(* One update of a portfolio.                                               *)

StoredOK(p) ==
    /\ p = [state |-> p.state, positions |-> p.positions, cash |-> p.cash,
            ledger |-> p.ledger, realized_pnl |-> p.realized_pnl]
    /\ HoldingsOK(p.positions) /\ p.cash \in Rats /\ p.realized_pnl \in Rats
    /\ LedgerIs(p.ledger)

BalanceOK(p) == p.state # "closed" => book_value(p) = InitialCash

LedgerOK(p) == \A s \in Assets : Held(p.positions, s) = net_quantity(p.ledger, s)

PortfolioOK(p) == StoredOK(p) /\ BalanceOK(p) /\ LedgerOK(p)

LEMMA CashIsRat == InitialCash \in Rats
BY PortfolioAssumption, IsRatIs

\* What is paid for holdings is their cost.
LEMMA BookAfterBuy ==
    ASSUME NEW c \in Rats, NEW t \in Rats, NEW r \in Rats, NEW v \in Rats
    PROVE  ((c -- t) ++ (v ++ t)) -- (r ++ Zero) =
               (c ++ v) -- r
<1>1. PICK d, x, y, z, w \in Int :
          Over(c, x, d) /\ Over(t, y, d) /\ Over(r, z, d) /\ Over(v, w, d)
  BY CommonDenominator
<1>2. Over(Zero, 0, d)
  BY <1>1, ZeroOver DEF Over
<1>3. /\ Over(c -- t, x - y, d) /\ Over(v ++ t, w + y, d)
      /\ Over(r ++ Zero, z + 0, d) /\ Over(c ++ v, x + w, d)
  BY <1>1, <1>2, PlusOver, MinusOver
<1>4. Over((c -- t) ++ (v ++ t), (x - y) + (w + y), d)
  BY <1>3, PlusOver
<1>5. /\ Over(((c -- t) ++ (v ++ t)) -- (r ++ Zero),
             ((x - y) + (w + y)) - (z + 0), d)
      /\ Over((c ++ v) -- r, (x + w) - z, d)
  BY <1>1, <1>3, <1>4, MinusOver
<1>6. ((x - y) + (w + y)) - (z + 0) = (x + w) - z
  OBVIOUS
<1> QED BY <1>5, <1>6, SameOver

\* What a sale brings in beyond the cost of what is sold is profit.
LEMMA BookAfterSale ==
    ASSUME NEW c \in Rats, NEW t \in Rats, NEW r \in Rats, NEW v \in Rats, NEW k \in Rats
    PROVE  ((c ++ t) ++ (v -- k)) -- (r ++ (t -- k)) =
               (c ++ v) -- r
<1>1. PICK d, x, y, z, w, u \in Int :
          /\ Over(c, x, d) /\ Over(t, y, d) /\ Over(r, z, d)
          /\ Over(v, w, d) /\ Over(k, u, d)
  <2> DEFINE Common(x1, x2, x3, x4, x5) ==
                 \E d, n1, n2, n3, n4, n5 \in Int :
                     /\ Over(x1, n1, d) /\ Over(x2, n2, d) /\ Over(x3, n3, d)
                     /\ Over(x4, n4, d) /\ Over(x5, n5, d)
  <2>1. \A x1, x2, x3, x4, x5 \in Rats : Common(x1, x2, x3, x4, x5)
    BY CommonDenominator
  <2> HIDE DEF Common
  <2>2. Common(c, t, r, v, k)
    BY <2>1
  <2> QED BY <2>2 DEF Common
<1>2. /\ Over(c ++ t, x + y, d) /\ Over(v -- k, w - u, d)
      /\ Over(t -- k, y - u, d) /\ Over(c ++ v, x + w, d)
  BY <1>1, PlusOver, MinusOver
<1>3. /\ Over((c ++ t) ++ (v -- k), (x + y) + (w - u), d)
      /\ Over(r ++ (t -- k), z + (y - u), d)
  BY <1>1, <1>2, PlusOver
<1>4. /\ Over(((c ++ t) ++ (v -- k)) -- (r ++ (t -- k)),
             ((x + y) + (w - u)) - (z + (y - u)), d)
      /\ Over((c ++ v) -- r, (x + w) - z, d)
  BY <1>1, <1>2, <1>3, MinusOver
<1>5. ((x + y) + (w - u)) - (z + (y - u)) = (x + w) - z
  OBVIOUS
<1> QED BY <1>4, <1>5, SameOver

\* The entry of a context whose execution is accepted.
LEMMA EntryAccepted ==
    ASSUME NEW h, NEW c \in Contexts, execution_ok(c), holdings_ok(h, entry(c))
    PROVE  EntryIs(entry(c))
<1>1. \A n \in Nat : Rat(n) \in Rats
  BY RatIsRat
<1>2. \A q \in Quantities : Rat(q) \in Rats
  BY <1>1, PortfolioAssumption
<1>3. \A q \in Prices : Rat(q) \in Rats
  BY <1>1, PortfolioAssumption
<1>4. c.quantity \in Rats /\ c.symbol \in Assets /\ c.side \in {"buy", "sell"}
  BY <1>2 DEF Contexts
<1>5. c.price # NoPrice => c.price \in Rats
  BY <1>3 DEF Contexts
<1>6. c.symbol \in DOMAIN c.prices => c.prices[c.symbol] \in Rats
  BY <1>3 DEF Contexts, PriceMaps
<1> QED BY <1>4, <1>5, <1>6 DEF entry, LedgerEntry, EntryIs, execution_ok, holdings_ok

LEMMA NewPortfolioOK == PortfolioOK(NewPortfolio) /\ NewPortfolio.state # "closed"
<1> DEFINE p == NewPortfolio
<1>1. /\ p.state = "empty" /\ p.positions = <<>> /\ p.ledger = <<>>
      /\ p.cash = InitialCash /\ p.realized_pnl = Zero
      /\ p = [state |-> p.state, positions |-> p.positions, cash |-> p.cash,
              ledger |-> p.ledger, realized_pnl |-> p.realized_pnl]
  BY DEF NewPortfolio
<1>2. HoldingsOK(<<>>)
  BY FS_EmptySet DEF HoldingsOK
<1>3. LedgerIs(<<>>)
  <2>1. <<>> \in Seq({}) /\ DOMAIN <<>> = {}
    OBVIOUS
  <2> QED BY <2>1, IsSeqIntro DEF LedgerIs
<1>4. total_cost(<<>>) = Zero
  <2>1. DOMAIN Basis(<<>>) = {}
    BY DEF Basis
  <2> QED BY <1>2, <2>1, BasisSummable, SumIs
<1>5. \A s \in Assets : net_quantity(<<>>, s) = Zero
  <2>1. \A s : DOMAIN Moves(<<>>, s) = {}
    BY DEF Moves
  <2> QED BY <1>3, <2>1, MovesSummable, SumIs
<1>6. (InitialCash ++ Zero) -- Zero = InitialCash
  BY CashIsRat, PlusLaws
<1>7. StoredOK(p)
  BY <1>1, <1>2, <1>3, CashIsRat, ZeroOver DEF StoredOK
<1>8. BalanceOK(p)
  BY <1>1, <1>4, <1>6 DEF BalanceOK, book_value
<1>9. LedgerOK(p)
  BY <1>1, <1>5 DEF LedgerOK, Held
<1> QED BY <1>1, <1>7, <1>8, <1>9 DEF PortfolioOK

\* An update keeps the laws: the books balance again after the entry, and the
\* holding changes by what the ledger's new entry says.
LEMMA UpdatedOK ==
    ASSUME NEW p, PortfolioOK(p), p.state # "closed",
           NEW c \in Contexts, execution_ok(c), holdings_ok(p.positions, entry(c))
    PROVE  PortfolioOK(updated(p, c)) /\ updated(p, c).state = "active"
<1> DEFINE e == entry(c)
           h == p.positions
           H == holdings_apply(h, e)
           t == e.quantity \otimes e.price
           v == total_cost(h)
           n == updated(p, c)
<1>1. EntryIs(e)
  BY EntryAccepted
<1>2. HoldingsOK(h) /\ p.cash \in Rats /\ p.realized_pnl \in Rats /\ LedgerIs(p.ledger)
  BY DEF PortfolioOK, StoredOK
<1>3. /\ n = [state |-> n.state, positions |-> n.positions, cash |-> n.cash,
              ledger |-> n.ledger, realized_pnl |-> n.realized_pnl]
      /\ n.state = "active" /\ n.positions = H
      /\ n.cash = cash_apply(p.cash, e)
      /\ n.ledger = Append(p.ledger, e)
      /\ n.realized_pnl = p.realized_pnl ++ _realized_delta(h, e)
  BY DEF updated
<1>4. t \in Rats /\ e.quantity \in Rats /\ e.price \in Rats /\ v \in Rats
  BY <1>1, <1>2, Closed, BasisSummable DEF EntryIs
<1>5. book_value(p) = InitialCash /\ book_value(p) = (p.cash ++ v) -- p.realized_pnl
  BY DEF PortfolioOK, BalanceOK, book_value
<1>6. /\ LedgerIs(n.ledger)
      /\ \A s : net_quantity(n.ledger, s) = net_quantity(p.ledger, s) ++ Move(e, s)
  BY <1>1, <1>2, <1>3, LedgerGrows
<1>7. /\ book_value(n) = (n.cash ++ total_cost(H)) -- n.realized_pnl
  BY <1>3 DEF book_value
<1>8. \A s \in Assets : /\ Held(h, s) = net_quantity(p.ledger, s)
                        /\ net_quantity(p.ledger, s) \in Rats
  BY <1>2, MovesSummable DEF PortfolioOK, LedgerOK
<1>9. CASE e.side = "buy"
  <2>1. /\ HoldingsOK(H) /\ total_cost(H) = v ++ t
        /\ \A s \in Assets : Held(H, s) = IF s = e.symbol THEN Held(h, s) ++ e.quantity
                                          ELSE Held(h, s)
    BY <1>1, <1>2, <1>9, Buying
  <2>2. n.cash = p.cash -- t /\ n.realized_pnl = p.realized_pnl ++ Zero
    BY <1>3, <1>9 DEF cash_apply, _realized_delta
  <2> HIDE DEF n, H, v, t, h, e
  <2>3. n.cash \in Rats /\ n.realized_pnl \in Rats
    BY <1>2, <1>4, <2>2, Closed, ZeroOver
  <2>4. book_value(n) = InitialCash
    BY <1>2, <1>4, <1>5, <1>7, <2>1, <2>2, BookAfterBuy
  <2>5. ASSUME NEW s \in Assets
        PROVE  Held(H, s) = net_quantity(n.ledger, s)
    <3>1. net_quantity(p.ledger, s) ++ Zero = net_quantity(p.ledger, s)
      BY <1>8, PlusLaws
    <3> QED BY <1>6, <1>8, <1>9, <2>1, <3>1 DEF Move
  <2> QED BY <1>3, <1>6, <2>1, <2>3, <2>4, <2>5
          DEF PortfolioOK, StoredOK, BalanceOK, LedgerOK, n
<1>10. CASE e.side = "sell"
  <2> DEFINE a == h[e.symbol].average_cost
             k == e.quantity \otimes a
  <2>1. /\ HoldingsOK(H) /\ e.symbol \in DOMAIN h /\ k \in Rats
        /\ total_cost(H) = v -- k
        /\ \A s \in Assets : Held(H, s) = IF s = e.symbol THEN Held(h, s) -- e.quantity
                                          ELSE Held(h, s)
    BY <1>1, <1>2, <1>10, Selling
  <2>2. a \in Rats
    BY <1>2, <2>1 DEF HoldingsOK
  <2>3. e.quantity \otimes (e.price -- a) = t -- k
    BY <1>4, <2>2, TimesLaws
  <2>4. n.cash = p.cash ++ t /\ n.realized_pnl = p.realized_pnl ++ (t -- k)
    BY <1>3, <1>10, <2>1, <2>3 DEF cash_apply, _realized_delta
  <2> HIDE DEF n, H, v, t, h, e, k
  <2>5. n.cash \in Rats /\ n.realized_pnl \in Rats
    BY <1>2, <1>4, <2>1, <2>4, Closed
  <2>6. book_value(n) = InitialCash
    <3> DEFINE r == p.realized_pnl
               cash == p.cash
    <3>1. cash \in Rats /\ r \in Rats
      BY <1>2
    <3> HIDE DEF r, cash
    <3>2. ((cash ++ t) ++ (v -- k)) -- (r ++ (t -- k)) =
              (cash ++ v) -- r
      BY <1>4, <2>1, <3>1, BookAfterSale
    <3> QED BY <1>5, <1>7, <2>1, <2>4, <3>2 DEF r, cash
  <2>7. ASSUME NEW s \in Assets
        PROVE  Held(H, s) = net_quantity(n.ledger, s)
    <3> DEFINE q == net_quantity(p.ledger, s)
    <3>1. q ++ Zero = q /\ q ++ (Zero -- e.quantity) = q -- e.quantity
      BY <1>4, <1>8, PlusLaws, Telescoped
    <3> QED BY <1>6, <1>8, <1>10, <2>1, <3>1 DEF Move
  <2> QED BY <1>3, <1>6, <2>1, <2>5, <2>6, <2>7
          DEF PortfolioOK, StoredOK, BalanceOK, LedgerOK, n
<1> QED BY <1>1, <1>9, <1>10 DEF EntryIs

-----------------------------------------------------------------------------
(* The invariant.                                                           *)

\* The value kept for the next update is the portfolio's.
ValueOK(value, p) ==
    /\ value # NoValue
    /\ value.cash_value = p.cash
    /\ value.cost_basis = total_cost(p.positions)
    /\ value.realized_pnl = p.realized_pnl

PortfolioInv ==
    /\ DOMAIN portfolios = PortfolioIds /\ DOMAIN prev_value = PortfolioIds
    /\ \A pid \in PortfolioIds : portfolios[pid] # NoPortfolio =>
          /\ PortfolioOK(portfolios[pid])
          /\ portfolios[pid].state \in {"active", "closed"}
          /\ portfolios[pid].state # "closed" => ValueOK(prev_value[pid], portfolios[pid])

LEMMA PortfolioInitOK ==
    ASSUME PortfolioInit
    PROVE  PortfolioInv
BY DEF PortfolioInit, PortfolioInv

LEMMA UpdateStep ==
    ASSUME PortfolioInv, NEW pid \in PortfolioIds, NEW c \in Contexts, Update(pid, c)
    PROVE  PortfolioInv'
<1> DEFINE p == load(pid)
           n == updated(p, c)
           v == valuation(n, c.prices)
<1>1. /\ p.state # "closed" /\ execution_ok(c) /\ holdings_ok(p.positions, entry(c))
      /\ portfolios' = [portfolios EXCEPT ![pid] = n]
      /\ prev_value' = [prev_value EXCEPT ![pid] = v]
  BY DEF Update, Succeeds
<1>2. PortfolioOK(p)
  BY NewPortfolioOK DEF load, PortfolioInv
<1>3. PortfolioOK(n) /\ n.state = "active"
  BY <1>1, <1>2, UpdatedOK
<1>4. ValueOK(v, n)
  <2>1. /\ v.cash_value = n.cash /\ v.cost_basis = total_cost(n.positions)
        /\ v.realized_pnl = n.realized_pnl /\ "cash_value" \in DOMAIN v
    BY DEF valuation, PortfolioValue
  <2>2. "cash_value" \notin DOMAIN NoValue
    BY DEF NoValue
  <2> HIDE DEF v
  <2> QED BY <2>1, <2>2 DEF ValueOK
<1> HIDE DEF n, v, p
<1> QED BY <1>1, <1>3, <1>4 DEF PortfolioInv

LEMMA CloseStep ==
    ASSUME PortfolioInv, NEW pid \in PortfolioIds, Close(pid)
    PROVE  PortfolioInv'
<1> DEFINE p == portfolios[pid]
           n == [p EXCEPT !.state = "closed", !.realized_pnl = Zero]
<1>1. /\ portfolios' = [portfolios EXCEPT ![pid] = n] /\ prev_value' = prev_value
      /\ PortfolioOK(p)
  BY DEF Close, PortfolioInv
<1>2. p = [state |-> p.state, positions |-> p.positions, cash |-> p.cash,
           ledger |-> p.ledger, realized_pnl |-> p.realized_pnl]
  BY <1>1 DEF PortfolioOK, StoredOK
<1>3. n = [state |-> "closed", positions |-> p.positions, cash |-> p.cash,
           ledger |-> p.ledger, realized_pnl |-> Zero]
  <2>1. PICK z, a, b, l, r : p = [state |-> z, positions |-> a, cash |-> b,
                                  ledger |-> l, realized_pnl |-> r]
    BY <1>2
  <2>2. DOMAIN n = {"state", "positions", "cash", "ledger", "realized_pnl"}
    BY <2>1
  <2>3. /\ n.state = "closed" /\ n.positions = p.positions /\ n.cash = p.cash
        /\ n.ledger = p.ledger /\ n.realized_pnl = Zero
    BY <2>1
  <2>4. n = [f \in DOMAIN n |-> n[f]]
    OBVIOUS
  <2> HIDE DEF n
  <2> QED BY <2>2, <2>3, <2>4
<1> HIDE DEF n
<1>4. PortfolioOK(n) /\ n.state = "closed"
  BY <1>1, <1>3, ZeroOver DEF PortfolioOK, StoredOK, BalanceOK, LedgerOK
<1> QED BY <1>1, <1>4 DEF PortfolioInv

LEMMA InvStep ==
    ASSUME PortfolioInv, [PortfolioNext]_portfolio_vars
    PROVE  PortfolioInv'
<1>1. CASE UNCHANGED portfolio_vars
  BY <1>1 DEF PortfolioInv, portfolio_vars
<1>2. ASSUME NEW pid \in PortfolioIds, NEW c \in Contexts,
             Update(pid, c) \/ UpdateFails(pid, c)
      PROVE  PortfolioInv'
  BY <1>1, <1>2, UpdateStep DEF UpdateFails
<1>3. ASSUME NEW pid \in PortfolioIds, Close(pid)
      PROVE  PortfolioInv'
  BY <1>3, CloseStep
<1> QED BY <1>1, <1>2, <1>3 DEF PortfolioNext

LEMMA PortfolioAlways == PortfolioSpec => []PortfolioInv
<1>1. PortfolioInit => PortfolioInv
  BY PortfolioInitOK
<1>2. PortfolioInv /\ [PortfolioNext]_portfolio_vars => PortfolioInv'
  BY InvStep
<1> QED BY <1>1, <1>2, PTL DEF PortfolioSpec

\* Whatever is bought and sold, in whatever order, cash plus the cost of the holdings
\* minus the realized profit of an open portfolio is its initial cash.
THEOREM BookBalances == PortfolioSpec => []BookValueConserved
<1>1. PortfolioInv => BookValueConserved
  BY DEF PortfolioInv, BookValueConserved, PortfolioOK, BalanceOK, Open, Registered
<1> QED BY <1>1, PortfolioAlways, PTL

\* The holdings are the ledger's: exactly the symbols of which more was bought than
\* sold are held, each in the difference, and nothing is sold short.
THEOREM HoldingsAreTheLedgers == PortfolioSpec => []HoldingsMatchLedger
<1>1. ASSUME PortfolioInv
      PROVE  HoldingsMatchLedger
  <2> SUFFICES ASSUME NEW pid \in Registered
               PROVE  LET p == portfolios[pid]
                      IN  /\ p.state \in {"active", "closed"}
                          /\ DOMAIN p.positions \subseteq Assets
                          /\ \A s \in DOMAIN p.positions :
                                /\ IsRat(p.positions[s].quantity)
                                /\ IsRat(p.positions[s].average_cost)
                          /\ IsRat(p.cash) /\ IsRat(p.realized_pnl)
                          /\ \A i \in DOMAIN p.ledger : EntryOK(p.ledger[i])
                          /\ \A s \in Assets :
                                IF s \in DOMAIN p.positions
                                THEN /\ p.positions[s].quantity = net_quantity(p.ledger, s)
                                     /\ Zero \prec p.positions[s].quantity
                                ELSE net_quantity(p.ledger, s) = Zero
    BY DEF HoldingsMatchLedger, PortfolioTypeOK
  <2> DEFINE p == portfolios[pid]
  <2>1. StoredOK(p) /\ LedgerOK(p) /\ p.state \in {"active", "closed"}
    BY <1>1 DEF PortfolioInv, PortfolioOK, Registered
  <2> HIDE DEF p
  <2>2. HoldingsOK(p.positions) /\ IsRat(p.cash) /\ IsRat(p.realized_pnl)
        /\ LedgerIs(p.ledger)
    BY <2>1, IsRatIs DEF StoredOK
  <2>3. /\ DOMAIN p.positions \subseteq Assets
        /\ \A s \in DOMAIN p.positions :
              /\ IsRat(p.positions[s].quantity) /\ IsRat(p.positions[s].average_cost)
              /\ Zero \prec p.positions[s].quantity
    BY <2>2, IsRatIs DEF HoldingsOK
  <2>4. \A i \in DOMAIN p.ledger : EntryOK(p.ledger[i])
    BY <2>2, IsRatIs DEF LedgerIs, EntryIs, EntryOK
  <2>5. \A s \in Assets : net_quantity(p.ledger, s) =
                            IF s \in DOMAIN p.positions THEN p.positions[s].quantity ELSE Zero
    BY <2>1 DEF LedgerOK, Held
  <2> QED BY <2>1, <2>2, <2>3, <2>4, <2>5 DEF p
<1> QED BY <1>1, PortfolioAlways, PTL

\* An update stores the portfolio and its value, or neither.
THEOREM ValueIsStored == PortfolioSpec => []PreviousValueIsCurrent
<1>1. PortfolioInv => PreviousValueIsCurrent
  BY DEF PortfolioInv, PreviousValueIsCurrent, ValueOK, Open, Registered
<1> QED BY <1>1, PortfolioAlways, PTL

-----------------------------------------------------------------------------
(* The totals of a history.                                                 *)

FillIs(f) ==
    /\ f.side \in {"buy", "sell"}
    /\ f.quantity \in Rats /\ Zero \prec f.quantity /\ f.price \in Rats

HistoryIs(h) == IsSeq(h) /\ \A i \in DOMAIN h : FillIs(h[i])

Selected(h, sides) == {i \in DOMAIN h : h[i].side \in sides}

QuantitiesOf(h, sides) == [i \in Selected(h, sides) |-> h[i].quantity]
NotionalsOf(h, sides) == [i \in Selected(h, sides) |-> h[i].quantity \otimes h[i].price]

LEMMA FillTradesAre ==
    ASSUME NEW f \in FillTrades
    PROVE  FillIs(f)
<1>1. PICK side \in {"buy", "sell"}, q \in FillQuantities, p \in FillPrices :
          f = [side |-> side, quantity |-> Rat(q), price |-> Rat(p)]
  BY DEF FillTrades
<1>2. q \in Int /\ 0 < q /\ p \in Int
  BY PositionAssumption
<1>3. Rat(q) \in Rats /\ Over(Rat(q), q, 1) /\ Rat(p) \in Rats
  BY <1>2, RatIsRat
<1>4. Zero \prec Rat(q)
  BY <1>2, <1>3, ZeroOver, OrderOver
<1> QED BY <1>1, <1>3, <1>4 DEF FillIs

LEMMA TotalsSummable ==
    ASSUME NEW h, HistoryIs(h), NEW sides
    PROVE  /\ Summable(QuantitiesOf(h, sides)) /\ Summable(NotionalsOf(h, sides))
           /\ quantity_of(h, sides) = RatSum(QuantitiesOf(h, sides))
           /\ notional_of(h, sides) = RatSum(NotionalsOf(h, sides))
           /\ quantity_of(h, sides) \in Rats /\ notional_of(h, sides) \in Rats
<1>1. DOMAIN h = 1..Len(h) /\ Len(h) \in Nat /\ Len(h) \in Int
  BY SeqIs DEF HistoryIs
<1>2. IsFiniteSet(DOMAIN h)
  BY <1>1, FS_Interval
<1>3. Selected(h, sides) \in SUBSET DOMAIN h
  BY DEF Selected
<1>4. IsFiniteSet(Selected(h, sides))
  BY <1>2, <1>3, FS_Subset
<1>5. \A i \in Selected(h, sides) : h[i].quantity \in Rats /\ h[i].price \in Rats
  BY <1>3 DEF HistoryIs, FillIs
<1>6. Summable(QuantitiesOf(h, sides))
  BY <1>4, <1>5 DEF Summable, QuantitiesOf
<1>7. Summable(NotionalsOf(h, sides))
  BY <1>4, <1>5, Closed DEF Summable, NotionalsOf
<1>8. /\ quantity_of(h, sides) = RatSum(QuantitiesOf(h, sides))
      /\ notional_of(h, sides) = RatSum(NotionalsOf(h, sides))
  BY DEF quantity_of, notional_of, QuantitiesOf, NotionalsOf, Selected
<1> QED BY <1>6, <1>7, <1>8, SumIs

\* A fill adds to the totals of its side and to no other.
LEMMA TotalsGrow ==
    ASSUME NEW h, HistoryIs(h), NEW f, FillIs(f)
    PROVE  /\ HistoryIs(Append(h, f))
           /\ \A sides :
                 /\ quantity_of(Append(h, f), sides) =
                       IF f.side \in sides THEN quantity_of(h, sides) ++ f.quantity
                       ELSE quantity_of(h, sides)
                 /\ notional_of(Append(h, f), sides) =
                       IF f.side \in sides
                       THEN notional_of(h, sides) ++ (f.quantity \otimes f.price)
                       ELSE notional_of(h, sides)
<1> DEFINE n == Len(h) + 1
           new == Append(h, f)
<1>1. /\ IsSeq(new) /\ Len(h) \in Nat /\ Len(new) = n
      /\ \A i \in 1..Len(h) : new[i] = h[i]
      /\ new[n] = f
  BY AppendIs DEF HistoryIs
<1>2. DOMAIN new = 1..n /\ DOMAIN h = 1..Len(h)
  BY <1>1, SeqIs DEF HistoryIs
<1>3. /\ DOMAIN new = DOMAIN h \union {n} /\ n \notin DOMAIN h
      /\ \A i \in DOMAIN h : new[i] = h[i]
  BY <1>1, <1>2
<1> HIDE DEF new, n
<1>4. HistoryIs(new)
  BY <1>1, <1>3 DEF HistoryIs
<1>5. ASSUME NEW sides
      PROVE  /\ quantity_of(new, sides) =
                   IF f.side \in sides THEN quantity_of(h, sides) ++ f.quantity
                   ELSE quantity_of(h, sides)
             /\ notional_of(new, sides) =
                   IF f.side \in sides
                   THEN notional_of(h, sides) ++ (f.quantity \otimes f.price)
                   ELSE notional_of(h, sides)
  <2> DEFINE q == QuantitiesOf(h, sides)
             v == NotionalsOf(h, sides)
             Q == QuantitiesOf(new, sides)
             V == NotionalsOf(new, sides)
             S == Selected(h, sides)
  <2>1. /\ Summable(q) /\ quantity_of(h, sides) = RatSum(q)
        /\ Summable(v) /\ notional_of(h, sides) = RatSum(v)
        /\ Summable(Q) /\ quantity_of(new, sides) = RatSum(Q)
        /\ Summable(V) /\ notional_of(new, sides) = RatSum(V)
    BY <1>4, TotalsSummable
  <2>2. CASE f.side \in sides
    <3>1. Selected(new, sides) = S \union {n} /\ n \notin S
      BY <1>1, <1>3, <2>2 DEF Selected
    <3>2. \A i \in S : i \in DOMAIN h
      BY DEF Selected
    <3>3. /\ DOMAIN q = S /\ DOMAIN Q = S \union {n} /\ Q[n] = f.quantity
          /\ \A i \in S : Q[i] = q[i]
      BY <1>1, <1>3, <3>1, <3>2 DEF QuantitiesOf
    <3>4. /\ DOMAIN v = S /\ DOMAIN V = S \union {n} /\ V[n] = f.quantity \otimes f.price
          /\ \A i \in S : V[i] = v[i]
      BY <1>1, <1>3, <3>1, <3>2 DEF NotionalsOf
    <3> HIDE DEF q, Q, v, V, S
    <3>5. RatSum(Q) = RatSum(q) ++ Q[n]
      BY <2>1, <3>1, <3>3, SumGrows
    <3>6. RatSum(V) = RatSum(v) ++ V[n]
      BY <2>1, <3>1, <3>4, SumGrows
    <3> QED BY <2>1, <2>2, <3>3, <3>4, <3>5, <3>6
  <2>3. CASE f.side \notin sides
    <3>1. Selected(new, sides) = S
      BY <1>1, <1>3, <2>3 DEF Selected
    <3>2. \A i \in S : new[i] = h[i]
      BY <1>3 DEF Selected
    <3>3. Q = q /\ V = v
      BY <3>1, <3>2 DEF QuantitiesOf, NotionalsOf
    <3> HIDE DEF q, Q, v, V, S
    <3> QED BY <2>1, <2>3, <3>3
  <2> QED BY <2>2, <2>3
<1> QED BY <1>4, <1>5 DEF new

\* A side's total is positive exactly when it has a fill.
TotalsOK(h) ==
    /\ HistoryIs(h)
    /\ \A x \in {"buy", "sell"} :
          IF \E i \in DOMAIN h : h[i].side = x
          THEN Zero \prec quantity_of(h, {x})
          ELSE quantity_of(h, {x}) = Zero

LEMMA TotalsInit == TotalsOK(<<>>)
<1>1. <<>> \in Seq({}) /\ DOMAIN <<>> = {}
  OBVIOUS
<1>2. HistoryIs(<<>>)
  BY <1>1, IsSeqIntro DEF HistoryIs
<1>3. \A sides : DOMAIN QuantitiesOf(<<>>, sides) = {}
  BY <1>1 DEF QuantitiesOf, Selected
<1>4. \A sides : quantity_of(<<>>, sides) = Zero
  BY <1>2, <1>3, TotalsSummable, SumIs
<1> QED BY <1>1, <1>2, <1>4 DEF TotalsOK

LEMMA TotalsStep ==
    ASSUME NEW h, TotalsOK(h), NEW f, FillIs(f)
    PROVE  /\ TotalsOK(Append(h, f))
           /\ Append(h, f) # <<>> /\ Len(Append(h, f)) = Len(h) + 1
           /\ h # <<>> => Append(h, f)[1] = h[1]
           /\ h = <<>> => Append(h, f)[1] = f
<1> DEFINE new == Append(h, f)
           n == Len(h) + 1
<1>1. /\ IsSeq(new) /\ Len(h) \in Nat /\ Len(new) = n /\ new # <<>>
      /\ \A i \in 1..Len(h) : new[i] = h[i]
      /\ new[n] = f
  BY AppendIs DEF HistoryIs, TotalsOK
<1>2. DOMAIN new = 1..n /\ DOMAIN h = 1..Len(h)
  BY <1>1, SeqIs DEF HistoryIs, TotalsOK
<1>3. /\ HistoryIs(new)
      /\ \A x : quantity_of(new, {x}) = IF f.side = x THEN quantity_of(h, {x}) ++ f.quantity
                                        ELSE quantity_of(h, {x})
  BY TotalsGrow DEF TotalsOK
<1>4. h # <<>> => Len(h) >= 1
  BY <1>1 DEF IsSeq, HistoryIs, TotalsOK
<1>5. h = <<>> => Len(h) = 0
  OBVIOUS
<1> HIDE DEF new
<1>6. ASSUME NEW x \in {"buy", "sell"}
      PROVE  IF \E i \in DOMAIN new : new[i].side = x
             THEN Zero \prec quantity_of(new, {x})
             ELSE quantity_of(new, {x}) = Zero
  <2>1. (\E i \in DOMAIN new : new[i].side = x) <=>
            (\E i \in DOMAIN h : h[i].side = x) \/ f.side = x
    BY <1>1, <1>2
  <2>2. CASE f.side # x
    BY <1>3, <2>1, <2>2 DEF TotalsOK
  <2>3. CASE f.side = x
    <3> DEFINE q == quantity_of(h, {x})
    <3>1. q \in Rats /\ f.quantity \in Rats /\ Zero \prec f.quantity
      BY TotalsSummable DEF TotalsOK, FillIs
    <3>2. q = Zero \/ Zero \prec q
      BY DEF TotalsOK
    <3> HIDE DEF q
    <3>3. Zero \prec (q ++ f.quantity)
      <4>1. Zero ++ f.quantity = f.quantity
        BY <3>1, PlusLaws
      <4> QED BY <3>1, <3>2, <4>1, PositiveSum
    <3> QED BY <1>3, <2>1, <2>3, <3>3 DEF q
  <2> QED BY <2>2, <2>3
<1>7. TotalsOK(new)
  BY <1>3, <1>6 DEF TotalsOK
<1> QED BY <1>1, <1>4, <1>5, <1>7 DEF new

-----------------------------------------------------------------------------
(* The position of a history.                                               *)

PositionOf(h) == Position(calculate(h), derive_state(h))

Bought(h) == quantity_of(h, {"buy"})
Sold(h) == quantity_of(h, {"sell"})
Paid(h) == notional_of(h, {"buy"})
Earned(h) == notional_of(h, {"sell"})

LEMMA AverageIs ==
    ASSUME NEW v \in Rats, NEW q \in Rats
    PROVE  /\ average(v, q) \in Rats
           /\ q # Zero => q \otimes average(v, q) = v
<1>1. CASE q = Zero
  BY <1>1, ZeroOver DEF average
<1>2. CASE q # Zero
  BY <1>2, Closed, TimesLaws DEF average
<1> QED BY <1>1, <1>2

LEMMA RealizedIs ==
    ASSUME NEW side, NEW q \in Rats, NEW a \in Rats, NEW b \in Rats
    PROVE  /\ realized(side, q, a, b) \in Rats
           /\ realized(side, q, a, b) =
                 IF side = "long" THEN (q \otimes b) -- (q \otimes a)
                 ELSE (q \otimes a) -- (q \otimes b)
<1>1. /\ q \otimes (b -- a) = (q \otimes b) -- (q \otimes a)
      /\ q \otimes (a -- b) = (q \otimes a) -- (q \otimes b)
  BY TimesLaws
<1>2. q \otimes (b -- a) \in Rats /\ q \otimes (a -- b) \in Rats
  BY Closed
<1> QED BY <1>1, <1>2 DEF realized

\* What the calculator and the lifecycle make of a history they accept.
LEMMA PositionIs ==
    ASSUME NEW h, TotalsOK(h), h # <<>>, calculator_ok(h)
    PROVE  LET p == PositionOf(h)
               exits == IF p.side = "long" THEN Sold(h) ELSE Bought(h)
           IN  /\ p.side = IF h[1].side = "buy" THEN "long" ELSE "short"
               /\ p.total_bought = Bought(h) /\ Bought(h) \in Rats
               /\ p.total_sold = Sold(h) /\ Sold(h) \in Rats
               /\ p.quantity \in Rats /\ p.realized_pnl \in Rats
               /\ p.average_entry \in Rats /\ p.average_exit \in Rats
               /\ p.side = "long" =>
                     /\ Zero \prec Bought(h) /\ Sold(h) \preceq Bought(h)
                     /\ p.quantity = Bought(h) -- Sold(h)
               /\ p.side = "short" =>
                     /\ Zero \prec Sold(h) /\ Bought(h) \preceq Sold(h)
                     /\ p.quantity = Sold(h) -- Bought(h)
               /\ Zero \preceq p.quantity
               /\ p.state = IF p.quantity = Zero THEN "closed"
                            ELSE IF exits = Zero THEN "open" ELSE "partially_closed"
               /\ p.state = "closed" => p.realized_pnl = Earned(h) -- Paid(h)
               /\ exits # Zero <=> \E i \in DOMAIN h : h[i].side = exit_side(h)
<1> DEFINE p == PositionOf(h)
           o == h[1].side
           x == exit_side(h)
           in == quantity_of(h, {o})
           out == quantity_of(h, {x})
           vin == notional_of(h, {o})
           vout == notional_of(h, {x})
           a == average(vin, in)
           b == average(vout, out)
<1>1. 1 \in DOMAIN h
  BY DEF TotalsOK, HistoryIs, IsSeq
<1>2. o \in {"buy", "sell"} /\ x = IF o = "buy" THEN "sell" ELSE "buy"
  BY <1>1 DEF TotalsOK, HistoryIs, FillIs, exit_side
<1>3. /\ in \in Rats /\ out \in Rats /\ vin \in Rats /\ vout \in Rats
      /\ Bought(h) \in Rats /\ Sold(h) \in Rats
  BY TotalsSummable DEF TotalsOK, Bought, Sold
<1>4. Zero \prec in
  BY <1>1, <1>2 DEF TotalsOK
<1>5. /\ out = Zero \/ Zero \prec out
      /\ Zero \prec out <=> \E i \in DOMAIN h : h[i].side = x
      /\ out # Zero <=> Zero \prec out
  <2>1. ~(Zero \prec Zero)
    BY ZeroOver, Compared
  <2>2. x \in {"buy", "sell"}
    BY <1>2
  <2> QED BY <2>1, <2>2 DEF TotalsOK
<1>6. out \preceq in
  BY DEF calculator_ok
<1>7. /\ p.side = side_of(o) /\ p.quantity = in -- out
      /\ p.total_bought = Bought(h) /\ p.total_sold = Sold(h)
      /\ p.average_entry = a /\ p.average_exit = b
      /\ p.realized_pnl = realized(side_of(o), out, a, b)
      /\ p.state = derive_state(h)
  BY DEF PositionOf, Position, calculate, Bought, Sold
<1>8. derive_state(h) = IF (in -- out) \preceq Zero THEN "closed"
                        ELSE IF \E i \in DOMAIN h : h[i].side = x THEN "partially_closed"
                        ELSE "open"
  BY DEF derive_state, calculate
<1>9. side_of(o) = IF o = "buy" THEN "long" ELSE "short"
  BY DEF side_of
<1>10. /\ o = "buy" => in = Bought(h) /\ out = Sold(h) /\ vin = Paid(h) /\ vout = Earned(h)
       /\ o # "buy" => in = Sold(h) /\ out = Bought(h) /\ vin = Earned(h) /\ vout = Paid(h)
  BY <1>2 DEF Bought, Sold, Paid, Earned
<1> HIDE DEF p, o, x, in, out, vin, vout
<1>11. /\ in -- out \in Rats /\ Zero \preceq (in -- out)
       /\ (in -- out) \preceq Zero <=> in -- out = Zero
       /\ in -- out = Zero <=> in = out
       /\ in # Zero
  <2>1. /\ in -- out \in Rats
        /\ Zero \preceq (in -- out) <=> out \preceq in
        /\ (in -- out) \preceq Zero <=> in \preceq out
        /\ in -- out = Zero <=> in = out
        /\ in \preceq out /\ out \preceq in => in = out
    BY <1>3, Compared
  <2>2. in # Zero /\ in \preceq in
    BY <1>3, <1>4, ZeroOver, Compared
  <2> QED BY <1>6, <2>1, <2>2
<1>12. a \in Rats /\ b \in Rats /\ in \otimes a = vin /\ (out # Zero => out \otimes b = vout)
  BY <1>3, <1>11, AverageIs
<1> HIDE DEF a, b
<1>13. /\ realized(side_of(o), out, a, b) \in Rats
       /\ realized(side_of(o), out, a, b) =
             IF side_of(o) = "long" THEN (out \otimes b) -- (out \otimes a)
             ELSE (out \otimes a) -- (out \otimes b)
  BY <1>3, <1>12, RealizedIs
<1>14. in = out => realized(side_of(o), out, a, b) =
                       IF side_of(o) = "long" THEN vout -- vin ELSE vin -- vout
  BY <1>11, <1>12, <1>13
<1>15. /\ p.state = IF p.quantity = Zero THEN "closed"
                    ELSE IF out = Zero THEN "open" ELSE "partially_closed"
       /\ p.state = "closed" => in = out
  BY <1>5, <1>7, <1>8, <1>11
<1>16. p.state = "closed" => p.realized_pnl = Earned(h) -- Paid(h)
  BY <1>7, <1>9, <1>10, <1>14, <1>15
<1>17. /\ p.side = IF o = "buy" THEN "long" ELSE "short"
       /\ out = IF p.side = "long" THEN Sold(h) ELSE Bought(h)
       /\ p.side = "long" => in = Bought(h)
       /\ p.side = "short" => in = Sold(h)
  BY <1>7, <1>9, <1>10
<1> QED BY <1>3, <1>4, <1>5, <1>6, <1>7, <1>11, <1>12, <1>13, <1>15, <1>16, <1>17
        DEF p, o, x

-----------------------------------------------------------------------------
(* The invariant.                                                           *)

\* A position is what its history makes it.
PositionOK(s) ==
    /\ TotalsOK(histories[s])
    /\ histories[s] = <<>> => positions[s] = NoPosition
    /\ histories[s] # <<>> => /\ positions[s] = PositionOf(histories[s])
                              /\ calculator_ok(histories[s])

\* The fills derived so far are what the trade tracked.
FillsOK(t, l) ==
    /\ TotalsOK(l) /\ \A i \in DOMAIN l : l[i].realized_pnl \in Rats
    /\ quantity_of(l, {"buy"}) = tracked(t).bought
    /\ quantity_of(l, {"sell"}) = tracked(t).sold
    /\ RatSum([i \in DOMAIN l |-> l[i].realized_pnl]) = tracked(t).realized
    /\ t = NoTrade => l = <<>>
    /\ t # NoTrade => t.fill_count = Len(l)

TradeStateOf(h) ==
    IF PositionOf(h).state = "closed" THEN "closed"
    ELSE IF Sold(h) # Zero THEN "partially_filled" ELSE "open"

\* The trade knows all of the history.
InStep(t, h, l) ==
    /\ t # NoTrade
    /\ t.state = TradeStateOf(h)
    /\ t.entry_quantity = Bought(h) /\ t.exit_quantity = Sold(h)
    /\ t.realized_pnl = PositionOf(h).realized_pnl
    /\ Len(l) = Len(h)

\* The trade knows all of the history but its last fill, of quantity q.
Behind(t, h, l) ==
    /\ t = NoTrade => Sold(h) = Zero
    /\ t # NoTrade => t.state = IF tracked(t).sold # Zero THEN "partially_filled" ELSE "open"
    /\ Len(h) = Len(l) + 1
    /\ \E q \in Rats :
          /\ Zero \prec q
          /\ \/ Bought(h) = tracked(t).bought ++ q /\ Sold(h) = tracked(t).sold
             \/ Sold(h) = tracked(t).sold ++ q /\ Bought(h) = tracked(t).bought

\* Only a long position has a trade, which misses at most the fill on its way.
TradeOK(s) ==
    LET t == trades[s]
        h == histories[s]
        long == h # <<>> /\ h[1].side = "buy"
    IN  /\ FillsOK(t, fills[s])
        /\ t # NoTrade => long /\ t.side = "long"
        /\ h = <<>> => s \notin undelivered
        /\ long /\ s \notin undelivered => InStep(t, h, fills[s])
        /\ long /\ s \in undelivered => Behind(t, h, fills[s])

TradesInv ==
    /\ DOMAIN positions = Symbols /\ DOMAIN histories = Symbols
    /\ DOMAIN trades = Symbols /\ DOMAIN fills = Symbols
    /\ \A s \in Symbols : PositionOK(s) /\ TradeOK(s)

LEMMA FillsInit == FillsOK(NoTrade, <<>>)
<1> DEFINE l == <<>>
           f == [i \in DOMAIN l |-> l[i].realized_pnl]
<1>1. DOMAIN l = {}
  OBVIOUS
<1>2. TotalsOK(l) /\ quantity_of(l, {"buy"}) = Zero /\ quantity_of(l, {"sell"}) = Zero
  BY <1>1, TotalsInit DEF TotalsOK
<1>3. DOMAIN f = {}
  BY <1>1
<1>4. Summable(f)
  BY <1>1, FS_EmptySet DEF Summable
<1>5. RatSum(f) = Zero
  BY <1>3, <1>4, SumIs
<1> QED BY <1>1, <1>2, <1>5 DEF FillsOK, tracked

LEMMA TradesInitOK ==
    ASSUME TradeInit
    PROVE  TradesInv
BY TotalsInit, FillsInit DEF TradeInit, PositionInit, TradesInv, PositionOK, TradeOK

\* What the tracker and the lifecycle make of a long position.
LEMMA DerivedState ==
    ASSUME NEW h, TotalsOK(h), h # <<>>, calculator_ok(h), h[1].side = "buy"
    PROVE  derive_trade_state(PositionOf(h)) = TradeStateOf(h)
<1> DEFINE p == PositionOf(h)
<1>1. /\ p.side = "long" /\ Zero \prec Bought(h) /\ Sold(h) \preceq Bought(h)
      /\ p.quantity = Bought(h) -- Sold(h)
      /\ Bought(h) \in Rats /\ Sold(h) \in Rats
      /\ p.total_bought = Bought(h) /\ p.total_sold = Sold(h)
      /\ p.state = IF p.quantity = Zero THEN "closed"
                   ELSE IF Sold(h) = Zero THEN "open" ELSE "partially_closed"
  BY PositionIs
<1> HIDE DEF p
<1>2. ~(Bought(h) \preceq Zero)
  BY <1>1, ZeroOver, Compared
<1>3. Sold(h) # Zero <=> Zero \prec Sold(h)
  <2>1. Sold(h) = Zero \/ Zero \prec Sold(h)
    BY DEF TotalsOK, Sold
  <2>2. ~(Zero \prec Zero)
    BY ZeroOver, Compared
  <2> QED BY <2>1, <2>2
<1>4. Bought(h) \preceq Sold(h) => p.state = "closed"
  <2>1. /\ Bought(h) \preceq Sold(h) => Bought(h) = Sold(h)
        /\ Bought(h) = Sold(h) => Bought(h) -- Sold(h) = Zero
    BY <1>1, Compared
  <2> QED BY <1>1, <2>1
<1>5. p.state # "cancelled"
  BY <1>1
<1> QED BY <1>1, <1>2, <1>3, <1>4, <1>5 DEF derive_trade_state, match_completed,
          TradeStateOf, p

\* The profits of the fills add up as they come.
LEMMA ProfitsGrow ==
    ASSUME NEW l, IsSeq(l), \A i \in DOMAIN l : l[i].realized_pnl \in Rats,
           NEW f, f.realized_pnl \in Rats
    PROVE  /\ \A i \in DOMAIN Append(l, f) : Append(l, f)[i].realized_pnl \in Rats
           /\ RatSum([i \in DOMAIN l |-> l[i].realized_pnl]) \in Rats
           /\ RatSum([i \in DOMAIN Append(l, f) |-> Append(l, f)[i].realized_pnl]) =
                 RatSum([i \in DOMAIN l |-> l[i].realized_pnl]) ++ f.realized_pnl
<1> DEFINE n == Len(l) + 1
           new == Append(l, f)
           r == [i \in DOMAIN l |-> l[i].realized_pnl]
           R == [i \in DOMAIN new |-> new[i].realized_pnl]
<1>1. /\ IsSeq(new) /\ Len(l) \in Nat /\ Len(new) = n
      /\ \A i \in 1..Len(l) : new[i] = l[i]
      /\ new[n] = f
  BY AppendIs
<1>2. DOMAIN new = 1..n /\ DOMAIN l = 1..Len(l) /\ n \in Nat
  BY <1>1, SeqIs
<1>3. /\ DOMAIN new = DOMAIN l \union {n} /\ n \notin DOMAIN l
      /\ \A i \in DOMAIN l : new[i] = l[i]
  BY <1>1, <1>2
<1>4. IsFiniteSet(DOMAIN l) /\ IsFiniteSet(DOMAIN new)
  BY <1>1, <1>2, FS_Interval
<1> HIDE DEF new, n
<1>5. \A i \in DOMAIN new : new[i].realized_pnl \in Rats
  BY <1>1, <1>3
<1>6. Summable(r) /\ Summable(R)
  BY <1>4, <1>5 DEF Summable
<1>7. /\ DOMAIN r = DOMAIN l /\ DOMAIN R = DOMAIN r \union {n} /\ n \notin DOMAIN r
      /\ \A i \in DOMAIN r : R[i] = r[i]
      /\ R[n] = f.realized_pnl
  BY <1>1, <1>3
<1> HIDE DEF r, R
<1>8. RatSum(R) = RatSum(r) ++ R[n] /\ RatSum(r) \in Rats
  BY <1>6, <1>7, SumGrows, SumIs
<1> QED BY <1>5, <1>7, <1>8 DEF r, R, new

\* The fill derived from the running totals is the fill that was made.
LEMMA DerivedFill ==
    ASSUME NEW h, TotalsOK(h), h # <<>>, calculator_ok(h), h[1].side = "buy",
           NEW t, NEW l, FillsOK(t, l), Behind(t, h, l)
    PROVE  LET p == PositionOf(h)
               f == derive_fill(t, p)
           IN  /\ FillIs(f) /\ f.realized_pnl \in Rats
               /\ tracked(t).realized ++ f.realized_pnl = p.realized_pnl
               /\ Bought(h) = IF f.side = "buy" THEN tracked(t).bought ++ f.quantity
                              ELSE tracked(t).bought
               /\ Sold(h) = IF f.side = "sell" THEN tracked(t).sold ++ f.quantity
                            ELSE tracked(t).sold
               /\ has_delta(t, p)
<1> DEFINE p == PositionOf(h)
           f == derive_fill(t, p)
           b == tracked(t).bought
           k == tracked(t).sold
           r == tracked(t).realized
<1>1. /\ p.total_bought = Bought(h) /\ p.total_sold = Sold(h)
      /\ p.realized_pnl \in Rats /\ p.average_entry \in Rats /\ p.average_exit \in Rats
  BY PositionIs
<1>2. b \in Rats /\ k \in Rats
  BY TotalsSummable DEF FillsOK, TotalsOK
<1>3. r \in Rats
  <2>1. IsSeq(l) /\ \A i \in DOMAIN l : l[i].realized_pnl \in Rats
    BY DEF FillsOK, TotalsOK, HistoryIs
  <2> DEFINE e == [realized_pnl |-> Zero]
  <2>2. e.realized_pnl \in Rats
    BY ZeroOver
  <2> HIDE DEF e
  <2>3. RatSum([i \in DOMAIN l |-> l[i].realized_pnl]) \in Rats
    BY <2>1, <2>2, ProfitsGrow
  <2> QED BY <2>3 DEF FillsOK
<1>4. PICK q \in Rats :
          /\ Zero \prec q
          /\ \/ Bought(h) = b ++ q /\ Sold(h) = k
             \/ Sold(h) = k ++ q /\ Bought(h) = b
  BY DEF Behind
<1>5. f = IF /\ Zero \prec (p.total_bought -- b)
             /\ (p.total_sold -- k) \preceq (p.total_bought -- b)
          THEN TradeFill("buy", p.total_bought -- b, p.average_entry, p.realized_pnl -- r)
          ELSE TradeFill("sell", p.total_sold -- k, p.average_exit, p.realized_pnl -- r)
  BY DEF derive_fill
<1>6. has_delta(t, p) <=> b \prec p.total_bought \/ k \prec p.total_sold
  BY DEF has_delta
<1> HIDE DEF p, f, b, k, r
<1>7. /\ (b ++ q) -- b = q /\ b -- b = Zero
      /\ (k ++ q) -- k = q /\ k -- k = Zero
      /\ r ++ (p.realized_pnl -- r) = p.realized_pnl
      /\ p.realized_pnl -- r \in Rats
      /\ b ++ q \in Rats /\ k ++ q \in Rats
  <2>1. b ++ q = q ++ b /\ k ++ q = q ++ k
    BY <1>2, PlusLaws
  <2>2. (q ++ b) -- b = q /\ b -- b = Zero
    BY <1>2, PlusLaws
  <2>3. (q ++ k) -- k = q /\ k -- k = Zero
    BY <1>2, PlusLaws
  <2>4. /\ p.realized_pnl -- r \in Rats
        /\ b ++ q \in Rats /\ k ++ q \in Rats
    BY <1>1, <1>2, <1>3, Closed
  <2>5. (p.realized_pnl -- r) ++ r = p.realized_pnl
    BY <1>1, <1>3, PlusLaws
  <2>6. (p.realized_pnl -- r) ++ r = r ++ (p.realized_pnl -- r)
    BY <1>3, <2>4, PlusLaws
  <2> QED BY <2>1, <2>2, <2>3, <2>4, <2>5, <2>6
<1>8. b \prec (b ++ q) /\ k \prec (k ++ q) /\ ~(Zero \prec Zero) /\ Zero \preceq q
  <2>1. Zero \prec ((b ++ q) -- b) <=> b \prec (b ++ q)
    BY <1>2, <1>7, Compared
  <2>2. Zero \prec ((k ++ q) -- k) <=> k \prec (k ++ q)
    BY <1>2, <1>7, Compared
  <2>3. ~(Zero \prec Zero) /\ Zero \preceq q
    BY <1>4, ZeroOver, Compared
  <2> QED BY <1>4, <1>7, <2>1, <2>2, <2>3
<1>9. CASE Bought(h) = b ++ q /\ Sold(h) = k
  <2>1. f = TradeFill("buy", q, p.average_entry, p.realized_pnl -- r)
    BY <1>1, <1>4, <1>5, <1>7, <1>8, <1>9
  <2>2. /\ f.side = "buy" /\ f.quantity = q /\ f.price = p.average_entry
        /\ f.realized_pnl = p.realized_pnl -- r
    BY <2>1 DEF TradeFill
  <2> QED BY <1>1, <1>4, <1>6, <1>7, <1>8, <1>9, <2>2 DEF FillIs, p, f, b, k, r
<1>10. CASE Sold(h) = k ++ q /\ Bought(h) = b
  <2>1. f = TradeFill("sell", q, p.average_exit, p.realized_pnl -- r)
    BY <1>1, <1>4, <1>5, <1>7, <1>8, <1>10
  <2>2. /\ f.side = "sell" /\ f.quantity = q /\ f.price = p.average_exit
        /\ f.realized_pnl = p.realized_pnl -- r
    BY <2>1 DEF TradeFill
  <2> QED BY <1>1, <1>4, <1>6, <1>7, <1>8, <1>10, <2>2 DEF FillIs, p, f, b, k, r
<1> QED BY <1>4, <1>9, <1>10

\* The trade manager takes every update of a long position and is then in step.
LEMMA Delivered ==
    ASSUME NEW h, TotalsOK(h), h # <<>>, calculator_ok(h), h[1].side = "buy",
           NEW t, NEW l, FillsOK(t, l), Behind(t, h, l)
    PROVE  LET p == PositionOf(h)
               source == IF t = NoTrade THEN "pending" ELSE t.state
               new == build(t, p)
           IN  /\ source \notin {"closed", "cancelled"}
               /\ has_delta(t, p) /\ Zero \preceq p.quantity
               /\ trade_can_transition(source, derive_trade_state(p))
               /\ FillsOK(new, Append(l, derive_fill(t, p)))
               /\ InStep(new, h, Append(l, derive_fill(t, p)))
               /\ new.side = "long"
<1> DEFINE p == PositionOf(h)
           source == IF t = NoTrade THEN "pending" ELSE t.state
           new == build(t, p)
           f == derive_fill(t, p)
           m == Append(l, f)
<1>1. /\ FillIs(f) /\ f.realized_pnl \in Rats
      /\ tracked(t).realized ++ f.realized_pnl = p.realized_pnl
      /\ Bought(h) = IF f.side = "buy" THEN tracked(t).bought ++ f.quantity
                     ELSE tracked(t).bought
      /\ Sold(h) = IF f.side = "sell" THEN tracked(t).sold ++ f.quantity
                   ELSE tracked(t).sold
      /\ has_delta(t, p)
  BY DerivedFill
<1>2. /\ p.side = "long" /\ p.total_bought = Bought(h) /\ p.total_sold = Sold(h)
      /\ Bought(h) \in Rats /\ Sold(h) \in Rats /\ Zero \prec Bought(h)
      /\ p.quantity = Bought(h) -- Sold(h) /\ Zero \preceq p.quantity
      /\ p.state = IF p.quantity = Zero THEN "closed"
                   ELSE IF Sold(h) = Zero THEN "open" ELSE "partially_closed"
  BY PositionIs
<1>3. derive_trade_state(p) = TradeStateOf(h)
  BY DerivedState
<1>4. TradeStateOf(h) = IF p.state = "closed" THEN "closed"
                        ELSE IF Sold(h) # Zero THEN "partially_filled" ELSE "open"
  BY DEF TradeStateOf
<1>5. /\ new.state = TradeStateOf(h) /\ new.side = p.side
      /\ new.entry_quantity = p.total_bought /\ new.exit_quantity = p.total_sold
      /\ new.realized_pnl = p.realized_pnl
      /\ new.fill_count = (IF t = NoTrade THEN 0 ELSE t.fill_count) + 1
  BY <1>3 DEF build
<1>6. new # NoTrade
  BY <1>4, <1>5 DEF NoTrade
<1>7. /\ TotalsOK(l) /\ quantity_of(l, {"buy"}) = tracked(t).bought
      /\ quantity_of(l, {"sell"}) = tracked(t).sold
      /\ RatSum([i \in DOMAIN l |-> l[i].realized_pnl]) = tracked(t).realized
      /\ \A i \in DOMAIN l : l[i].realized_pnl \in Rats
      /\ t = NoTrade => l = <<>>
      /\ t # NoTrade => t.fill_count = Len(l)
  BY DEF FillsOK
<1>8. TotalsOK(m) /\ Len(m) = Len(l) + 1
  BY <1>1, <1>7, TotalsStep
<1>9. quantity_of(m, {"buy"}) = Bought(h) /\ quantity_of(m, {"sell"}) = Sold(h)
  <2>1. HistoryIs(l)
    BY <1>7 DEF TotalsOK
  <2>2. \A x : quantity_of(m, {x}) = IF f.side = x THEN quantity_of(l, {x}) ++ f.quantity
                                     ELSE quantity_of(l, {x})
    BY <1>1, <2>1, TotalsGrow
  <2> HIDE DEF m, f
  <2> QED BY <1>1, <1>7, <2>2
<1>10. /\ RatSum([i \in DOMAIN m |-> m[i].realized_pnl]) = p.realized_pnl
       /\ \A i \in DOMAIN m : m[i].realized_pnl \in Rats
  <2>1. IsSeq(l)
    BY <1>7 DEF TotalsOK, HistoryIs
  <2> HIDE DEF f
  <2> QED BY <1>1, <1>7, <2>1, ProfitsGrow
<1>11. new.fill_count = Len(m)
  BY <1>5, <1>7, <1>8
<1>12. tracked(new) = [bought |-> Bought(h), sold |-> Sold(h), realized |-> p.realized_pnl]
  BY <1>2, <1>5, <1>6 DEF tracked
<1> HIDE DEF p, new, m, f
<1>13. FillsOK(new, m)
  BY <1>6, <1>8, <1>9, <1>10, <1>11, <1>12 DEF FillsOK
<1>14. InStep(new, h, m)
  BY <1>2, <1>5, <1>6, <1>8 DEF InStep, Behind, p
<1>15. /\ t = NoTrade => p.state # "closed" /\ Sold(h) = Zero
       /\ t # NoTrade /\ tracked(t).sold # Zero => Sold(h) # Zero
  <2>1. ASSUME t = NoTrade
        PROVE  p.state # "closed" /\ Sold(h) = Zero
    <3>1. Sold(h) = Zero
      BY <2>1 DEF Behind
    <3>2. Bought(h) -- Zero = Bought(h) /\ Bought(h) # Zero
      BY <1>2, ZeroOver, PlusLaws, Compared
    <3> QED BY <1>2, <3>1, <3>2
  <2>2. ASSUME tracked(t).sold # Zero
        PROVE  Sold(h) # Zero
    <3>1. Zero \prec tracked(t).sold /\ tracked(t).sold \in Rats
      BY <1>7, <2>2, TotalsSummable DEF TotalsOK
    <3>2. f.quantity \in Rats /\ Zero \prec f.quantity
      BY <1>1 DEF FillIs
    <3>3. tracked(t).sold ++ f.quantity # Zero
      BY <3>1, <3>2, PositiveSum
    <3> QED BY <1>1, <2>2, <3>3
  <2> QED BY <2>1, <2>2
<1>16. t # NoTrade => t.state = IF tracked(t).sold # Zero THEN "partially_filled" ELSE "open"
  BY DEF Behind
<1>17. source \notin {"closed", "cancelled"}
  BY <1>16
<1>18. trade_can_transition(source, derive_trade_state(p))
  <2>1. CASE t = NoTrade
    BY <1>3, <1>4, <1>15, <2>1 DEF trade_can_transition, TRADE_TRANSITIONS
  <2>2. CASE t # NoTrade
    BY <1>3, <1>4, <1>15, <1>16, <2>2 DEF trade_can_transition, TRADE_TRANSITIONS
  <2> QED BY <2>1, <2>2
<1> QED BY <1>1, <1>2, <1>5, <1>13, <1>14, <1>17, <1>18 DEF p, new, m, f

\* A short position is never taken: its trade could only be PENDING, or skip OPEN.
LEMMA ShortRefused ==
    ASSUME NEW h, TotalsOK(h), h # <<>>, calculator_ok(h), h[1].side # "buy"
    PROVE  ~trade_can_transition("pending", derive_trade_state(PositionOf(h)))
<1> DEFINE p == PositionOf(h)
<1>1. p.side = "short" /\ Zero \prec Sold(h) /\ p.total_sold = Sold(h)
  BY PositionIs
<1> HIDE DEF p
<1>2. derive_trade_state(p) \in {"pending", "closed", "filled", "partially_filled"}
  BY <1>1 DEF derive_trade_state
<1> QED BY <1>2 DEF trade_can_transition, TRADE_TRANSITIONS, p

-----------------------------------------------------------------------------
(* Every step keeps the invariant.                                          *)

LEMMA Untouched ==
    ASSUME NEW s \in Symbols, PositionOK(s), TradeOK(s),
           positions'[s] = positions[s], histories'[s] = histories[s],
           trades'[s] = trades[s], fills'[s] = fills[s],
           (s \in undelivered') = (s \in undelivered)
    PROVE  PositionOK(s)' /\ TradeOK(s)'
BY DEF PositionOK, TradeOK

\* A new fill of a long position is the one its trade does not know of.
LEMMA OneBehind ==
    ASSUME NEW s \in Symbols, PositionOK(s), TradeOK(s), s \notin undelivered,
           source_state(s) # "closed", NEW f, FillIs(f),
           Append(histories[s], f)[1].side = "buy"
    PROVE  Behind(trades[s], Append(histories[s], f), fills[s])
<1> DEFINE h == histories[s]
           t == trades[s]
           l == fills[s]
           new == Append(h, f)
<1>1. TotalsOK(h) /\ FillsOK(t, l) /\ (t # NoTrade => h # <<>> /\ h[1].side = "buy")
  BY DEF PositionOK, TradeOK
<1>2. /\ Len(new) = Len(h) + 1 /\ new # <<>>
      /\ h # <<>> => new[1] = h[1]
      /\ h = <<>> => new[1] = f
  BY <1>1, TotalsStep
<1>3. \A x : quantity_of(new, {x}) = IF f.side = x THEN quantity_of(h, {x}) ++ f.quantity
                                     ELSE quantity_of(h, {x})
  BY <1>1, TotalsGrow DEF TotalsOK
<1>4. f.side \in {"buy", "sell"} /\ f.quantity \in Rats /\ Zero \prec f.quantity
  BY DEF FillIs
<1>5. CASE h = <<>>
  <2>1. t = NoTrade /\ l = <<>> /\ Len(new) = Len(l) + 1 /\ f.side = "buy"
    BY <1>1, <1>2, <1>5 DEF FillsOK
  <2>2. quantity_of(h, {"buy"}) = Zero /\ quantity_of(h, {"sell"}) = Zero
    BY <1>1, <1>5 DEF TotalsOK
  <2>3. tracked(t).bought = Zero /\ tracked(t).sold = Zero
    BY <2>1 DEF tracked
  <2> HIDE DEF new, h, t, l
  <2>4. Bought(new) = tracked(t).bought ++ f.quantity /\ Sold(new) = tracked(t).sold
    BY <1>3, <2>1, <2>2, <2>3 DEF Bought, Sold
  <2>5. Behind(t, new, l)
    BY <1>4, <2>1, <2>3, <2>4 DEF Behind
  <2> QED BY <2>5 DEF new, h, t, l
<1>6. CASE h # <<>>
  <2>1. h[1].side = "buy"
    BY <1>2, <1>6
  <2>2. InStep(t, h, l)
    BY <1>6, <2>1 DEF TradeOK
  <2>3. PositionOf(h).state # "closed"
    <3>1. positions[s] = PositionOf(h) /\ calculator_ok(h)
      BY <1>6 DEF PositionOK
    <3>2. PositionOf(h).state \in {"closed", "open", "partially_closed"}
      BY <1>1, <1>6, <3>1, PositionIs
    <3>3. positions[s] # NoPosition
      BY <3>1, <3>2 DEF NoPosition
    <3> QED BY <3>1, <3>3 DEF source_state
  <2>4. /\ t # NoTrade /\ tracked(t).bought = Bought(h) /\ tracked(t).sold = Sold(h)
        /\ t.state = IF Sold(h) # Zero THEN "partially_filled" ELSE "open"
        /\ Len(l) = Len(h)
    BY <2>2, <2>3 DEF InStep, tracked, TradeStateOf
  <2> HIDE DEF new, h, t, l
  <2>5. \/ Bought(new) = Bought(h) ++ f.quantity /\ Sold(new) = Sold(h)
        \/ Sold(new) = Sold(h) ++ f.quantity /\ Bought(new) = Bought(h)
    BY <1>3, <1>4 DEF Bought, Sold
  <2>6. Behind(t, new, l)
    BY <1>2, <1>4, <2>4, <2>5 DEF Behind
  <2> QED BY <2>6 DEF new, h, t, l
<1> QED BY <1>5, <1>6

LEMMA ArrivesStep ==
    ASSUME TradesInv, NEW s \in Symbols, NEW f \in FillTrades, FillArrives(s, f)
    PROVE  TradesInv'
<1> DEFINE h == histories[s]
           new == Append(h, f)
<1>1. /\ PositionSucceeds(s, f) /\ s \notin undelivered
      /\ positions' = [positions EXCEPT ![s] = new_position(s, f)]
      /\ histories' = [histories EXCEPT ![s] = new]
      /\ undelivered' = undelivered \union {s}
      /\ trades' = trades /\ fills' = fills
  BY DEF FillArrives, UpdatePosition, new_history, trade_vars
<1>2. FillIs(f)
  BY FillTradesAre
<1>3. /\ PositionOK(s) /\ TradeOK(s)
      /\ DOMAIN positions = Symbols /\ DOMAIN histories = Symbols
      /\ DOMAIN trades = Symbols /\ DOMAIN fills = Symbols
  BY DEF TradesInv
<1>4. /\ positions'[s] = PositionOf(new) /\ histories'[s] = new
      /\ calculator_ok(new) /\ source_state(s) # "closed"
      /\ trades'[s] = trades[s] /\ fills'[s] = fills[s] /\ s \in undelivered'
  BY <1>1, <1>3 DEF PositionSucceeds, new_position, new_history, PositionOf
<1>5. /\ TotalsOK(new) /\ new # <<>>
      /\ h # <<>> => new[1] = h[1]
  BY <1>2, <1>3, TotalsStep DEF PositionOK
<1>6. PositionOK(s)'
  BY <1>4, <1>5 DEF PositionOK
<1>7. TradeOK(s)'
  <2>1. /\ FillsOK(trades[s], fills[s])
        /\ trades[s] # NoTrade => /\ h # <<>> /\ h[1].side = "buy"
                                  /\ trades[s].side = "long"
    BY <1>3 DEF TradeOK
  <2>2. new[1].side = "buy" => Behind(trades[s], new, fills[s])
    BY <1>1, <1>2, <1>3, <1>4, OneBehind
  <2> HIDE DEF h, new
  <2> QED BY <1>4, <1>5, <2>1, <2>2 DEF TradeOK
<1>8. ASSUME NEW r \in Symbols, r # s
      PROVE  PositionOK(r)' /\ TradeOK(r)'
  <2>1. /\ positions'[r] = positions[r] /\ histories'[r] = histories[r]
        /\ trades'[r] = trades[r] /\ fills'[r] = fills[r]
        /\ (r \in undelivered') = (r \in undelivered)
    BY <1>1, <1>3, <1>8
  <2>2. PositionOK(r) /\ TradeOK(r)
    BY DEF TradesInv
  <2> QED BY <2>1, <2>2, Untouched
<1>9. /\ DOMAIN positions' = Symbols /\ DOMAIN histories' = Symbols
      /\ DOMAIN trades' = Symbols /\ DOMAIN fills' = Symbols
  BY <1>1, <1>3
<1> QED BY <1>6, <1>7, <1>8, <1>9 DEF TradesInv

LEMMA DeliverStep ==
    ASSUME TradesInv, NEW s \in Symbols, Deliver(s)
    PROVE  TradesInv'
<1> DEFINE h == histories[s]
           p == positions[s]
           t == trades[s]
           l == fills[s]
           new == build(t, p)
           m == Append(l, derive_fill(t, p))
<1>1. /\ s \in undelivered /\ undelivered' = undelivered \ {s}
      /\ positions' = positions /\ histories' = histories
      /\ UpdateTrade(s, p) \/ UpdateTradeFails(s, p)
  BY DEF Deliver, position_vars
<1>2. /\ PositionOK(s) /\ TradeOK(s)
      /\ DOMAIN positions = Symbols /\ DOMAIN histories = Symbols
      /\ DOMAIN trades = Symbols /\ DOMAIN fills = Symbols
  BY DEF TradesInv
<1>3. h # <<>> /\ FillsOK(t, l)
  BY <1>1, <1>2 DEF TradeOK
<1>4. p = PositionOf(h) /\ calculator_ok(h) /\ TotalsOK(h)
  BY <1>2, <1>3 DEF PositionOK
<1>5. /\ UpdateTrade(s, p) =>
            trades' = [trades EXCEPT ![s] = new] /\ fills' = [fills EXCEPT ![s] = m]
      /\ UpdateTradeFails(s, p) => trades' = trades /\ fills' = fills
  BY DEF UpdateTrade, UpdateTradeFails, trade_vars
<1>6. ASSUME h[1].side = "buy"
      PROVE  TradeOK(s)'
  <2>1. Behind(t, h, l)
    BY <1>1, <1>2, <1>3, <1>6 DEF TradeOK
  <2>2. /\ trade_source(s) \notin {"closed", "cancelled"}
        /\ has_delta(t, p) /\ Zero \preceq p.quantity
        /\ trade_can_transition(trade_source(s), derive_trade_state(p))
        /\ FillsOK(new, m) /\ InStep(new, h, m) /\ new.side = "long"
    BY <1>3, <1>4, <1>6, <2>1, Delivered DEF trade_source
  <2>3. TradeSucceeds(s, p)
    BY <2>2 DEF TradeSucceeds
  <2>4. trades'[s] = new /\ fills'[s] = m /\ s \notin undelivered' /\ histories'[s] = h
    BY <1>1, <1>2, <1>5, <2>3 DEF UpdateTradeFails
  <2> HIDE DEF new, m, t, l
  <2> QED BY <1>3, <1>6, <2>2, <2>4 DEF TradeOK
<1>7. ASSUME h[1].side # "buy"
      PROVE  TradeOK(s)'
  <2>1. t = NoTrade
    BY <1>2, <1>7 DEF TradeOK
  <2>2. ~TradeSucceeds(s, p)
    BY <1>3, <1>4, <1>7, <2>1, ShortRefused DEF TradeSucceeds, trade_source
  <2>3. trades'[s] = t /\ fills'[s] = l /\ s \notin undelivered' /\ histories'[s] = h
    BY <1>1, <1>5, <2>2 DEF UpdateTrade
  <2> HIDE DEF new, m, t, l
  <2> QED BY <1>3, <1>7, <2>1, <2>3 DEF TradeOK
<1>8. PositionOK(s)'
  BY <1>1, <1>2 DEF PositionOK
<1>9. ASSUME NEW r \in Symbols, r # s
      PROVE  PositionOK(r)' /\ TradeOK(r)'
  <2>1. /\ positions'[r] = positions[r] /\ histories'[r] = histories[r]
        /\ trades'[r] = trades[r] /\ fills'[r] = fills[r]
        /\ (r \in undelivered') = (r \in undelivered)
    BY <1>1, <1>2, <1>5, <1>9
  <2>2. PositionOK(r) /\ TradeOK(r)
    BY DEF TradesInv
  <2> QED BY <2>1, <2>2, Untouched
<1>10. /\ DOMAIN positions' = Symbols /\ DOMAIN histories' = Symbols
       /\ DOMAIN trades' = Symbols /\ DOMAIN fills' = Symbols
  BY <1>1, <1>2, <1>5
<1> QED BY <1>6, <1>7, <1>8, <1>9, <1>10 DEF TradesInv

LEMMA TradesAlways == TradeSpec => []TradesInv
<1>1. TradeInit => TradesInv
  BY TradesInitOK
<1>2. TradesInv /\ [TradeNext]_vars => TradesInv'
  <2> SUFFICES ASSUME TradesInv, [TradeNext]_vars
               PROVE  TradesInv'
    OBVIOUS
  <2>1. CASE UNCHANGED vars
    <3>1. /\ positions' = positions /\ histories' = histories /\ trades' = trades
          /\ fills' = fills /\ undelivered' = undelivered
      BY <2>1 DEF vars, position_vars, trade_vars
    <3> QED BY <3>1, Untouched DEF TradesInv
  <2>2. ASSUME NEW s \in Symbols, NEW f \in FillTrades, FillRefused(s, f)
        PROVE  TradesInv'
    <3>1. /\ positions' = positions /\ histories' = histories /\ trades' = trades
          /\ fills' = fills /\ undelivered' = undelivered
      BY <2>2 DEF FillRefused, UpdatePositionFails, position_vars, trade_vars
    <3> QED BY <3>1, Untouched DEF TradesInv
  <2> QED BY <2>1, <2>2, ArrivesStep, DeliverStep DEF TradeNext
<1> QED BY <1>1, <1>2, PTL DEF TradeSpec

-----------------------------------------------------------------------------
(* The theorems.                                                            *)

\* A tracked symbol has a history, and its position is the history's.
LEMMA TrackedIs ==
    ASSUME TradesInv, NEW s \in Tracked
    PROVE  /\ s \in Symbols /\ histories[s] # <<>>
           /\ TotalsOK(histories[s]) /\ calculator_ok(histories[s])
           /\ positions[s] = PositionOf(histories[s])
BY DEF TradesInv, PositionOK, Tracked

\* Whatever the fills and their prices, a closed position's profit is the cash its
\* fills brought in (DefaultPositionCalculator.calculate).
THEOREM ClosedProfitAlways == TradeSpec => []ClosedProfitIsCashFlow
<1>1. TradesInv => ClosedProfitIsCashFlow
  <2> SUFFICES ASSUME TradesInv, NEW s \in Tracked, positions[s].state = "closed"
               PROVE  positions[s].realized_pnl =
                          notional_of(histories[s], {"sell"}) --
                          notional_of(histories[s], {"buy"})
    BY DEF ClosedProfitIsCashFlow
  <2> QED BY TrackedIs, PositionIs DEF Earned, Paid
<1> QED BY <1>1, TradesAlways, PTL

\* A trade's derived fills add up to the trade, on each side and in profit, for any
\* sequence of position updates (DefaultTradeTracker.derive_fill).
THEOREM FillsAddUpAlways == TradeSpec => []FillsAddUpToTrade
<1>1. TradesInv => FillsAddUpToTrade
  <2> SUFFICES ASSUME TradesInv, NEW s \in TradesOpened
               PROVE  LET of(side) == {i \in DOMAIN fills[s] : fills[s][i].side = side}
                          quantity(side) == RatSum([i \in of(side) |-> fills[s][i].quantity])
                      IN  /\ quantity("buy") = trades[s].entry_quantity
                          /\ quantity("sell") = trades[s].exit_quantity
                          /\ RatSum([i \in DOMAIN fills[s] |-> fills[s][i].realized_pnl])
                                = trades[s].realized_pnl
                          /\ Len(fills[s]) = trades[s].fill_count
    BY DEF FillsAddUpToTrade
  <2> DEFINE t == trades[s]
             l == fills[s]
  <2>1. FillsOK(t, l) /\ t # NoTrade
    BY DEF TradesInv, TradeOK, TradesOpened
  <2>2. /\ quantity_of(l, {"buy"}) = t.entry_quantity
        /\ quantity_of(l, {"sell"}) = t.exit_quantity
        /\ RatSum([i \in DOMAIN l |-> l[i].realized_pnl]) = t.realized_pnl
        /\ Len(l) = t.fill_count
    BY <2>1 DEF FillsOK, tracked
  <2>3. \A side : {i \in DOMAIN l : l[i].side \in {side}} = {i \in DOMAIN l : l[i].side = side}
    OBVIOUS
  <2>4. \A side : quantity_of(l, {side}) =
                      RatSum([i \in {i \in DOMAIN l : l[i].side = side} |-> l[i].quantity])
    BY <2>3 DEF quantity_of
  <2> QED BY <2>2, <2>4
<1> QED BY <1>1, TradesAlways, PTL

LEMMA PositionTypes ==
    ASSUME TradesInv
    PROVE  PositionTypeOK /\ StateMatchesQuantity
<1> SUFFICES ASSUME NEW s \in Tracked
             PROVE  LET p == positions[s]
                        net == p.total_bought -- p.total_sold
                        exits == IF p.side = "long" THEN p.total_sold ELSE p.total_bought
                    IN  /\ p.state \in DOMAIN VALID_TRANSITIONS
                        /\ p.side \in {"long", "short"}
                        /\ \A x \in {p.quantity, p.total_bought, p.total_sold, p.average_entry,
                                     p.average_exit, p.realized_pnl} : IsRat(x)
                        /\ p.quantity = IF p.side = "long" THEN net ELSE Zero -- net
                        /\ Zero \preceq p.quantity
                        /\ (p.state = "closed") <=> (p.quantity = Zero)
                        /\ (p.state = "open") <=> (exits = Zero)
  BY DEF PositionTypeOK, StateMatchesQuantity
<1> DEFINE h == histories[s]
           p == positions[s]
           b == Bought(h)
           k == Sold(h)
<1>1. p = PositionOf(h) /\ TotalsOK(h) /\ h # <<>> /\ calculator_ok(h)
  BY TrackedIs
<1>2. /\ p.side \in {"long", "short"}
      /\ p.total_bought = b /\ b \in Rats
      /\ p.total_sold = k /\ k \in Rats
      /\ p.quantity \in Rats /\ p.realized_pnl \in Rats
      /\ p.average_entry \in Rats /\ p.average_exit \in Rats
      /\ p.side = "long" => Zero \prec b /\ p.quantity = b -- k
      /\ p.side = "short" => Zero \prec k /\ p.quantity = k -- b
      /\ Zero \preceq p.quantity
      /\ p.state = IF p.quantity = Zero THEN "closed"
                   ELSE IF (IF p.side = "long" THEN k ELSE b) = Zero THEN "open"
                   ELSE "partially_closed"
  BY <1>1, PositionIs
<1> HIDE DEF b, k, p
<1>3. /\ Zero -- (b -- k) = k -- b
      /\ b -- k = Zero <=> b = k
      /\ k -- b = Zero <=> k = b
  BY <1>2, Compared
<1>4. (Zero \prec b => b # Zero) /\ (Zero \prec k => k # Zero)
  BY <1>2, ZeroOver, Compared
<1>5. p.state \in DOMAIN VALID_TRANSITIONS
  BY <1>2 DEF VALID_TRANSITIONS
<1>6. \A x \in {p.quantity, p.total_bought, p.total_sold, p.average_entry,
                p.average_exit, p.realized_pnl} : IsRat(x)
  BY <1>2, IsRatIs
<1>7. (p.state = "open") <=> ((IF p.side = "long" THEN k ELSE b) = Zero)
  BY <1>2, <1>3, <1>4
<1> QED BY <1>2, <1>3, <1>5, <1>6, <1>7 DEF p

LEMMA TradeTypes ==
    ASSUME TradesInv
    PROVE  TradeTypeOK
<1> SUFFICES ASSUME NEW s \in TradesOpened
             PROVE  /\ trades[s].state \in DOMAIN TRADE_TRANSITIONS
                    /\ trades[s].side \in {"long", "short"}
                    /\ trades[s].fill_count \in Nat
                    /\ \A x \in {trades[s].entry_quantity, trades[s].exit_quantity,
                                 trades[s].realized_pnl} : IsRat(x)
                    /\ \A i \in DOMAIN fills[s] : IsRat(fills[s][i].quantity)
  BY DEF TradeTypeOK
<1> DEFINE t == trades[s]
           l == fills[s]
<1>1. TradeOK(s) /\ FillsOK(t, l) /\ t # NoTrade /\ t.side = "long"
  BY DEF TradesInv, TradeOK, TradesOpened
<1>2. t.state \in {"open", "partially_filled", "closed"}
  BY <1>1 DEF TradeOK, InStep, Behind, TradeStateOf
<1>3. /\ TotalsOK(l) /\ \A i \in DOMAIN l : l[i].realized_pnl \in Rats
      /\ quantity_of(l, {"buy"}) = t.entry_quantity
      /\ quantity_of(l, {"sell"}) = t.exit_quantity
      /\ RatSum([i \in DOMAIN l |-> l[i].realized_pnl]) = t.realized_pnl
      /\ t.fill_count = Len(l)
  BY <1>1 DEF FillsOK, tracked
<1>4. IsSeq(l) /\ HistoryIs(l) /\ Len(l) \in Nat
  BY <1>3, SeqIs DEF TotalsOK, HistoryIs
<1>5. \A i \in DOMAIN l : IsRat(l[i].quantity)
  BY <1>4, IsRatIs DEF HistoryIs, FillIs
<1>6. t.entry_quantity \in Rats /\ t.exit_quantity \in Rats
  BY <1>3, <1>4, TotalsSummable
<1>7. t.realized_pnl \in Rats
  <2> DEFINE e == [realized_pnl |-> Zero]
  <2>1. e.realized_pnl \in Rats
    BY ZeroOver
  <2> HIDE DEF e
  <2> QED BY <1>3, <1>4, <2>1, ProfitsGrow
<1> HIDE DEF t, l
<1>8. \A x \in {t.entry_quantity, t.exit_quantity, t.realized_pnl} : IsRat(x)
  BY <1>6, <1>7, IsRatIs
<1>9. t.state \in DOMAIN TRADE_TRANSITIONS
  BY <1>2 DEF TRADE_TRANSITIONS
<1> QED BY <1>1, <1>3, <1>4, <1>5, <1>8, <1>9 DEF t, l

\* The analytics of a trade in step are the metrics of its position.
LEMMA SameReport ==
    ASSUME NEW h, TotalsOK(h), h # <<>>, calculator_ok(h), h[1].side = "buy",
           NEW t, NEW l, InStep(t, h, l)
    PROVE  LET analytics == TradeAnalytics(t, l)
               metrics == PositionMetrics(h)
           IN  /\ analytics.fill_count = metrics.trade_count
               /\ analytics.won <=> metrics.win_rate = One
               /\ analytics.gross_profit = metrics.average_profit ++ metrics.average_loss
<1> DEFINE x == PositionOf(h).realized_pnl
           k == Sold(h)
           analytics == TradeAnalytics(t, l)
           metrics == PositionMetrics(h)
           exits == {i \in DOMAIN h : h[i].side = exit_side(h)}
<1>1. x \in Rats /\ (k # Zero <=> exits # {}) /\ k \in Rats
  <2>1. /\ PositionOf(h).side = "long" /\ x \in Rats /\ k \in Rats
        /\ k # Zero <=> \E i \in DOMAIN h : h[i].side = exit_side(h)
    BY PositionIs
  <2> QED BY <2>1
<1>2. calculate(h).realized_pnl = x
  BY DEF PositionOf, Position
<1>3. k # Zero <=> Zero \prec k
  <2>1. k = Zero \/ Zero \prec k
    BY DEF TotalsOK, Sold
  <2>2. ~(Zero \prec Zero)
    BY ZeroOver, Compared
  <2> QED BY <2>1, <2>2
<1>4. t.realized_pnl = x /\ t.exit_quantity = k /\ Len(l) = Len(h)
  BY DEF InStep
<1> HIDE DEF x, k
<1>5. /\ metrics.trade_count = Len(h)
      /\ metrics.win_rate = IF exits # {} /\ Zero \prec x THEN One ELSE Zero
      /\ metrics.average_profit = IF Zero \prec x THEN x ELSE Zero
      /\ metrics.average_loss = IF x \prec Zero THEN x ELSE Zero
  BY <1>2 DEF PositionMetrics
<1>6. /\ analytics.gross_profit = x
      /\ analytics.won = (Zero \prec k /\ Zero \prec x)
      /\ analytics.fill_count = Len(h)
  BY <1>4 DEF TradeAnalytics
<1>7. One # Zero
  BY DEF One, Zero, Rat
<1> HIDE DEF analytics, metrics, exits
<1>8. analytics.won <=> metrics.win_rate = One
  BY <1>1, <1>3, <1>5, <1>6, <1>7
<1>9. metrics.average_profit ++ metrics.average_loss = x
  <2>1. /\ Zero ++ x = x /\ x ++ Zero = x /\ Zero ++ Zero = Zero
    BY <1>1, ZeroOver, PlusLaws
  <2>2. /\ Zero \preceq x <=> ~(x \prec Zero)
        /\ x \preceq Zero <=> ~(Zero \prec x)
        /\ x \preceq Zero /\ Zero \preceq x => x = Zero
        /\ Zero \prec x => Zero \preceq x
    BY <1>1, ZeroOver, Compared
  <2> QED BY <1>5, <2>1, <2>2
<1> QED BY <1>5, <1>6, <1>8, <1>9 DEF analytics, metrics

\* Position and trade frameworks agree whatever the fills: the state of a position
\* is the one its amounts call for, and the trade manager takes every update of a
\* long position, ending in the matching state with the same quantities, fills,
\* profit and outcome (DefaultTradeManager._compute).
THEOREM TradeFollowsAlways == TradeSpec => []TradeFollowsPosition
<1>1. TradesInv => TradeFollowsPosition
  <2> SUFFICES ASSUME TradesInv, NEW s \in Tracked \ undelivered, positions[s].side = "long"
               PROVE  /\ s \in TradesOpened
                      /\ trades[s].exit_quantity = positions[s].total_sold
                      /\ trades[s].entry_quantity = positions[s].total_bought
                      /\ LET analytics == TradeAnalytics(trades[s], fills[s])
                             metrics == PositionMetrics(histories[s])
                         IN  /\ analytics.fill_count = metrics.trade_count
                             /\ analytics.won <=> metrics.win_rate = One
                             /\ analytics.gross_profit =
                                    metrics.average_profit ++ metrics.average_loss
                      /\ trades[s].state =
                            CASE positions[s].state = "open" -> "open"
                              [] positions[s].state = "partially_closed" -> "partially_filled"
                              [] positions[s].state = "closed" -> "closed"
    BY PositionTypes, TradeTypes DEF TradeFollowsPosition
  <2> DEFINE h == histories[s]
             p == positions[s]
             t == trades[s]
  <2>1. s \in Symbols /\ p = PositionOf(h) /\ TotalsOK(h) /\ h # <<>> /\ calculator_ok(h)
    BY TrackedIs
  <2>2. /\ h[1].side = "buy" /\ p.total_bought = Bought(h) /\ p.total_sold = Sold(h)
        /\ p.state = IF p.quantity = Zero THEN "closed"
                     ELSE IF Sold(h) = Zero THEN "open" ELSE "partially_closed"
    BY <2>1, PositionIs
  <2>3. InStep(t, h, fills[s])
    BY <2>1, <2>2 DEF TradesInv, TradeOK
  <2>4. /\ t # NoTrade /\ t.state = TradeStateOf(h)
        /\ t.entry_quantity = Bought(h) /\ t.exit_quantity = Sold(h)
    BY <2>3 DEF InStep
  <2>5. LET analytics == TradeAnalytics(t, fills[s])
            metrics == PositionMetrics(h)
        IN  /\ analytics.fill_count = metrics.trade_count
            /\ analytics.won <=> metrics.win_rate = One
            /\ analytics.gross_profit = metrics.average_profit ++ metrics.average_loss
    BY <2>1, <2>2, <2>3, SameReport
  <2>6. TradeStateOf(h) = IF p.state = "closed" THEN "closed"
                          ELSE IF Sold(h) # Zero THEN "partially_filled" ELSE "open"
    BY <2>1 DEF TradeStateOf
  <2>7. t.state = CASE p.state = "open" -> "open"
                    [] p.state = "partially_closed" -> "partially_filled"
                    [] p.state = "closed" -> "closed"
    <3> HIDE DEF p, t, h
    <3>1. CASE p.state = "open"
      BY <2>2, <2>4, <2>6, <3>1
    <3>2. CASE p.state = "partially_closed"
      BY <2>2, <2>4, <2>6, <3>2
    <3>3. CASE p.state = "closed"
      BY <2>2, <2>4, <2>6, <3>3
    <3> QED BY <2>2, <3>1, <3>2, <3>3
  <2>8. s \in TradesOpened
    BY <2>1, <2>4 DEF TradesOpened
  <2> QED BY <2>2, <2>4, <2>5, <2>7, <2>8
<1> QED BY <1>1, TradesAlways, PTL
=============================================================================
